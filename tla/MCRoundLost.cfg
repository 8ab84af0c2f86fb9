\* The game of MCLink, its account in another game too: a comment of the code it does not keep.
CONSTANTS
    c1 = c1
    c2 = c2
    r1 = r1
    r2 = r2
    Course <- MCCourse
    CartCourse <- MCCartCourse
    Room <- MCRoom
    CourseOf <- MCCourseOf
    NoCourse = NoCourse
    NoRoom = NoRoom
    MaxFlight = 2
SPECIFICATION Spec
PROPERTY LostOnlyElsewhere
