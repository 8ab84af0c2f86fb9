\* Keys and other games wait while two calls or answers are on their way.
CONSTANTS
    c1 = c1
    c2 = c2
    r1 = r1
    r2 = r2
    Course <- MCCourse
    CartCourse <- MCCartCourse
    Room <- MCRoom
    CourseOf <- MCCourseOf
    NoCourse = NoCourse
    NoRoom = NoRoom
    MaxFlight = 2
SPECIFICATION FairSpec
INVARIANT LinkTypeOK
INVARIANT ConnectionSound
INVARIANT RoomsAgree
PROPERTY WaitsEnd
PROPERTY SignInEnds
