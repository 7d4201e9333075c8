SPECIFICATION AttendanceSpec
CONSTANTS
    ann = ann
    bob = bob
    tap = tap
    fix = fix
    leave = leave
    other = other
    all = all
    Students = {ann, bob}
    Requests = {tap, fix, leave, other, all}
    Kind <- MCKind
    Target <- MCTarget
    Enrollments <- MCEnrollments
INVARIANTS AttendanceTypeOK ExactUnlessDisturbed AllOrNothing
PROPERTIES ChangesLogged DuplicatesFrozen
CHECK_DEADLOCK FALSE
