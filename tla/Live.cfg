CONSTANTS
    Run = {r1}
    Ready = Ready
    Edition = {a1, c1}
    Addition = {a1}
    Preview = {p1}
    Stopper = {s3}
    Vacant = Vacant
    Proc = {p2, p3, p4}
    Nobody = Nobody
    Card = {i1, i2}
    Asked = {i1}
    Listener = {s1, s2}
    Checkout = {k1}
    Handler = {h1, h2}
    Admin = {m1}
    Picture = {f1, f2}
    Film = v1
    Clip = {g1, g2}
    Person = {u1}
SPECIFICATION FairSpec
INVARIANTS SafeMeanwhile
PROPERTIES TurnLockGoes LandingEnds ServerComesBack QueueMoves PaymentIsGranted ExportEnds BatchEnds
CHECK_DEADLOCK FALSE
