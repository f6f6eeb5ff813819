SPECIFICATION Spec
CONSTANTS
    w1 = w1  w2 = w2  u1 = u1  u2 = u2  i1 = i1  a1 = a1
    ta = ta  tb = tb  p1 = p1  p2 = p2
    Nil = Nil  Garbled = Garbled
    Worker = {w1}
    User = {u1, u2}
    Ip = {i1}
    Addr = {a1}
    Token = {ta, tb}
    Passwd <- MCPasswd
    LoginHash <- MCLoginHash
    SessPairs <- OnePair
    AdminUser = {u1}
    Requests <- TwoUsers
    Outcomes = {"ok"}
    MayCrash = FALSE
PROPERTIES OneSignupPerIp
