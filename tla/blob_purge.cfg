SPECIFICATION Spec
CONSTANTS
    Writers = {w1, w2}
    Admins = {w2}
    Accounts = {a1}
    Queue = queue
    Hold = 2
    Horizon = 2
INVARIANTS TypeOK NoLostContents NoForgottenContents
CHECK_DEADLOCK FALSE
