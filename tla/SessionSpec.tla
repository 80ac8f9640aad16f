----------------------------- MODULE SessionSpec -----------------------------
(***************************************************************************)
(* What the authentication service promises, request by request: an        *)
(* enabled account holds a set of open sessions, each known by the token   *)
(* that renews it, a session closed once never opens again, and disabling  *)
(* an account, setting its password or replaying a spent token closes all  *)
(* of its sessions.                                                        *)
(***************************************************************************)
CONSTANTS Users, Tokens, None

VARIABLES
    open,     \* tokens that can renew a session
    spent,    \* tokens exchanged or closed
    holder,   \* the account of a token that was ever open
    enabled   \* accounts that may sign in

abstractVars == <<open, spent, holder, enabled>>

Of(u) == {t \in open : holder[t] = u}

Init ==
    /\ open = {} /\ spent = {}
    /\ holder = [t \in Tokens |-> None]
    /\ enabled = Users

Unused(t) == t \notin open \cup spent

SignIn(u, t) ==
    /\ u \in enabled /\ Unused(t)
    /\ open' = open \cup {t}
    /\ holder' = [holder EXCEPT ![t] = u]
    /\ UNCHANGED <<spent, enabled>>

Renew(old, t) ==
    /\ old \in open /\ holder[old] \in enabled /\ Unused(t)
    /\ open' = (open \ {old}) \cup {t}
    /\ spent' = spent \cup {old}
    /\ holder' = [holder EXCEPT ![t] = holder[old]]
    /\ UNCHANGED enabled

Close(t) ==
    /\ t \in open
    /\ open' = open \ {t}
    /\ spent' = spent \cup {t}
    /\ UNCHANGED <<holder, enabled>>

CloseAll(u) ==
    /\ open' = open \ Of(u)
    /\ spent' = spent \cup Of(u)
    /\ UNCHANGED holder
    /\ enabled' \in {enabled, enabled \ {u}}

SignInAfresh(u, t) ==
    /\ u \in enabled /\ Unused(t)
    /\ open' = (open \ Of(u)) \cup {t}
    /\ spent' = spent \cup Of(u)
    /\ holder' = [holder EXCEPT ![t] = u]
    /\ UNCHANGED enabled

Enable(u) == enabled' = enabled \cup {u} /\ UNCHANGED <<open, spent, holder>>

Next ==
    \/ \E u \in Users : CloseAll(u) \/ Enable(u)
    \/ \E u \in Users, t \in Tokens : SignIn(u, t) \/ SignInAfresh(u, t)
    \/ \E t \in Tokens : Close(t)
    \/ \E old, t \in Tokens : Renew(old, t)

Spec == Init /\ [][Next]_abstractVars
=============================================================================
