---------------------------- MODULE ClientSession -----------------------------
(***************************************************************************)
(* The session of one browser page: Providers.tsx restores it when the     *)
(* page loads, skulpulseApi.ts renews the access token when a request is   *)
(* refused, the sign-in screens and the password gate start a new one,     *)
(* useLogout ends it, and the entry page and useAuthGuard route by it.     *)
(*                                                                         *)
(* The API is modelled by what AuthSessions proves of it: a refresh token  *)
(* is good once, and one that comes a second time ends the session.        *)
(* Tokens are numbered as they are issued.  One account uses the page; the *)
(* two portals run the same steps.                                         *)
(***************************************************************************)
EXTENDS Naturals, FiniteSets

CONSTANTS
    Asks,           \* requests the screens may have in flight at once
    MaxTokens       \* bound on the refresh tokens issued

VARIABLES
    screen,         \* the route, the auth slice, the password gate
    calls,          \* requests in flight
    rows,           \* the API's session and the browser's cookie
    past            \* history: what the properties except

-----------------------------------------------------------------------------
(* Faulty variants: what the properties must catch.                        *)

Fetch == [at |-> "none", from |-> 0, to |-> 0, for |-> "none"]

\* Every refused request sends the cookie for itself: of two with the same token
\* the second is a reuse.
RenewEach(r) ==
    /\ calls.ask[r] = "refused"
    /\ calls' = [calls EXCEPT !.ask[r] = "waiting",
                              !.refresh = IF @ = Fetch THEN [Fetch EXCEPT !.at = "sent", !.from = rows.jar,
                                                                          !.for = "retry"] ELSE @]
    /\ rows' = IF calls.refresh = Fetch THEN rows ELSE [rows EXCEPT !.live = 0, !.tripped = TRUE]
    /\ UNCHANGED <<screen, past>>

\* A refresh that fails is forgotten before those waiting for it are told.
RenewalEndsQuietly(scr, c) ==
    /\ screen' = scr
    /\ calls' = [c EXCEPT !.refresh = Fetch,
                          !.ask = [r \in Asks |->
                              IF @[r] = "waiting" /\ scr.status = "authenticated" THEN "again" ELSE @[r]]]

-----------------------------------------------------------------------------
(* The session                                                             *)

Anonymous(scr) == [scr EXCEPT !.token = "none", !.user = FALSE, !.status = "anonymous"]
WithToken(scr) == [scr EXCEPT !.token = "good", !.status = "authenticated"]
Blank == [at |-> "closed", ready |-> FALSE, status |-> "unknown", token |-> "none",
          user |-> FALSE, gate |-> FALSE]
Silent == [refresh |-> Fetch, me |-> Fetch, sign |-> Fetch, out |-> Fetch,
           ask |-> [r \in Asks |-> "idle"]]

Init ==
    /\ screen = Blank /\ calls = Silent
    /\ \E signedIn, must \in BOOLEAN :
          rows = [last |-> 1, live |-> IF signedIn THEN 1 ELSE 0,
                  jar |-> IF signedIn THEN 1 ELSE 0, must |-> must, tripped |-> FALSE]
    /\ past = [lost |-> FALSE, raced |-> FALSE, left |-> FALSE, unread |-> FALSE]

\* Cookies are replaced or revoked by renewing, signing in and signing out; not by
\* a call that has been refused and waits for a refresh.
TokenCalls(c) == {k \in {"refresh", "sign", "out"} : c[k].at \notin {"none", "waiting"}}

\* The page has an access token just while it counts as signed in (authSlice.ts).
TypeOK ==
    LET States == {"none", "sent", "waiting", "again", "passed", "refused"}
        Calls == [at : States, from : 0..MaxTokens, to : 0..MaxTokens,
                  for : {"none", "boot", "retry", "login", "change"}]
    IN  /\ screen \in [at : {"closed", "entry", "home"}, ready : BOOLEAN,
                       status : {"unknown", "anonymous", "authenticated"},
                       token : {"none", "good", "old"}, user : BOOLEAN, gate : BOOLEAN]
        /\ screen.token = "none" <=> screen.status # "authenticated"
        /\ calls.refresh \in Calls /\ calls.me \in Calls
        /\ calls.sign \in Calls /\ calls.out \in Calls
        /\ calls.ask \in [Asks -> {"idle", "sent", "refused", "waiting", "again"}]
        /\ rows \in [last : 1..MaxTokens, live : 0..MaxTokens, jar : 0..MaxTokens,
                     must : BOOLEAN, tripped : BOOLEAN]
        /\ past \in [lost : BOOLEAN, raced : BOOLEAN, left : BOOLEAN, unread : BOOLEAN]

\* Starting a call that presents the cookie, beside others that do.
Start(scr, c, k, for) ==
    /\ screen' = scr
    /\ calls' = [c EXCEPT ![k] = [at |-> "sent", from |-> rows.jar, to |-> 0, for |-> for]]
    /\ past' = [past EXCEPT !.raced = @ \/ TokenCalls(c) # {},
                            !.left = IF k = "sign" THEN FALSE ELSE @]
    /\ UNCHANGED rows

-----------------------------------------------------------------------------
(* Loading the page                                                        *)

\* Nothing is rendered before the session is restored or given up (Providers).
Load(at) ==
    /\ screen.at = "closed"
    /\ Start([Blank EXCEPT !.at = at], calls, "refresh", "boot")

\* Closing or reloading drops every answer on its way.
Close ==
    /\ screen.at # "closed"
    /\ screen' = Blank /\ calls' = Silent
    /\ past' = [past EXCEPT !.lost = @ \/ TokenCalls(calls) # {}, !.left = FALSE, !.unread = FALSE]
    /\ UNCHANGED rows

-----------------------------------------------------------------------------
(* Renewing                                                                *)

\* What ends a refresh ends it for every request that waits for it: with a token
\* it is sent once more, without one it has been refused.
RenewalEnds(scr, c) ==
    LET awaited(over) == IF scr.status = "authenticated" THEN "again" ELSE over
    IN  /\ screen' = scr
        /\ calls' = [c EXCEPT !.refresh = Fetch,
                              !.sign.at = IF @ = "waiting" THEN awaited("refused") ELSE @,
                              !.ask = [r \in Asks |-> IF @[r] = "waiting" THEN awaited("idle") ELSE @[r]]]

AnswerRefresh ==
    LET from == calls.refresh.from
    IN  /\ calls.refresh.at = "sent"
        /\ \/ /\ from > 0 /\ from = rows.live /\ rows.last < MaxTokens
              /\ rows' = [rows EXCEPT !.last = @ + 1, !.live = rows.last + 1]
              /\ calls' = [calls EXCEPT !.refresh.at = "passed", !.refresh.to = rows.last + 1]
           \/ /\ from > 0 /\ from # rows.live
              /\ rows' = [rows EXCEPT !.live = 0, !.tripped = TRUE]
              /\ calls' = [calls EXCEPT !.refresh.at = "refused"]
           \/ /\ from = 0
              /\ calls' = [calls EXCEPT !.refresh.at = "refused"] /\ UNCHANGED rows
        /\ UNCHANGED <<screen, past>>

\* An access token in hand, a page that is loading asks who it belongs to.
Renewed ==
    /\ calls.refresh.at = "passed"
    /\ rows' = [rows EXCEPT !.jar = calls.refresh.to]
    /\ RenewalEnds(WithToken(screen),
                   IF calls.refresh.for = "boot"
                   THEN [calls EXCEPT !.me = [Fetch EXCEPT !.at = "sent", !.for = "boot"]]
                   ELSE calls)
    /\ past' = [past EXCEPT !.unread = @ \/ (calls.refresh.for = "retry" /\ ~screen.user)]

\* Refused, failed or lost alike: clearAuth, or setAnonymous while loading.
NotRenewed ==
    /\ calls.refresh.at \in {"sent", "passed", "refused"}
    /\ past' = [past EXCEPT !.lost = @ \/ calls.refresh.at # "refused"]
    /\ RenewalEnds(IF calls.refresh.for = "boot" THEN [Anonymous(screen) EXCEPT !.ready = TRUE]
                   ELSE Anonymous(screen), calls)
    /\ UNCHANGED rows

\* Who am I: what restores and sign-ins end with, the way home or an error.
MeAnswered ==
    /\ calls.me.at = "sent"
    /\ calls' = [calls EXCEPT !.me = Fetch]
    /\ screen' = [screen EXCEPT !.user = TRUE, !.gate = rows.must, !.ready = TRUE,
                                !.at = IF calls.me.for = "login" THEN "home" ELSE @]
    /\ past' = [past EXCEPT !.unread = FALSE]
    /\ UNCHANGED rows

MeFailed ==
    /\ calls.me.at = "sent"
    /\ calls' = [calls EXCEPT !.me = Fetch]
    /\ IF calls.me.for = "boot"
       THEN screen' = [Anonymous(screen) EXCEPT !.ready = TRUE] /\ UNCHANGED past
       ELSE past' = [past EXCEPT !.unread = TRUE] /\ UNCHANGED screen
    /\ UNCHANGED rows

-----------------------------------------------------------------------------
(* Signing in, changing the password, signing out                          *)

\* The form is on the entry page while nobody is signed in.
SignIn ==
    /\ screen.at = "entry" /\ screen.ready /\ screen.status = "anonymous"
    /\ calls.sign.at = "none"
    /\ Start(screen, calls, "sign", "login")

\* The screens are rendered for whoever is signed in; the gate covers them until
\* the account has a password of its own.
Within == screen.at = "home" /\ screen.status = "authenticated" /\ screen.user
Gated == Within /\ screen.gate

ChangePassword ==
    /\ Gated
    /\ calls.sign.at = "none"
    /\ Start(screen, calls, "sign", "change")

\* A wrong password, or an access token too old to change it with, is a 401 as any:
\* the call waits for a refresh, and is sent once more.  A login may so renew the
\* session that a cookie in the jar still has.
AnswerSign ==
    /\ calls.sign.at \in {"sent", "again"}
    /\ \/ /\ calls.sign.for = "login" \/ screen.token = "good"
          /\ rows.last < MaxTokens
          /\ rows' = [rows EXCEPT !.last = @ + 1, !.live = rows.last + 1,
                                  !.must = @ /\ calls.sign.for = "login"]
          /\ calls' = [calls EXCEPT !.sign.at = "passed", !.sign.to = rows.last + 1]
          /\ UNCHANGED <<screen, past>>
       \/ /\ calls' = [calls EXCEPT !.sign.at = "refused"] /\ UNCHANGED <<screen, rows, past>>
       \/ /\ calls.sign.at = "sent"
          /\ calls.sign.for = "login" \/ screen.token = "old"
          /\ IF calls.refresh.at = "none"
             THEN Start(screen, [calls EXCEPT !.sign.at = "waiting"], "refresh", "retry")
             ELSE calls' = [calls EXCEPT !.sign.at = "waiting"] /\ UNCHANGED <<screen, rows, past>>

Signed ==
    /\ calls.sign.at = "passed"
    /\ screen' = WithToken(screen)
    /\ rows' = [rows EXCEPT !.jar = calls.sign.to]
    /\ calls' = [calls EXCEPT !.sign = Fetch,
                              !.me = [Fetch EXCEPT !.at = "sent", !.for = calls.sign.for]]
    /\ UNCHANGED past

NotSigned ==
    /\ calls.sign.at \in {"sent", "again", "passed", "refused"}
    /\ calls' = [calls EXCEPT !.sign = Fetch]
    /\ past' = [past EXCEPT !.lost = @ \/ calls.sign.at # "refused"]
    /\ UNCHANGED <<screen, rows>>

SignOut ==
    /\ screen.at = "home" /\ screen.user /\ calls.out.at = "none"
    /\ Start(screen, calls, "out", "none")

AnswerOut ==
    /\ calls.out.at = "sent"
    /\ rows' = [rows EXCEPT !.live = IF calls.out.from = @ THEN 0 ELSE @]
    /\ calls' = [calls EXCEPT !.out.at = "passed"]
    /\ UNCHANGED <<screen, past>>

\* Best effort: the page forgets the account whatever became of the request.
SignedOut ==
    /\ calls.out.at # "none"
    /\ \E heard \in {calls.out.at = "passed", FALSE} :
          /\ rows' = [rows EXCEPT !.jar = IF heard THEN 0 ELSE @]
          /\ past' = [past EXCEPT !.left = TRUE, !.lost = @ \/ ~heard]
    /\ screen' = [Anonymous(screen) EXCEPT !.at = "entry"]
    /\ calls' = [calls EXCEPT !.out = Fetch]

-----------------------------------------------------------------------------
(* Requests of the screens, and routing                                    *)

Ask(r) ==
    /\ Within /\ calls.ask[r] = "idle"
    /\ calls' = [calls EXCEPT !.ask[r] = "sent"]
    /\ UNCHANGED <<screen, rows, past>>

AnswerAsk(r) ==
    /\ \/ /\ calls.ask[r] \in {"sent", "again"}
          /\ calls' = [calls EXCEPT !.ask[r] = "idle"]
       \/ /\ calls.ask[r] = "sent" /\ screen.token # "good"
          /\ calls' = [calls EXCEPT !.ask[r] = "refused"]
    /\ UNCHANGED <<screen, rows, past>>

\* refreshOnce: the first refused request renews, the others wait for it.
Renew(r) ==
    /\ calls.ask[r] = "refused"
    /\ IF calls.refresh.at = "none"
       THEN Start(screen, [calls EXCEPT !.ask[r] = "waiting"], "refresh", "retry")
       ELSE calls' = [calls EXCEPT !.ask[r] = "waiting"] /\ UNCHANGED <<screen, rows, past>>

AgeToken ==
    /\ screen.token = "good" /\ screen' = [screen EXCEPT !.token = "old"]
    /\ UNCHANGED <<calls, rows, past>>

\* The entry page sends whoever is signed in home.
RouteHome ==
    /\ screen.at = "entry" /\ screen.status = "authenticated" /\ screen.user
    /\ screen' = [screen EXCEPT !.at = "home"]
    /\ UNCHANGED <<calls, rows, past>>

\* The guard sends whoever is not to the entry page.
RouteOut ==
    /\ screen.at = "home" /\ screen.ready /\ screen.status = "anonymous"
    /\ screen' = [screen EXCEPT !.at = "entry"]
    /\ UNCHANGED <<calls, rows, past>>

Next ==
    \/ \E at \in {"entry", "home"} : Load(at)
    \/ Close \/ AnswerRefresh \/ Renewed \/ NotRenewed \/ MeAnswered \/ MeFailed
    \/ SignIn \/ ChangePassword \/ AnswerSign \/ Signed \/ NotSigned
    \/ SignOut \/ AnswerOut \/ SignedOut \/ AgeToken \/ RouteHome \/ RouteOut
    \/ \E r \in Asks : Ask(r) \/ AnswerAsk(r) \/ Renew(r)

\* Requests end, effects run, and what is refused is dealt with.
Progress ==
    \/ AnswerRefresh \/ Renewed \/ NotRenewed \/ MeAnswered \/ MeFailed
    \/ RouteHome \/ RouteOut
    \/ \E r \in Asks : Renew(r)

-----------------------------------------------------------------------------
(* Properties                                                              *)

\* Requests that are refused together share one refresh, so the API takes no
\* token for a stolen one; except when an answer that set the cookie was lost, or
\* the page presented it twice by signing in or out meanwhile (refreshInFlight).
NoFalseReuse == rows.tripped => past.lost \/ past.raced

\* Who has signed out stays signed out until the form is used again, unless the
\* API never heard of it or a refresh was on its way (useLogout).
SignedOutStaysOut ==
    (past.left /\ screen.status = "authenticated") => past.lost \/ past.raced

\* The entry page shows the form, or has sent whoever is signed in home; or nobody
\* has read who that is: /me failed after a sign-in, or a refresh came in after the
\* sign-out or for a login that was refused (HomePage, baseQueryWithReauth).
Settled ==
    \/ screen.at # "entry"
    \/ screen.ready /\ screen.status = "anonymous"
    \/ past.unread

\* A request, or a sign-in, waits for a refresh (refreshOnce).
Waits(r) == calls.ask[r] = "waiting"
SignWaits == calls.sign.at = "waiting"

=============================================================================
