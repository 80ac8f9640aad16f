----------------------------- MODULE WebAppProofs -----------------------------
(***************************************************************************)
(* WebApp, for any number of requests, calls and changes: each kind of     *)
(* screen has an inductive invariant, and all that the runs check of the   *)
(* screens follows from them.  What the tables of endpoints, forms, grids  *)
(* and lists have to say for it to hold is proved entry by entry.          *)
(***************************************************************************)
EXTENDS WebApp, TLAPS

-----------------------------------------------------------------------------
(* The session of a page                                                   *)

Tokens == 0..MaxTokens
Fetches == [at : {"none", "sent", "waiting", "again", "passed", "refused"}, from : Tokens, to : Tokens,
            for : {"none", "boot", "retry", "login", "change"}]
Screens == [at : {"closed", "entry", "home"}, ready : BOOLEAN,
            status : {"unknown", "anonymous", "authenticated"},
            token : {"none", "good", "old"}, user : BOOLEAN, gate : BOOLEAN]
CallRows == [refresh : Fetches, me : Fetches, sign : Fetches, out : Fetches,
             ask : [Asks -> {"idle", "sent", "refused", "waiting", "again"}]]
TokenRows == [last : 1..MaxTokens, live : Tokens, jar : Tokens, must : BOOLEAN, tripped : BOOLEAN]
Histories == [lost : BOOLEAN, raced : BOOLEAN, left : BOOLEAN, unread : BOOLEAN]

Shape ==
    /\ screen \in Screens /\ calls \in CallRows /\ rows \in TokenRows /\ past \in Histories
    /\ screen.token = "none" <=> screen.status # "authenticated"

\* Of renewing, signing in and signing out at most one is under way, besides a call
\* that was refused and waits for the renewal; it presents the token in the jar, which
\* is the one the API takes unless the answer that says otherwise is on its way.  Who
\* has left has no token.
InTurn ==
    /\ calls.refresh.at = "none" \/ calls.sign.at \in {"none", "waiting"}
    /\ calls.refresh.at = "none" \/ calls.out.at = "none"
    /\ calls.sign.at = "none" \/ calls.out.at = "none"
    /\ calls.sign.at = "waiting" => calls.refresh.at # "none"
    /\ calls.refresh.at # "waiting" /\ calls.out.at # "waiting"
Presented ==
    /\ calls.refresh.at = "sent" => calls.refresh.from = rows.jar
    /\ calls.out.at = "sent" => calls.out.from = rows.jar
Known ==
    /\ calls.refresh.at = "passed" => calls.refresh.to = rows.live
    /\ calls.sign.at = "passed" => calls.sign.to = rows.live
    /\ calls.out.at = "passed" => rows.live = 0
    /\ (calls.refresh.at # "passed" /\ calls.sign.at # "passed" /\ calls.out.at # "passed") =>
           rows.jar = rows.live
LeftAlone ==
    past.left => /\ screen.status # "authenticated" /\ rows.jar = 0
                 /\ calls.sign.at = "none" /\ calls.refresh.at # "passed"

SessionInv ==
    /\ Shape
    /\ ~past.lost /\ ~past.raced => ~rows.tripped /\ InTurn /\ Presented /\ Known /\ LeftAlone

LEMMA NobodyCalls ==
    ASSUME NEW c, c.refresh.at = c["refresh"].at, Session!TokenCalls(c) = {}
    PROVE  /\ c.refresh.at \in {"none", "waiting"} /\ c.sign.at \in {"none", "waiting"}
           /\ c.out.at \in {"none", "waiting"}
BY DEF Session!TokenCalls

LEMMA FetchFacts ==
    /\ Session!Fetch \in Fetches /\ Session!Fetch.at = "none"
    /\ \A for \in {"none", "boot", "retry", "login", "change"} :
           [Session!Fetch EXCEPT !.at = "sent", !.for = for] \in Fetches
<1>1. 0 \in Tokens
    BY TokensAssumption DEF Tokens
<1>2. Session!Fetch \in Fetches /\ Session!Fetch.at = "none"
    BY <1>1 DEF Session!Fetch, Fetches
<1> QED BY <1>2 DEF Fetches

LEMMA SessionStarts == Session!Init => SessionInv
BY TokensAssumption
   DEF Session!Init, Session!Blank, Session!Silent, Session!Fetch, SessionInv, Shape, InTurn, Presented, Known, LeftAlone,
       Tokens, Fetches, Screens, CallRows, TokenRows, Histories

\* A call that presents the cookie beside nothing else that does is in turn.
LEMMA StartStep ==
    ASSUME SessionInv, NEW scr \in Screens, scr.token = "none" <=> scr.status # "authenticated",
           NEW c \in CallRows, NEW k \in {"refresh", "sign", "out"},
           NEW for \in {"none", "boot", "retry", "login", "change"},
           Session!Start(scr, c, k, for),
           c.refresh = calls.refresh, c.out = calls.out,
           c.sign = calls.sign \/ (k = "refresh" /\ calls.sign.at \in {"sent"} /\ c.sign.at = "waiting"),
           past.lost \/ past.raced \/ k = "sign" \/ ~past.left \/ scr.status # "authenticated"
    PROVE  SessionInv'
<1> DEFINE call == [at |-> "sent", from |-> rows.jar, to |-> 0, for |-> for]
<1>1. call \in Fetches /\ call.at = "sent" /\ call.from = rows.jar
    BY TokensAssumption DEF SessionInv, Shape, TokenRows, Fetches, Tokens
<1>2. /\ screen' = scr /\ rows' = rows /\ calls' = [c EXCEPT ![k] = call]
      /\ past' = [past EXCEPT !.raced = @ \/ Session!TokenCalls(c) # {},
                              !.left = IF k = "sign" THEN FALSE ELSE @]
    BY DEF Session!Start
<1> HIDE DEF call
<1>3. /\ calls' \in CallRows
      /\ k = "refresh" => calls'.refresh = call /\ calls'.sign = c.sign /\ calls'.out = c.out
      /\ k = "sign" => calls'.refresh = c.refresh /\ calls'.sign = call /\ calls'.out = c.out
      /\ k = "out" => calls'.refresh = c.refresh /\ calls'.sign = c.sign /\ calls'.out = call
    BY <1>1, <1>2 DEF CallRows
<1>4. past' \in Histories /\ past'.lost = past.lost /\ (past'.raced <=> past.raced \/ Session!TokenCalls(c) # {})
      /\ (past'.left <=> k # "sign" /\ past.left)
    BY <1>2 DEF SessionInv, Shape, Histories
<1>5. Shape'
    BY <1>2, <1>3, <1>4 DEF SessionInv, Shape
<1>6. ASSUME ~past'.lost, ~past'.raced
      PROVE  ~rows'.tripped /\ InTurn' /\ Presented' /\ Known' /\ LeftAlone'
    <2>1. /\ ~past.lost /\ ~past.raced
          /\ c.refresh.at \in {"none", "waiting"} /\ c.sign.at \in {"none", "waiting"} /\ c.out.at \in {"none", "waiting"}
        BY <1>4, <1>6, NobodyCalls
    <2>2. ~rows.tripped /\ InTurn /\ Known /\ LeftAlone
        BY <2>1 DEF SessionInv
    <2>3. calls.refresh.at = "none" /\ calls.out.at = "none"
        BY <2>1, <2>2 DEF InTurn
    <2>4. \/ c.sign = calls.sign /\ calls.sign.at = "none"
          \/ k = "refresh" /\ calls.sign.at = "sent" /\ c.sign.at = "waiting" /\ ~past.left
        BY <2>1, <2>2, <2>3 DEF InTurn, LeftAlone
    <2>5. rows.jar = rows.live
        BY <2>2, <2>3, <2>4 DEF Known
    <2>6. InTurn'
        BY <1>1, <1>3, <2>1, <2>3, <2>4 DEF InTurn
    <2>7. Presented' /\ Known'
        BY <1>1, <1>2, <1>3, <2>3, <2>4, <2>5 DEF Presented, Known
    <2>8. LeftAlone'
        BY <1>1, <1>2, <1>3, <1>4, <2>1, <2>2, <2>3, <2>4 DEF LeftAlone
    <2> QED BY <1>2, <2>2, <2>6, <2>7, <2>8
<1> QED BY <1>5, <1>6 DEF SessionInv

\* When a refresh ends, a page that is signed in has what the API takes.
LEMMA RenewalStep ==
    ASSUME SessionInv, NEW scr \in Screens, scr.token = "none" <=> scr.status # "authenticated",
           NEW c \in CallRows, c.sign = calls.sign, c.out = calls.out, calls.refresh.at # "none",
           rows' \in TokenRows, past' \in Histories,
           Session!RenewalEnds(scr, c),
           ~past'.raced => ~past.raced, ~past'.lost => ~past.lost, past'.left = past.left,
           rows'.tripped = rows.tripped, rows'.live = rows.live,
           (~past'.lost /\ ~past'.raced) => /\ rows'.jar = rows'.live
                                            /\ past.left => scr.status # "authenticated" /\ rows'.jar = 0
    PROVE  SessionInv'
<1> DEFINE awaited(over) == IF scr.status = "authenticated" THEN "again" ELSE over
           sign == IF calls.sign.at = "waiting" THEN awaited("refused") ELSE calls.sign.at
           asks == [r \in Asks |-> IF c.ask[r] = "waiting" THEN awaited("idle") ELSE c.ask[r]]
<1>1. /\ screen' = scr
      /\ calls' = [c EXCEPT !.refresh = Session!Fetch, !.sign.at = sign, !.ask = asks]
    BY DEF Session!RenewalEnds
<1>2. Session!Fetch \in Fetches /\ Session!Fetch.at = "none"
    BY FetchFacts
<1>3. /\ sign \in {"none", "sent", "waiting", "again", "passed", "refused"}
      /\ asks \in [Asks -> {"idle", "sent", "refused", "waiting", "again"}]
    BY DEF SessionInv, Shape, CallRows, Fetches
<1>3a. /\ calls.sign.at = "none" => sign = "none"
       /\ calls.sign.at = "waiting" => sign \in {"again", "refused"}
    OBVIOUS
<1> HIDE DEF sign, asks, awaited
<1>4. /\ calls' \in CallRows /\ calls'.refresh = Session!Fetch /\ calls'.out = calls.out
      /\ calls'.sign.at = sign
    BY <1>1, <1>2, <1>3 DEF CallRows, Fetches
<1>5. Shape'
    BY <1>1, <1>4 DEF Shape
<1>6. ASSUME ~past'.lost, ~past'.raced
      PROVE  ~rows'.tripped /\ InTurn' /\ Presented' /\ Known' /\ LeftAlone'
    <2>1. ~rows.tripped /\ calls.sign.at \in {"none", "waiting"} /\ calls.out.at = "none" /\ LeftAlone
        BY <1>6 DEF SessionInv, InTurn
    <2>2. calls'.sign.at \in {"none", "again", "refused"}
        BY <1>3a, <1>4, <2>1
    <2>3. calls'.refresh.at = "none" /\ calls'.out.at = "none"
        BY <1>2, <1>4, <2>1
    <2>4. InTurn' /\ Presented' /\ Known'
        BY <1>6, <2>2, <2>3 DEF InTurn, Presented, Known
    <2>5. LeftAlone'
        BY <1>1, <1>3a, <1>4, <1>6, <2>1, <2>3 DEF LeftAlone
    <2> QED BY <2>1, <2>4, <2>5
<1> QED BY <1>5, <1>6 DEF SessionInv

\* What no token depends on may change: who is shown, who asks, what else is under way.
LEMMA BesideStep ==
    ASSUME SessionInv, screen' \in Screens, screen'.token = "none" <=> screen'.status # "authenticated",
           calls' \in CallRows, past' \in Histories, UNCHANGED rows,
           calls'.refresh = calls.refresh, calls'.sign = calls.sign, calls'.out = calls.out,
           ~past'.raced => ~past.raced, ~past'.lost => ~past.lost, past'.left = past.left,
           screen'.status = "authenticated" => screen.status = "authenticated"
    PROVE  SessionInv'
<1>1. Shape'
    BY DEF SessionInv, Shape
<1>2. ASSUME ~past'.lost, ~past'.raced
      PROVE  ~rows'.tripped /\ InTurn' /\ Presented' /\ Known' /\ LeftAlone'
    BY <1>2 DEF SessionInv, InTurn, Presented, Known, LeftAlone
<1> QED BY <1>1, <1>2 DEF SessionInv

LEMMA SessionStep == ASSUME SessionInv, Session!Next PROVE SessionInv'
<1> USE DEF SessionInv
<1>0. past.lost \/ past.raced \/ ~past.left \/ screen.status # "authenticated"
    BY DEF LeftAlone, Shape, Histories
<1>1. ASSUME NEW at \in {"entry", "home"}, Session!Load(at) PROVE SessionInv'
    <2> DEFINE scr == [Session!Blank EXCEPT !.at = at]
    <2>1. scr \in Screens /\ scr.token = "none" /\ scr.status = "unknown"
        BY DEF Session!Blank, Screens
    <2>2. Session!Start(scr, calls, "refresh", "boot")
        BY <1>1 DEF Session!Load
    <2> HIDE DEF scr
    <2> QED BY <2>1, <2>2, StartStep DEF Shape
<1>2. ASSUME Session!Close PROVE SessionInv'
    <2>1. screen' = Session!Blank /\ calls' = Session!Silent /\ UNCHANGED rows
          /\ past' = [past EXCEPT !.lost = @ \/ Session!TokenCalls(calls) # {}, !.left = FALSE, !.unread = FALSE]
        BY <1>2 DEF Session!Close
    <2>2. Shape'
        <3>1. screen' \in Screens /\ screen'.token = "none" /\ screen'.status = "unknown"
            BY <2>1 DEF Session!Blank, Screens
        <3>2. calls' \in CallRows
            BY <2>1, FetchFacts DEF Session!Silent, CallRows
        <3>3. past' \in Histories
            BY <2>1 DEF Shape, Histories
        <3> QED BY <2>1, <3>1, <3>2, <3>3 DEF Shape
    <2>3. ~past'.left /\ (~past'.lost => ~past.lost /\ Session!TokenCalls(calls) = {}) /\ past'.raced = past.raced
        BY <2>1 DEF Shape, Histories
    <2>4. ASSUME ~past'.lost, ~past'.raced
          PROVE  ~rows'.tripped /\ InTurn' /\ Presented' /\ Known' /\ LeftAlone'
        <3>1. Known /\ InTurn /\ ~rows.tripped
            BY <2>3, <2>4
        <3>2. calls.refresh.at \in {"none", "waiting"} /\ calls.sign.at \in {"none", "waiting"}
              /\ calls.out.at \in {"none", "waiting"}
            BY <2>3, <2>4, NobodyCalls
        <3>3. calls.refresh.at = "none" /\ calls.sign.at = "none" /\ calls.out.at = "none"
            BY <3>1, <3>2 DEF InTurn
        <3> QED BY <2>1, <2>3, <3>1, <3>3 DEF Session!Silent, Session!Fetch, InTurn, Presented, Known, LeftAlone
    <2> QED BY <2>2, <2>4
<1>3. ASSUME Session!AnswerRefresh PROVE SessionInv'
    <2> DEFINE from == calls.refresh.from
    <2>1. calls.refresh.at = "sent" /\ UNCHANGED <<screen, past>>
        BY <1>3 DEF Session!AnswerRefresh
    <2>2. CASE /\ from > 0 /\ from = rows.live /\ rows.last < MaxTokens
               /\ rows' = [rows EXCEPT !.last = @ + 1, !.live = rows.last + 1]
               /\ calls' = [calls EXCEPT !.refresh.at = "passed", !.refresh.to = rows.last + 1]
        <3>1. rows.last + 1 \in 1..MaxTokens /\ rows.last + 1 \in Tokens
            BY <2>2, TokensAssumption DEF Shape, TokenRows, Tokens
        <3>2. /\ rows' \in TokenRows /\ rows'.live = rows.last + 1 /\ rows'.jar = rows.jar
              /\ rows'.tripped = rows.tripped
            BY <2>2, <3>1 DEF Shape, TokenRows
        <3>3. /\ calls' \in CallRows /\ calls'.refresh.at = "passed" /\ calls'.refresh.to = rows.last + 1
              /\ calls'.sign = calls.sign /\ calls'.out = calls.out
            BY <2>2, <3>1 DEF Shape, CallRows, Fetches
        <3>4. Shape'
            BY <2>1, <3>2, <3>3 DEF Shape
        <3>5. ASSUME ~past.lost, ~past.raced
              PROVE  ~rows'.tripped /\ InTurn' /\ Presented' /\ Known' /\ LeftAlone'
            <4>1. ~past.left
                BY <2>1, <2>2, <3>5 DEF LeftAlone, Presented
            <4> QED BY <2>1, <3>2, <3>3, <3>5, <4>1 DEF InTurn, Presented, Known, LeftAlone
        <3> QED BY <2>1, <3>4, <3>5
    <2>3. CASE /\ from > 0 /\ from # rows.live
               /\ rows' = [rows EXCEPT !.live = 0, !.tripped = TRUE]
               /\ calls' = [calls EXCEPT !.refresh.at = "refused"]
        <3>1. Shape'
            <4>1. rows' \in TokenRows
                <5>1. 0 \in Tokens
                    BY TokensAssumption DEF Tokens
                <5> QED BY <2>3, <5>1 DEF Shape, TokenRows
            <4>2. calls' \in CallRows
                BY <2>3 DEF Shape, CallRows, Fetches
            <4> QED BY <2>1, <4>1, <4>2 DEF Shape
        <3>2. past.lost \/ past.raced
            BY <2>1, <2>3 DEF InTurn, Presented, Known
        <3> QED BY <2>1, <3>1, <3>2
    <2>4. CASE from = 0 /\ calls' = [calls EXCEPT !.refresh.at = "refused"] /\ UNCHANGED rows
        <3>1. /\ calls' \in CallRows /\ calls'.refresh.at = "refused"
              /\ calls'.sign = calls.sign /\ calls'.out = calls.out
            BY <2>4 DEF Shape, CallRows, Fetches
        <3> QED BY <2>1, <2>4, <3>1 DEF Shape, InTurn, Presented, Known, LeftAlone
    <2> QED BY <1>3, <2>2, <2>3, <2>4 DEF Session!AnswerRefresh
<1>4. ASSUME Session!Renewed PROVE SessionInv'
    <2> DEFINE scr == Session!WithToken(screen)
               c == IF calls.refresh.for = "boot"
                    THEN [calls EXCEPT !.me = [Session!Fetch EXCEPT !.at = "sent", !.for = "boot"]] ELSE calls
    <2>1. /\ calls.refresh.at = "passed" /\ rows' = [rows EXCEPT !.jar = calls.refresh.to]
          /\ Session!RenewalEnds(scr, c)
          /\ past' = [past EXCEPT !.unread = @ \/ (calls.refresh.for = "retry" /\ ~screen.user)]
        BY <1>4 DEF Session!Renewed
    <2>2. scr \in Screens /\ scr.token = "good" /\ scr.status = "authenticated"
        BY DEF Session!WithToken, Shape, Screens
    <2>3. c \in CallRows /\ c.sign = calls.sign /\ c.out = calls.out
        BY FetchFacts DEF Shape, CallRows
    <2>4. /\ rows' \in TokenRows /\ rows'.jar = calls.refresh.to /\ rows'.live = rows.live
          /\ rows'.tripped = rows.tripped
        BY <2>1 DEF Shape, TokenRows, CallRows, Fetches
    <2>5. past' \in Histories /\ past'.lost = past.lost /\ past'.raced = past.raced /\ past'.left = past.left
        BY <2>1 DEF Shape, Histories
    <2>6. (~past.lost /\ ~past.raced) => calls.refresh.to = rows.live /\ ~past.left
        BY <2>1 DEF Known, LeftAlone
    <2> HIDE DEF scr, c
    <2> QED BY <2>1, <2>2, <2>3, <2>4, <2>5, <2>6, RenewalStep
<1>5. ASSUME Session!NotRenewed PROVE SessionInv'
    <2> DEFINE scr == IF calls.refresh.for = "boot" THEN [Session!Anonymous(screen) EXCEPT !.ready = TRUE]
                      ELSE Session!Anonymous(screen)
    <2>1. /\ calls.refresh.at \in {"sent", "passed", "refused"} /\ UNCHANGED rows
          /\ past' = [past EXCEPT !.lost = @ \/ calls.refresh.at # "refused"]
          /\ Session!RenewalEnds(scr, calls)
        BY <1>5 DEF Session!NotRenewed
    <2>2. scr \in Screens /\ scr.token = "none" /\ scr.status = "anonymous"
        BY DEF Session!Anonymous, Shape, Screens
    <2>3. /\ past' \in Histories /\ past'.raced = past.raced /\ past'.left = past.left
          /\ ~past'.lost => ~past.lost /\ calls.refresh.at = "refused"
        BY <2>1 DEF Shape, Histories
    <2>4. (~past'.lost /\ ~past'.raced) => rows.jar = rows.live /\ (past.left => rows.jar = 0)
        BY <2>3 DEF Known, InTurn, LeftAlone
    <2> HIDE DEF scr
    <2> QED BY <2>1, <2>2, <2>3, <2>4, RenewalStep DEF Shape
<1>6. ASSUME Session!MeAnswered \/ Session!MeFailed PROVE SessionInv'
    <2>1. /\ UNCHANGED rows /\ calls' = [calls EXCEPT !.me = Session!Fetch]
          /\ \E unread \in BOOLEAN : past' = [past EXCEPT !.unread = unread]
        <3>1. past = [past EXCEPT !.unread = past.unread] /\ past.unread \in BOOLEAN
            BY DEF Shape, Histories
        <3> QED BY <1>6, <3>1 DEF Session!MeAnswered, Session!MeFailed
    <2>2. /\ screen' \in Screens /\ (screen'.token = "none" <=> screen'.status # "authenticated")
          /\ screen'.status = "authenticated" => screen.status = "authenticated"
        <3>1. CASE Session!MeAnswered
            <4>1. PICK must \in BOOLEAN, at \in {"closed", "entry", "home"} :
                      screen' = [screen EXCEPT !.user = TRUE, !.gate = must, !.ready = TRUE, !.at = at]
                BY <3>1 DEF Session!MeAnswered, Shape, TokenRows, Screens
            <4> QED BY <4>1 DEF Shape, Screens
        <3>2. CASE Session!MeFailed
            BY <3>2 DEF Session!MeFailed, Session!Anonymous, Shape, Screens
        <3> QED BY <1>6, <3>1, <3>2
    <2>3. calls' \in CallRows /\ calls'.refresh = calls.refresh /\ calls'.sign = calls.sign /\ calls'.out = calls.out
        BY <2>1, FetchFacts DEF Shape, CallRows
    <2>4. past' \in Histories /\ past'.lost = past.lost /\ past'.raced = past.raced /\ past'.left = past.left
        BY <2>1 DEF Shape, Histories
    <2> QED BY <2>1, <2>2, <2>3, <2>4, BesideStep
<1>7. ASSUME Session!SignIn \/ Session!ChangePassword PROVE SessionInv'
    <2>1. \E for \in {"login", "change"} : Session!Start(screen, calls, "sign", for)
        BY <1>7 DEF Session!SignIn, Session!ChangePassword
    <2> QED BY <2>1, StartStep DEF Shape
<1>8. ASSUME Session!SignOut PROVE SessionInv'
    <2>1. Session!Start(screen, calls, "out", "none")
        BY <1>8 DEF Session!SignOut
    <2> QED BY <2>1, StartStep, <1>0 DEF Shape
<1>9. ASSUME Session!AnswerSign PROVE SessionInv'
    <2> DEFINE waiting == [calls EXCEPT !.sign.at = "waiting"]
    <2>1. calls.sign.at \in {"sent", "again"}
        BY <1>9 DEF Session!AnswerSign
    <2>2. waiting \in CallRows /\ waiting.refresh = calls.refresh /\ waiting.out = calls.out /\ waiting.sign.at = "waiting"
        BY DEF Shape, CallRows, Fetches
    <2>3. CASE /\ rows.last < MaxTokens /\ UNCHANGED <<screen, past>>
               /\ rows' = [rows EXCEPT !.last = @ + 1, !.live = rows.last + 1,
                                       !.must = @ /\ calls.sign.for = "login"]
               /\ calls' = [calls EXCEPT !.sign.at = "passed", !.sign.to = rows.last + 1]
        <3>1. rows.last + 1 \in 1..MaxTokens /\ rows.last + 1 \in Tokens
            BY <2>3, TokensAssumption DEF Shape, TokenRows, Tokens
        <3> DEFINE must == rows.must /\ calls.sign.for = "login"
        <3>2. must \in BOOLEAN /\ rows' = [rows EXCEPT !.last = rows.last + 1, !.live = rows.last + 1, !.must = must]
            BY <2>3 DEF Shape, TokenRows
        <3> HIDE DEF must
        <3>3. /\ rows' \in TokenRows /\ rows'.live = rows.last + 1 /\ rows'.jar = rows.jar
              /\ rows'.tripped = rows.tripped
            BY <3>1, <3>2 DEF Shape, TokenRows
        <3>4. /\ calls' \in CallRows /\ calls'.sign.at = "passed" /\ calls'.sign.to = rows.last + 1
              /\ calls'.refresh = calls.refresh /\ calls'.out = calls.out
            BY <2>3, <3>1 DEF Shape, CallRows, Fetches
        <3>5. Shape'
            BY <2>3, <3>3, <3>4 DEF Shape
        <3>6. ASSUME ~past.lost, ~past.raced
              PROVE  ~rows'.tripped /\ InTurn' /\ Presented' /\ Known' /\ LeftAlone'
            BY <2>1, <2>3, <3>3, <3>4, <3>6 DEF InTurn, Presented, Known, LeftAlone
        <3> QED BY <2>3, <3>5, <3>6
    <2>4. CASE calls' = [calls EXCEPT !.sign.at = "refused"] /\ UNCHANGED <<screen, rows, past>>
        <3>1. /\ calls' \in CallRows /\ calls'.sign.at = "refused"
              /\ calls'.refresh = calls.refresh /\ calls'.out = calls.out
            BY <2>4 DEF Shape, CallRows, Fetches
        <3> QED BY <2>1, <2>4, <3>1 DEF Shape, InTurn, Presented, Known, LeftAlone
    <2>5. CASE calls.sign.at = "sent" /\ Session!Start(screen, waiting, "refresh", "retry")
        <3> HIDE DEF waiting
        <3> QED BY <2>2, <2>5, <1>0, StartStep DEF Shape
    <2>6. CASE calls.refresh.at # "none" /\ calls' = waiting /\ UNCHANGED <<screen, rows, past>>
        <3>1. past.lost \/ past.raced
            BY <2>1, <2>6 DEF InTurn
        <3> QED BY <2>2, <2>6, <3>1 DEF Shape
    <2> QED BY <1>9, <2>3, <2>4, <2>5, <2>6 DEF Session!AnswerSign
<1>10. ASSUME Session!Signed PROVE SessionInv'
    <2> DEFINE me == [Session!Fetch EXCEPT !.at = "sent", !.for = calls.sign.for]
    <2>1. /\ calls.sign.at = "passed" /\ screen' = Session!WithToken(screen) /\ UNCHANGED past
          /\ rows' = [rows EXCEPT !.jar = calls.sign.to]
          /\ calls' = [calls EXCEPT !.sign = Session!Fetch, !.me = me]
        BY <1>10 DEF Session!Signed
    <2>2. screen' \in Screens /\ screen'.token = "good" /\ screen'.status = "authenticated"
        BY <2>1 DEF Session!WithToken, Shape, Screens
    <2>3. me \in Fetches /\ Session!Fetch \in Fetches /\ Session!Fetch.at = "none"
        <3>1. calls.sign.for \in {"none", "boot", "retry", "login", "change"}
            BY DEF Shape, CallRows, Fetches
        <3> QED BY <3>1, FetchFacts
    <2> HIDE DEF me
    <2>4. /\ calls' \in CallRows /\ calls'.sign = Session!Fetch /\ calls'.refresh = calls.refresh
          /\ calls'.out = calls.out
        BY <2>1, <2>3 DEF Shape, CallRows
    <2>5. /\ rows' \in TokenRows /\ rows'.jar = calls.sign.to /\ rows'.live = rows.live
          /\ rows'.tripped = rows.tripped
        BY <2>1 DEF Shape, TokenRows, CallRows, Fetches
    <2>6. Shape'
        BY <2>1, <2>2, <2>4, <2>5 DEF Shape
    <2>7. ASSUME ~past.lost, ~past.raced
          PROVE  ~rows'.tripped /\ InTurn' /\ Presented' /\ Known' /\ LeftAlone'
        BY <2>1, <2>3, <2>4, <2>5, <2>7 DEF InTurn, Presented, Known, LeftAlone
    <2> QED BY <2>1, <2>6, <2>7
<1>11. ASSUME Session!NotSigned PROVE SessionInv'
    <2>1. /\ calls.sign.at \in {"sent", "again", "passed", "refused"} /\ UNCHANGED <<screen, rows>>
          /\ calls' = [calls EXCEPT !.sign = Session!Fetch]
          /\ past' = [past EXCEPT !.lost = @ \/ calls.sign.at # "refused"]
        BY <1>11 DEF Session!NotSigned
    <2>2. Session!Fetch \in Fetches /\ Session!Fetch.at = "none"
        BY FetchFacts
    <2>3. /\ calls' \in CallRows /\ calls'.sign = Session!Fetch /\ calls'.refresh = calls.refresh
          /\ calls'.out = calls.out
        BY <2>1, <2>2 DEF Shape, CallRows
    <2>4. /\ past' \in Histories /\ past'.raced = past.raced /\ past'.left = past.left
          /\ ~past'.lost => ~past.lost /\ calls.sign.at = "refused"
        BY <2>1 DEF Shape, Histories
    <2> QED BY <2>1, <2>2, <2>3, <2>4 DEF Shape, InTurn, Presented, Known, LeftAlone
<1>12. ASSUME Session!AnswerOut PROVE SessionInv'
    <2>1. /\ calls.out.at = "sent" /\ UNCHANGED <<screen, past>>
          /\ rows' = [rows EXCEPT !.live = IF calls.out.from = @ THEN 0 ELSE @]
          /\ calls' = [calls EXCEPT !.out.at = "passed"]
        BY <1>12 DEF Session!AnswerOut
    <2>2. /\ rows' \in TokenRows /\ rows'.live = (IF calls.out.from = rows.live THEN 0 ELSE rows.live)
          /\ rows'.jar = rows.jar /\ rows'.tripped = rows.tripped
        BY <2>1, TokensAssumption DEF Shape, TokenRows, Tokens
    <2>3. /\ calls' \in CallRows /\ calls'.out.at = "passed" /\ calls'.refresh = calls.refresh
          /\ calls'.sign = calls.sign
        BY <2>1 DEF Shape, CallRows, Fetches
    <2>4. Shape'
        BY <2>1, <2>2, <2>3 DEF Shape
    <2>5. ASSUME ~past.lost, ~past.raced
          PROVE  ~rows'.tripped /\ InTurn' /\ Presented' /\ Known' /\ LeftAlone'
        BY <2>1, <2>2, <2>3, <2>5 DEF InTurn, Presented, Known, LeftAlone
    <2> QED BY <2>1, <2>4, <2>5
<1>13. ASSUME Session!SignedOut PROVE SessionInv'
    <2>1. PICK heard \in {calls.out.at = "passed", FALSE} :
              /\ rows' = [rows EXCEPT !.jar = IF heard THEN 0 ELSE @]
              /\ past' = [past EXCEPT !.left = TRUE, !.lost = @ \/ ~heard]
        BY <1>13 DEF Session!SignedOut
    <2>2. /\ calls.out.at # "none" /\ calls' = [calls EXCEPT !.out = Session!Fetch]
          /\ screen' = [Session!Anonymous(screen) EXCEPT !.at = "entry"]
        BY <1>13 DEF Session!SignedOut
    <2>3. screen' \in Screens /\ screen'.token = "none" /\ screen'.status = "anonymous"
        BY <2>2 DEF Session!Anonymous, Shape, Screens
    <2>4. Session!Fetch \in Fetches /\ Session!Fetch.at = "none"
        BY FetchFacts
    <2>5. /\ calls' \in CallRows /\ calls'.out = Session!Fetch /\ calls'.refresh = calls.refresh
          /\ calls'.sign = calls.sign
        BY <2>2, <2>4 DEF Shape, CallRows
    <2>6. /\ rows' \in TokenRows /\ (heard => rows'.jar = 0) /\ rows'.live = rows.live
          /\ rows'.tripped = rows.tripped
        BY <2>1, TokensAssumption DEF Shape, TokenRows, Tokens
    <2>7. past' \in Histories /\ past'.raced = past.raced /\ past'.left /\ (~past'.lost => ~past.lost /\ heard)
        BY <2>1 DEF Shape, Histories
    <2>8. Shape'
        BY <2>3, <2>5, <2>6, <2>7 DEF Shape
    <2>9. ASSUME ~past'.lost, ~past'.raced
          PROVE  ~rows'.tripped /\ InTurn' /\ Presented' /\ Known' /\ LeftAlone'
        <3>1. calls.out.at = "passed" /\ rows'.jar = 0 /\ ~past.lost /\ ~past.raced
            BY <2>1, <2>6, <2>7, <2>9
        <3> QED BY <2>3, <2>4, <2>5, <2>6, <2>7, <3>1 DEF InTurn, Presented, Known, LeftAlone
    <2> QED BY <2>8, <2>9
<1>14. ASSUME NEW r \in Asks, Session!Ask(r) \/ Session!AnswerAsk(r) PROVE SessionInv'
    <2>1. UNCHANGED <<screen, rows, past>>
          /\ \E to \in {"sent", "idle", "refused"} : calls' = [calls EXCEPT !.ask[r] = to]
        BY <1>14 DEF Session!Ask, Session!AnswerAsk
    <2>2. calls' \in CallRows /\ calls'.refresh = calls.refresh /\ calls'.sign = calls.sign /\ calls'.out = calls.out
        BY <2>1 DEF Shape, CallRows
    <2> QED BY <2>1, <2>2, BesideStep DEF Shape
<1>15. ASSUME NEW r \in Asks, Session!Renew(r) PROVE SessionInv'
    <2> DEFINE waiting == [calls EXCEPT !.ask[r] = "waiting"]
    <2>1. waiting \in CallRows /\ waiting.refresh = calls.refresh /\ waiting.sign = calls.sign
          /\ waiting.out = calls.out
        BY DEF Shape, CallRows
    <2>2. \/ Session!Start(screen, waiting, "refresh", "retry")
          \/ calls' = waiting /\ UNCHANGED <<screen, rows, past>>
        BY <1>15 DEF Session!Renew
    <2> HIDE DEF waiting
    <2>3. CASE Session!Start(screen, waiting, "refresh", "retry")
        BY <2>1, <2>3, <1>0, StartStep DEF Shape
    <2>4. CASE calls' = waiting /\ UNCHANGED <<screen, rows, past>>
        BY <2>1, <2>4, BesideStep DEF Shape
    <2> QED BY <2>2, <2>3, <2>4
<1>16. ASSUME Session!AgeToken \/ Session!RouteHome \/ Session!RouteOut PROVE SessionInv'
    <2>1. UNCHANGED <<calls, rows, past>>
        BY <1>16 DEF Session!AgeToken, Session!RouteHome, Session!RouteOut
    <2>2. /\ screen' \in Screens /\ (screen'.token = "none" <=> screen'.status # "authenticated")
          /\ screen'.status = "authenticated" => screen.status = "authenticated"
        BY <1>16 DEF Session!AgeToken, Session!RouteHome, Session!RouteOut, Shape, Screens
    <2> QED BY <2>1, <2>2, BesideStep DEF Shape
<1> QED BY <1>1, <1>2, <1>3, <1>4, <1>5, <1>6, <1>7, <1>8, <1>9, <1>10, <1>11, <1>12, <1>13, <1>14, <1>15, <1>16
        DEF Session!Next

-----------------------------------------------------------------------------
(* What the endpoints say of their tags                                    *)

\* The tags by which a change of a table is told.
Told(t, tags) ==
    /\ t = "years" => "AcademicCalendar" \in tags
    /\ t = "applications" => "Admissions" \in tags
    /\ t = "sets" => "Assessment" \in tags
    /\ t = "marks" => "Assessment" \in tags /\ "ReportCards" \in tags
    /\ t = "attendance" => "Attendance" \in tags /\ "Timetable" \in tags
    /\ t = "circulars" => "Circulars" \in tags
    /\ t = "classes" => "Classes" \in tags
    /\ t \in {"fees", "invoices"} => "Finance" \in tags
    /\ t = "scales" => "Grading" \in tags
    /\ t = "hostels" => "Hostel" \in tags
    /\ t = "beds" => "Hostel" \in tags /\ "Students" \in tags
    /\ t = "staffing" => "HrPayroll" \in tags
    /\ t = "me" => "Me" \in tags
    /\ t = "admins" => "PlatformAdmins" \in tags
    /\ t = "candidates" => "Ple" \in tags
    /\ t = "badges" => "School" \in tags
    /\ t = "schools" => "School" \in tags /\ "Schools" \in tags
    /\ t = "codes" => "Schools" \in tags
    /\ t \in {"learners", "particulars"} => "Students" \in tags
    /\ t = "subjects" => "Subjects" \in tags /\ "Grading" \in tags
    /\ t = "teaching" => "Teachers" \in tags
    /\ t = "school" => "TenantSchool" \in tags
    /\ t \in {"parents", "staff"} => "TenantUsers" \in tags
    /\ t = "events" => "TermCalendar" \in tags
    /\ t \in {"checklist", "registrations"} => "TermRegistration" \in tags
    /\ t = "slots" => "Timetable" \in tags

\* A query of the table has one of them, either of two being enough.
Heard(t, tags) ==
    \/ t = "years" /\ "AcademicCalendar" \in tags
    \/ t = "applications" /\ "Admissions" \in tags
    \/ t = "sets" /\ "Assessment" \in tags
    \/ t = "marks" /\ ("Assessment" \in tags \/ "ReportCards" \in tags)
    \/ t = "attendance" /\ ("Attendance" \in tags \/ "Timetable" \in tags)
    \/ t = "circulars" /\ "Circulars" \in tags
    \/ t = "classes" /\ "Classes" \in tags
    \/ t \in {"fees", "invoices"} /\ "Finance" \in tags
    \/ t = "scales" /\ "Grading" \in tags
    \/ t = "hostels" /\ "Hostel" \in tags
    \/ t = "beds" /\ ("Hostel" \in tags \/ "Students" \in tags)
    \/ t = "staffing" /\ "HrPayroll" \in tags
    \/ t = "me" /\ "Me" \in tags
    \/ t = "admins" /\ "PlatformAdmins" \in tags
    \/ t = "candidates" /\ "Ple" \in tags
    \/ t = "badges" /\ "School" \in tags
    \/ t = "schools" /\ ("School" \in tags \/ "Schools" \in tags)
    \/ t = "codes" /\ "Schools" \in tags
    \/ t \in {"learners", "particulars"} /\ "Students" \in tags
    \/ t = "subjects" /\ ("Subjects" \in tags \/ "Grading" \in tags)
    \/ t = "teaching" /\ "Teachers" \in tags
    \/ t = "school" /\ "TenantSchool" \in tags
    \/ t \in {"parents", "staff"} /\ "TenantUsers" \in tags
    \/ t = "events" /\ "TermCalendar" \in tags
    \/ t \in {"checklist", "registrations"} /\ "TermRegistration" \in tags
    \/ t = "slots" /\ "Timetable" \in tags

\* Tables that no query has a tag of: they are only shown.
Unheard == {"accounts", "logs", "signins", "numbering"}

\* Mutations that may write a bed and tell the learners only.
Enrolling == {"createStudent", "importStudents", "updateStudent", "deleteStudent"}

\* How a mutation m with these tags tells that it writes a table t.
Tells(names, t, tags) ==
    t \notin Unheard =>
        \/ Told(t, tags)
        \/ t = "beds" /\ names \subseteq Enrolling /\ "Students" \in tags
        \/ t = "parents" /\ (\A n \in names : n = "createStudent")
        \/ t \in {"codes", "schools"} /\ (\A n \in names : n = "resetPlatformData") /\ "Schools" \in tags

\* How a query with these tags is told that a table t of its own has changed.
Hears(names, t, tags) ==
    /\ t \notin Unheard
    /\ Heard(t, tags)
    /\ t = "schools" => "Schools" \in tags \/ (\A n \in names : n = "getSchool")

Speaks(n, e) ==
    \A t \in e.tables : IF e.asks THEN Hears({n}, t, e.tags) ELSE Tells({n}, t, e.tags)
AllSpeak(f) == \A n \in DOMAIN f : Speaks(n, f[n])

LEMMA InJoined ==
    \A S : \A n \in DOMAIN Cache!Joined(S) : \E f \in S : n \in DOMAIN f /\ Cache!Joined(S)[n] = f[n]
<1> SUFFICES ASSUME NEW S, NEW n \in DOMAIN Cache!Joined(S)
             PROVE  \E f \in S : n \in DOMAIN f /\ Cache!Joined(S)[n] = f[n]
    OBVIOUS
<1>1. n \in UNION {DOMAIN f : f \in S} /\ Cache!Joined(S)[n] = (CHOOSE f \in S : n \in DOMAIN f)[n]
    BY DEF Cache!Joined
<1>2. \E f \in S : n \in DOMAIN f
    BY <1>1
<1> QED BY <1>1, <1>2

LEMMA JoinedSpeak == \A S : (\A f \in S : AllSpeak(f)) => AllSpeak(Cache!Joined(S))
BY InJoined DEF AllSpeak

LEMMA OfEach ==
    \A names, t, tags : \A n \in names :
        /\ Hears(names, t, tags) => Hears({n}, t, tags)
        /\ Tells(names, t, tags) => Tells({n}, t, tags)
<1> SUFFICES ASSUME NEW names, NEW t, NEW tags, NEW n \in names
             PROVE  /\ Hears(names, t, tags) => Hears({n}, t, tags)
                    /\ Tells(names, t, tags) => Tells({n}, t, tags)
    OBVIOUS
<1>1. \A x \in {n} : x \in names
    OBVIOUS
<1> QED BY <1>1 DEF Hears, Tells

LEMMA QueriesSpeak ==
    \A names, tables, shows, tags :
        (\A t \in tables : Hears(names, t, tags)) => AllSpeak(Cache!Queries(names, tables, shows, tags))
BY OfEach DEF AllSpeak, Cache!Queries, Speaks

LEMMA MutationsSpeak ==
    \A names, tables, tags :
        (\A t \in tables : Tells(names, t, tags)) => AllSpeak(Cache!Mutations(names, tables, tags))
BY OfEach DEF AllSpeak, Cache!Mutations, Speaks

\* What each table's writers tell, and what its readers hear.
LEMMA Telling ==
    \A names, tags :
        /\ "PlatformAdmins" \in tags => Tells(names, "admins", tags)
        /\ "Admissions" \in tags => Tells(names, "applications", tags)
        /\ "Attendance" \in tags /\ "Timetable" \in tags => Tells(names, "attendance", tags)
        /\ "School" \in tags => Tells(names, "badges", tags)
        /\ "Hostel" \in tags /\ "Students" \in tags => Tells(names, "beds", tags)
        /\ "Ple" \in tags => Tells(names, "candidates", tags)
        /\ "TermRegistration" \in tags => Tells(names, "checklist", tags)
        /\ "Circulars" \in tags => Tells(names, "circulars", tags)
        /\ "Classes" \in tags => Tells(names, "classes", tags)
        /\ "Schools" \in tags => Tells(names, "codes", tags)
        /\ "TermCalendar" \in tags => Tells(names, "events", tags)
        /\ "Finance" \in tags => Tells(names, "fees", tags)
        /\ "Hostel" \in tags => Tells(names, "hostels", tags)
        /\ "Finance" \in tags => Tells(names, "invoices", tags)
        /\ "Students" \in tags => Tells(names, "learners", tags)
        /\ "Assessment" \in tags /\ "ReportCards" \in tags => Tells(names, "marks", tags)
        /\ "Me" \in tags => Tells(names, "me", tags)
        /\ "TenantUsers" \in tags => Tells(names, "parents", tags)
        /\ "Students" \in tags => Tells(names, "particulars", tags)
        /\ "TermRegistration" \in tags => Tells(names, "registrations", tags)
        /\ "Grading" \in tags => Tells(names, "scales", tags)
        /\ "TenantSchool" \in tags => Tells(names, "school", tags)
        /\ "School" \in tags /\ "Schools" \in tags => Tells(names, "schools", tags)
        /\ "Assessment" \in tags => Tells(names, "sets", tags)
        /\ "Timetable" \in tags => Tells(names, "slots", tags)
        /\ "TenantUsers" \in tags => Tells(names, "staff", tags)
        /\ "HrPayroll" \in tags => Tells(names, "staffing", tags)
        /\ "Subjects" \in tags /\ "Grading" \in tags => Tells(names, "subjects", tags)
        /\ "Teachers" \in tags => Tells(names, "teaching", tags)
        /\ "AcademicCalendar" \in tags => Tells(names, "years", tags)
        /\ Tells(names, "accounts", tags)
        /\ Tells(names, "logs", tags)
        /\ Tells(names, "signins", tags)
        /\ Tells(names, "numbering", tags)
        /\ names \subseteq Enrolling /\ "Students" \in tags => Tells(names, "beds", tags)
        /\ (\A n \in names : n = "createStudent") => Tells(names, "parents", tags)
        /\ (\A n \in names : n = "resetPlatformData") /\ "Schools" \in tags => Tells(names, "schools", tags)
BY DEF Tells, Told, Unheard

LEMMA Hearing ==
    \A names, tags :
        /\ "PlatformAdmins" \in tags => Hears(names, "admins", tags)
        /\ "Admissions" \in tags => Hears(names, "applications", tags)
        /\ "Attendance" \in tags => Hears(names, "attendance", tags)
        /\ "Timetable" \in tags => Hears(names, "attendance", tags)
        /\ "School" \in tags => Hears(names, "badges", tags)
        /\ "Hostel" \in tags => Hears(names, "beds", tags)
        /\ "Students" \in tags => Hears(names, "beds", tags)
        /\ "Ple" \in tags => Hears(names, "candidates", tags)
        /\ "TermRegistration" \in tags => Hears(names, "checklist", tags)
        /\ "Circulars" \in tags => Hears(names, "circulars", tags)
        /\ "Classes" \in tags => Hears(names, "classes", tags)
        /\ "TermCalendar" \in tags => Hears(names, "events", tags)
        /\ "Finance" \in tags => Hears(names, "fees", tags)
        /\ "Hostel" \in tags => Hears(names, "hostels", tags)
        /\ "Finance" \in tags => Hears(names, "invoices", tags)
        /\ "Students" \in tags => Hears(names, "learners", tags)
        /\ "Assessment" \in tags => Hears(names, "marks", tags)
        /\ "ReportCards" \in tags => Hears(names, "marks", tags)
        /\ "Me" \in tags => Hears(names, "me", tags)
        /\ "TenantUsers" \in tags => Hears(names, "parents", tags)
        /\ "Students" \in tags => Hears(names, "particulars", tags)
        /\ "TermRegistration" \in tags => Hears(names, "registrations", tags)
        /\ "Grading" \in tags => Hears(names, "scales", tags)
        /\ "TenantSchool" \in tags => Hears(names, "school", tags)
        /\ "Assessment" \in tags => Hears(names, "sets", tags)
        /\ "Timetable" \in tags => Hears(names, "slots", tags)
        /\ "TenantUsers" \in tags => Hears(names, "staff", tags)
        /\ "HrPayroll" \in tags => Hears(names, "staffing", tags)
        /\ "Subjects" \in tags => Hears(names, "subjects", tags)
        /\ "Grading" \in tags => Hears(names, "subjects", tags)
        /\ "Teachers" \in tags => Hears(names, "teaching", tags)
        /\ "AcademicCalendar" \in tags => Hears(names, "years", tags)
        /\ "Schools" \in tags => Hears(names, "codes", tags) /\ Hears(names, "schools", tags)
        /\ (\A n \in names : n = "getSchool") /\ "School" \in tags => Hears(names, "schools", tags)
BY DEF Hears, Heard, Unheard

\* Every section's endpoints do.
LEMMA EndpointsSpeak == AllSpeak(Cache!Endpoint)
<1> USE JoinedSpeak, QueriesSpeak, MutationsSpeak, Telling, Hearing DEF Enrolling
<1>1. AllSpeak(Cache!AuthEndpoints)
    BY DEF Cache!AuthEndpoints
<1>2. AllSpeak(Cache!SchoolEndpoints)
    BY DEF Cache!SchoolEndpoints
<1>3. AllSpeak(Cache!PlatformEndpoints)
    BY DEF Cache!PlatformEndpoints
<1>4. AllSpeak(Cache!CalendarEndpoints)
    BY DEF Cache!CalendarEndpoints
<1>5. AllSpeak(Cache!NoticeEndpoints)
    BY DEF Cache!NoticeEndpoints
<1>6. AllSpeak(Cache!StaffEndpoints)
    BY DEF Cache!StaffEndpoints
<1>7. AllSpeak(Cache!ClassEndpoints)
    BY DEF Cache!ClassEndpoints
<1>8. AllSpeak(Cache!UserEndpoints)
    BY DEF Cache!UserEndpoints
<1>9. AllSpeak(Cache!LearnerEndpoints)
    BY DEF Cache!LearnerEndpoints
<1>10. AllSpeak(Cache!ParticularsEndpoints)
    BY DEF Cache!ParticularsEndpoints
<1>11. AllSpeak(Cache!LessonEndpoints)
    BY DEF Cache!LessonEndpoints
<1>12. AllSpeak(Cache!TimetableEndpoints)
    BY DEF Cache!TimetableEndpoints
<1>13. AllSpeak(Cache!RegistrationEndpoints)
    BY DEF Cache!RegistrationEndpoints
<1>14. AllSpeak(Cache!AdmissionEndpoints)
    BY DEF Cache!AdmissionEndpoints
<1>15. AllSpeak(Cache!ReportEndpoints)
    BY DEF Cache!ReportEndpoints
<1>16. AllSpeak(Cache!GradingEndpoints)
    BY DEF Cache!GradingEndpoints
<1>17. AllSpeak(Cache!FinanceEndpoints)
    BY DEF Cache!FinanceEndpoints
<1>18. AllSpeak(Cache!MarkEndpoints)
    BY DEF Cache!MarkEndpoints
<1>19. AllSpeak(Cache!HostelEndpoints)
    BY DEF Cache!HostelEndpoints
<1> QED BY <1>1, <1>2, <1>3, <1>4, <1>5, <1>6, <1>7, <1>8, <1>9, <1>10, <1>11, <1>12,
           <1>13, <1>14, <1>15, <1>16, <1>17, <1>18, <1>19 DEF Cache!Endpoint

\* Wherever the tags do not leave a pair out, the mutation's meet the query's.
LEMMA TagsMeet ==
    ASSUME NEW q \in Cache!Asked, NEW m \in Cache!Writers(q), ~Cache!Untold(q, m)
    PROVE  Cache!Meet(q, m)
<1> DEFINE qs == Cache!Endpoint[q].tags
           ms == Cache!Endpoint[m].tags
<1>1. PICK t \in Cache!Endpoint[q].tables : Hears({q}, t, qs) /\ Tells({m}, t, ms)
    <2>1. Speaks(q, Cache!Endpoint[q]) /\ Speaks(m, Cache!Endpoint[m])
        BY EndpointsSpeak DEF AllSpeak, Cache!Asked, Cache!Writers
    <2>2. PICK t \in Cache!Endpoint[q].tables : t \in Cache!Endpoint[m].tables
        <3>1. ~(Cache!Endpoint[m].tables \cap Cache!Endpoint[q].tables = {})
            BY DEF Cache!Untold
        <3> QED BY <3>1
    <2>3. Hears({q}, t, qs)
        BY <2>1, <2>2 DEF Speaks, Cache!Asked
    <2>4. Tells({m}, t, ms)
        BY <2>1, <2>2 DEF Speaks, Cache!Writers
    <2> QED BY <2>2, <2>3, <2>4
<1> HIDE DEF qs, ms
<1>2. SUFFICES qs \cap ms # {}
    BY DEF Cache!Meet, qs, ms
<1>3. /\ ~("Hostel" \in qs /\ m \in Enrolling)
      /\ ~("TenantUsers" \in qs /\ m = "createStudent")
      /\ ~(q = "getSchool" /\ m = "resetPlatformData")
    BY DEF Cache!Untold, qs, Enrolling
<1>4. CASE Told(t, ms)
    BY <1>1, <1>4 DEF Hears, Heard, Told
<1>5. CASE ~Told(t, ms)
    <2>1. \/ t = "beds" /\ m \in Enrolling /\ "Students" \in ms
          \/ t = "parents" /\ m = "createStudent"
          \/ t \in {"codes", "schools"} /\ m = "resetPlatformData" /\ "Schools" \in ms
        BY <1>1, <1>5 DEF Hears, Tells
    <2>2. CASE t = "beds"
        BY <1>1, <1>3, <2>1, <2>2 DEF Hears, Heard
    <2>3. CASE t = "parents"
        BY <1>1, <1>3, <2>1, <2>3 DEF Hears, Heard
    <2>4. CASE t = "schools"
        <3>1. "Schools" \in ms /\ q # "getSchool"
            BY <1>3, <2>1, <2>4
        <3>2. ~(\A n \in {q} : n = "getSchool")
            BY <3>1
        <3>3. "Schools" \in qs
            BY <1>1, <2>4, <3>2 DEF Hears
        <3> QED BY <3>1, <3>3
    <2>5. CASE t = "codes"
        BY <1>1, <2>1, <2>5 DEF Hears, Heard
    <2> QED BY <2>1, <2>2, <2>3, <2>4, <2>5
<1> QED BY <1>4, <1>5

-----------------------------------------------------------------------------
(* The cache: one query, one mutation                                      *)

CacheShape ==
    /\ screen = [query |-> screen.query, mutation |-> screen.mutation, shown |-> screen.shown,
                 entry |-> screen.entry, told |-> screen.told]
    /\ calls = [fetch |-> calls.fetch, change |-> calls.change]
    /\ Cache!TypeOK

\* What Settle is given, it leaves in shape.
LEMMA SettleShape ==
    ASSUME CacheShape, NEW scr, NEW c, Cache!Settle(scr, c), UNCHANGED <<rows, past>>,
           scr = [screen EXCEPT !.entry = scr.entry, !.told = scr.told],
           scr.told \in BOOLEAN, scr.entry \in [held : BOOLEAN, failed : BOOLEAN, data : 0..MaxChanges],
           c \in [fetch : [at : {"idle", "sent", "read"}, data : 0..MaxChanges],
                  change : [Slots -> {"none", "sent", "done", "lost"}]]
    PROVE  CacheShape'
<1> DEFINE to == [scr EXCEPT !.told = FALSE, !.entry = IF scr.shown THEN @ ELSE Cache!Nothing]
           asked == [c EXCEPT !.fetch = [at |-> "sent", data |-> 0]]
<1>1. \/ screen' = to /\ calls' \in {c, asked}
      \/ screen' = scr /\ calls' = c
    BY DEF Cache!Settle
<1>2. 0 \in 0..MaxChanges
    BY TokensAssumption
<1>3. asked \in [fetch : [at : {"idle", "sent", "read"}, data : 0..MaxChanges],
                 change : [Slots -> {"none", "sent", "done", "lost"}]]
    BY <1>2
<1>4. Cache!Nothing \in [held : BOOLEAN, failed : BOOLEAN, data : 0..MaxChanges]
    BY <1>2 DEF Cache!Nothing
<1>5. /\ scr = [query |-> screen.query, mutation |-> screen.mutation, shown |-> screen.shown,
                entry |-> scr.entry, told |-> scr.told]
    BY DEF CacheShape
<1>6. /\ to = [query |-> screen.query, mutation |-> screen.mutation, shown |-> screen.shown,
               entry |-> to.entry, told |-> to.told]
      /\ to.told \in BOOLEAN /\ to.entry \in [held : BOOLEAN, failed : BOOLEAN, data : 0..MaxChanges]
    <2> DEFINE kept == IF scr.shown THEN scr.entry ELSE Cache!Nothing
    <2>1. kept \in [held : BOOLEAN, failed : BOOLEAN, data : 0..MaxChanges]
        BY <1>4
    <2>2. to = [scr EXCEPT !.told = FALSE, !.entry = kept]
        OBVIOUS
    <2> HIDE DEF kept, to
    <2>3. to = [query |-> screen.query, mutation |-> screen.mutation, shown |-> screen.shown,
                entry |-> kept, told |-> FALSE]
        BY <1>5, <2>2
    <2> QED BY <2>1, <2>3
<1> HIDE DEF to, asked
<1>7. /\ calls' = [fetch |-> calls'.fetch, change |-> calls'.change]
      /\ calls'.fetch \in [at : {"idle", "sent", "read"}, data : 0..MaxChanges]
      /\ calls'.change \in [Slots -> {"none", "sent", "done", "lost"}]
    BY <1>1, <1>3
<1>8. /\ screen' = [query |-> screen'.query, mutation |-> screen'.mutation, shown |-> screen'.shown,
                    entry |-> screen'.entry, told |-> screen'.told]
      /\ screen'.query = screen.query /\ screen'.mutation = screen.mutation /\ screen'.shown = screen.shown
      /\ screen'.told \in BOOLEAN
      /\ screen'.entry \in [held : BOOLEAN, failed : BOOLEAN, data : 0..MaxChanges]
    BY <1>1, <1>5, <1>6
<1> QED BY <1>7, <1>8 DEF CacheShape, Cache!TypeOK

LEMMA CacheStarts == Cache!Init => CacheShape
<1>1. 0 \in 0..MaxChanges
    BY TokensAssumption
<1> SUFFICES ASSUME Cache!Init PROVE CacheShape
    OBVIOUS
<1>2. PICK q \in Cache!Asked : \E m \in Cache!Writers(q) :
          screen = [query |-> q, mutation |-> m, shown |-> FALSE, entry |-> Cache!Nothing, told |-> FALSE]
    BY DEF Cache!Init
<1>4. PICK m \in Cache!Writers(q) :
          screen = [query |-> q, mutation |-> m, shown |-> FALSE, entry |-> Cache!Nothing, told |-> FALSE]
    BY <1>2
<1>3. /\ calls.fetch \in [at : {"idle", "sent", "read"}, data : 0..MaxChanges]
      /\ Cache!Nothing \in [held : BOOLEAN, failed : BOOLEAN, data : 0..MaxChanges]
    BY <1>1 DEF Cache!Init, Cache!Idle, Cache!Nothing
<1> QED BY <1>1, <1>3, <1>4 DEF Cache!Init, CacheShape, Cache!TypeOK

LEMMA CacheStep == ASSUME CacheShape, Cache!Next PROVE CacheShape'
<1> DEFINE Entries == [held : BOOLEAN, failed : BOOLEAN, data : 0..MaxChanges]
           Calls == [fetch : [at : {"idle", "sent", "read"}, data : 0..MaxChanges],
                     change : [Slots -> {"none", "sent", "done", "lost"}]]
<1>0. 0 \in 0..MaxChanges /\ calls \in Calls /\ screen.entry \in Entries
    BY TokensAssumption DEF CacheShape, Cache!TypeOK
<1>1. ASSUME Cache!Show \/ Cache!Leave \/ Cache!Expire PROVE CacheShape'
    <2>1. \E shown \in BOOLEAN, entry \in Entries : screen' = [screen EXCEPT !.shown = shown, !.entry = entry]
        <3>1. Cache!Nothing \in Entries
            BY <1>0 DEF Cache!Nothing
        <3>2. screen.shown \in BOOLEAN /\ screen = [screen EXCEPT !.shown = screen.shown, !.entry = screen.entry]
            BY DEF CacheShape, Cache!TypeOK
        <3>3. CASE Cache!Show \/ Cache!Leave
            <4>1. PICK shown \in BOOLEAN : screen' = [screen EXCEPT !.shown = shown]
                BY <3>3 DEF Cache!Show, Cache!Leave
            <4>2. screen' = [screen EXCEPT !.shown = shown, !.entry = screen.entry]
                BY <4>1 DEF CacheShape
            <4> QED BY <1>0, <4>2
        <3>4. CASE Cache!Expire
            <4>1. screen' = [screen EXCEPT !.shown = screen.shown, !.entry = Cache!Nothing]
                BY <3>4 DEF Cache!Expire, CacheShape
            <4> QED BY <3>1, <3>2, <4>1
        <3> QED BY <1>1, <3>3, <3>4
    <2>2. calls' \in Calls /\ UNCHANGED <<rows, past>>
        BY <1>0, <1>1 DEF Cache!Show, Cache!Leave, Cache!Expire
    <2> QED BY <2>1, <2>2 DEF CacheShape, Cache!TypeOK
<1>2. ASSUME Cache!Read PROVE CacheShape'
    BY <1>2 DEF Cache!Read, CacheShape, Cache!TypeOK
<1>3. ASSUME Cache!Receive PROVE CacheShape'
    <2> DEFINE scr == [screen EXCEPT !.entry = [held |-> TRUE, failed |-> FALSE, data |-> calls.fetch.data]]
               c == [calls EXCEPT !.fetch = Cache!Idle]
    <2>1. Cache!Settle(scr, c) /\ UNCHANGED <<rows, past>>
        BY <1>3 DEF Cache!Receive
    <2>2. /\ scr = [screen EXCEPT !.entry = scr.entry, !.told = scr.told] /\ scr.told \in BOOLEAN
          /\ scr.entry \in Entries
        BY <1>0 DEF CacheShape, Cache!TypeOK
    <2>3. c \in Calls
        BY <1>0 DEF Cache!Idle
    <2> HIDE DEF scr, c
    <2> QED BY <2>1, <2>2, <2>3, SettleShape
<1>4. ASSUME Cache!Fail PROVE CacheShape'
    <2> DEFINE scr == [screen EXCEPT !.entry.held = TRUE, !.entry.failed = TRUE]
               c == [calls EXCEPT !.fetch = Cache!Idle]
    <2>1. Cache!Settle(scr, c) /\ UNCHANGED <<rows, past>>
        BY <1>4 DEF Cache!Fail
    <2>2. /\ scr = [screen EXCEPT !.entry = scr.entry, !.told = scr.told] /\ scr.told \in BOOLEAN
          /\ scr.entry \in Entries
        BY <1>0 DEF CacheShape, Cache!TypeOK
    <2>3. c \in Calls
        BY <1>0 DEF Cache!Idle
    <2> HIDE DEF scr, c
    <2> QED BY <2>1, <2>2, <2>3, SettleShape
<1>5. ASSUME NEW s \in Slots, Cache!Change(s) \/ Cache!Forget(s) PROVE CacheShape'
    <2>1. UNCHANGED <<screen, rows, past>> /\ \E to \in {"sent", "none"} : calls' = [calls EXCEPT !.change[s] = to]
        BY <1>5 DEF Cache!Change, Cache!Forget
    <2>2. calls' \in Calls
        BY <1>0, <2>1
    <2> QED BY <2>1, <2>2 DEF CacheShape, Cache!TypeOK
<1>6. ASSUME NEW s \in Slots, Cache!Commit(s) PROVE CacheShape'
    <2>1. rows + 1 \in 0..MaxChanges /\ rows \in 0..MaxChanges
        BY <1>6, TokensAssumption DEF Cache!Commit, CacheShape, Cache!TypeOK
    <2>2. /\ UNCHANGED screen /\ rows' = rows + 1 /\ past' \in {rows + 1, past}
          /\ \E to \in {"done", "none"} : calls' = [calls EXCEPT !.change[s] = to]
        BY <1>6 DEF Cache!Commit
    <2>3. calls' \in Calls
        BY <1>0, <2>2
    <2> QED BY <2>1, <2>2, <2>3 DEF CacheShape, Cache!TypeOK
<1>7. ASSUME NEW s \in Slots, Cache!End(s) PROVE CacheShape'
    <2> DEFINE scr == [screen EXCEPT !.told = @ \/ Cache!Meet(screen.query, screen.mutation)]
    <2>1. PICK left \in {"none", "lost"} : Cache!Settle(scr, [calls EXCEPT !.change[s] = left])
        BY <1>7 DEF Cache!End
    <2>2. /\ scr = [screen EXCEPT !.entry = scr.entry, !.told = scr.told] /\ scr.told \in BOOLEAN
          /\ scr.entry \in Entries
        BY <1>0 DEF CacheShape, Cache!TypeOK
    <2>3. [calls EXCEPT !.change[s] = left] \in Calls
        BY <1>0
    <2>4. UNCHANGED <<rows, past>>
        BY <1>7 DEF Cache!End
    <2> HIDE DEF scr
    <2> QED BY <2>1, <2>2, <2>3, <2>4, SettleShape
<1> QED BY <1>1, <1>2, <1>3, <1>4, <1>5, <1>6, <1>7 DEF Cache!Next

\* With the screen s, calls c, rows r and history p, a version v is that of the rows,
\* or a change is still to be told of, or the client had given a later one up.
Fresh(v, s, c, r, p) == v = r \/ p > v \/ s.told \/ \E x \in Slots : c.change[x] = "done"

\* An answer on its way is fresh, and so is one held while nothing is on its way.
Answers(s, c, r, p) ==
    /\ s.entry.data <= r /\ c.fetch.data <= r /\ (c.fetch.at = "idle" => c.fetch.data = 0)
    /\ c.fetch.at = "read" => Fresh(c.fetch.data, s, c, r, p)
    /\ c.fetch.at = "idle" /\ s.entry.held /\ ~s.entry.failed => Fresh(s.entry.data, s, c, r, p)
    /\ c.fetch.at = "idle" /\ s.shown => s.entry.held

\* What is told is dealt with before the query and the mutation are at rest.
CacheInv ==
    /\ CacheShape
    /\ Cache!Meet(screen.query, screen.mutation)
    /\ Answers(screen, calls, rows, past)
    /\ screen.told => Cache!Pending(calls)

LEMMA IdleFetch ==
    ASSUME NEW f \in [at : {"idle", "sent", "read"}, data : 0..MaxChanges], f.at = "idle" => f.data = 0
    PROVE  f = Cache!Idle <=> f.at = "idle"
BY DEF Cache!Idle

LEMMA QuietCache == CacheInv => Cache!QuietIsCurrent
<1> SUFFICES ASSUME CacheInv, screen.shown, ~screen.entry.failed, ~Cache!Pending(calls)
             PROVE  screen.entry.data = rows \/ past > screen.entry.data
    BY DEF Cache!QuietIsCurrent
<1>1. calls.fetch.at = "idle" /\ ~screen.told /\ \A s \in Slots : calls.change[s] # "done"
    BY IdleFetch DEF CacheInv, Cache!Pending, CacheShape, Cache!TypeOK, Answers
<1> QED BY <1>1 DEF CacheInv, Fresh, Answers

\* Settle asks again, or forgets, what is not fresh once nothing is pending.
LEMMA SettleFresh ==
    ASSUME CacheInv, CacheShape', NEW scr, NEW c, Cache!Settle(scr, c), UNCHANGED <<rows, past>>,
           scr = [query |-> screen.query, mutation |-> screen.mutation, shown |-> screen.shown,
                  entry |-> scr.entry, told |-> scr.told],
           scr.told \in BOOLEAN, scr.entry \in [held : BOOLEAN, failed : BOOLEAN, data : 0..MaxChanges],
           c \in [fetch : [at : {"idle", "sent", "read"}, data : 0..MaxChanges],
                  change : [Slots -> {"none", "sent", "done", "lost"}]],
           Answers(scr, c, rows, past)
    PROVE  CacheInv'
<1>1. Cache!Meet(screen.query, screen.mutation) /\ rows \in Nat /\ past \in Nat
    BY TokensAssumption DEF CacheInv, CacheShape, Cache!TypeOK
<1>2. CASE ~(scr.told /\ ~Cache!Pending(c))
    <2>1. screen' = scr /\ calls' = c
        BY <1>2 DEF Cache!Settle
    <2>2. scr.query = screen.query /\ scr.mutation = screen.mutation
        OBVIOUS
    <2> QED BY <1>1, <1>2, <2>1, <2>2 DEF CacheInv
<1>3. CASE scr.told /\ ~Cache!Pending(c) /\ scr.shown
    <2>1. /\ screen' = [scr EXCEPT !.told = FALSE]
          /\ calls' = [c EXCEPT !.fetch = [at |-> "sent", data |-> 0]]
        <3>1. [scr EXCEPT !.told = FALSE, !.entry = scr.entry] = [scr EXCEPT !.told = FALSE]
            OBVIOUS
        <3> QED BY <1>3, <3>1 DEF Cache!Settle
    <2>2. /\ screen'.query = screen.query /\ screen'.mutation = screen.mutation /\ ~screen'.told
          /\ screen'.entry = scr.entry /\ calls'.fetch.at = "sent" /\ calls'.fetch.data = 0
        BY <2>1
    <2>3. Answers(screen', calls', rows', past')
        BY <1>1, <2>2 DEF Answers
    <2> QED BY <1>1, <2>2, <2>3 DEF CacheInv
<1>4. CASE scr.told /\ ~Cache!Pending(c) /\ ~scr.shown
    <2>1. screen' = [scr EXCEPT !.told = FALSE, !.entry = Cache!Nothing] /\ calls' = c
        BY <1>4 DEF Cache!Settle
    <2>2. /\ screen'.query = screen.query /\ screen'.mutation = screen.mutation /\ ~screen'.told
          /\ ~screen'.shown /\ screen'.entry.data = 0 /\ ~screen'.entry.held
        BY <1>4, <2>1 DEF Cache!Nothing
    <2>3. c.fetch.at = "idle"
        BY <1>4, IdleFetch DEF Cache!Pending, Answers, Cache!Idle
    <2>4. Answers(screen', calls', rows', past')
        BY <1>1, <2>1, <2>2, <2>3 DEF Answers
    <2> QED BY <1>1, <2>1, <2>2, <2>4 DEF CacheInv
<1> QED BY <1>2, <1>3, <1>4

LEMMA CacheBegins == Cache!Init => CacheInv
<1> SUFFICES ASSUME Cache!Init PROVE CacheInv
    OBVIOUS
<1>1. CacheShape
    BY CacheStarts
<1>2. PICK q \in Cache!Asked : \E m \in {m \in Cache!Writers(q) : ~Cache!Untold(q, m)} :
          screen = [query |-> q, mutation |-> m, shown |-> FALSE, entry |-> Cache!Nothing, told |-> FALSE]
    BY DEF Cache!Init
<1>3. PICK m \in {m \in Cache!Writers(q) : ~Cache!Untold(q, m)} :
          screen = [query |-> q, mutation |-> m, shown |-> FALSE, entry |-> Cache!Nothing, told |-> FALSE]
    BY <1>2
<1>4. Cache!Meet(q, m)
    BY TagsMeet
<1>5. /\ screen.query = q /\ screen.mutation = m /\ ~screen.told /\ ~screen.shown
      /\ screen.entry.data = 0 /\ ~screen.entry.held
      /\ calls.fetch.at = "idle" /\ calls.fetch.data = 0 /\ rows = 0
    BY <1>3 DEF Cache!Init, Cache!Nothing, Cache!Idle
<1> QED BY <1>1, <1>4, <1>5 DEF CacheInv, Answers

LEMMA CacheStays == ASSUME CacheInv, Cache!Next PROVE CacheInv'
<1> DEFINE Entries == [held : BOOLEAN, failed : BOOLEAN, data : 0..MaxChanges]
           Calls == [fetch : [at : {"idle", "sent", "read"}, data : 0..MaxChanges],
                     change : [Slots -> {"none", "sent", "done", "lost"}]]
<1>0. CacheShape'
    BY CacheStep DEF CacheInv
<1>1. /\ calls \in Calls /\ screen.entry \in Entries /\ screen.told \in BOOLEAN /\ screen.shown \in BOOLEAN
      /\ rows \in Nat /\ past \in Nat /\ past <= rows + MaxChanges
      /\ screen = [query |-> screen.query, mutation |-> screen.mutation, shown |-> screen.shown,
                   entry |-> screen.entry, told |-> screen.told]
    BY TokensAssumption DEF CacheInv, CacheShape, Cache!TypeOK
<1>2. ASSUME Cache!Show PROVE CacheInv'
    <2>1. /\ screen' = [screen EXCEPT !.shown = TRUE] /\ UNCHANGED <<rows, past>>
          /\ \/ calls.fetch.at = "idle" /\ (~screen.entry.held \/ screen.entry.failed)
                /\ calls' = [calls EXCEPT !.fetch = [at |-> "sent", data |-> 0]]
             \/ ~(calls.fetch.at = "idle" /\ (~screen.entry.held \/ screen.entry.failed)) /\ calls' = calls
        BY <1>1, <1>2, IdleFetch DEF Cache!Show, CacheInv, Answers
    <2>2. Answers(screen', calls', rows', past')
        BY <1>1, <2>1 DEF CacheInv, Answers, Fresh
    <2>3. screen'.told => Cache!Pending(calls')
        BY <1>1, <2>1 DEF CacheInv, Cache!Pending, Cache!Idle
    <2> QED BY <1>0, <1>1, <2>1, <2>2, <2>3 DEF CacheInv
<1>3. ASSUME Cache!Leave PROVE CacheInv'
    <2>1. screen' = [screen EXCEPT !.shown = FALSE] /\ UNCHANGED <<calls, rows, past>>
        BY <1>3 DEF Cache!Leave
    <2>2. Answers(screen', calls', rows', past')
        BY <1>1, <2>1 DEF CacheInv, Answers, Fresh
    <2> QED BY <1>0, <1>1, <2>1, <2>2 DEF CacheInv
<1>4. ASSUME Cache!Expire PROVE CacheInv'
    <2>1. screen' = [screen EXCEPT !.entry = Cache!Nothing] /\ ~screen.shown /\ UNCHANGED <<calls, rows, past>>
        BY <1>4 DEF Cache!Expire
    <2>2. /\ screen'.entry.data = 0 /\ ~screen'.entry.held /\ screen'.told = screen.told /\ ~screen'.shown
          /\ screen'.query = screen.query /\ screen'.mutation = screen.mutation
        BY <1>1, <2>1 DEF Cache!Nothing
    <2>3. Answers(screen', calls', rows', past')
        BY <1>1, <2>1, <2>2 DEF CacheInv, Answers, Fresh
    <2> QED BY <1>0, <2>1, <2>2, <2>3 DEF CacheInv
<1>5. ASSUME Cache!Read PROVE CacheInv'
    <2>1. calls' = [calls EXCEPT !.fetch = [at |-> "read", data |-> rows]] /\ UNCHANGED <<screen, rows, past>>
        BY <1>5 DEF Cache!Read
    <2>2. Answers(screen', calls', rows', past')
        BY <1>1, <2>1 DEF CacheInv, Answers, Fresh
    <2>3. Cache!Pending(calls')
        BY <1>1, <2>1 DEF Cache!Pending, Cache!Idle
    <2> QED BY <1>0, <2>1, <2>2, <2>3 DEF CacheInv
<1>6. ASSUME Cache!Receive PROVE CacheInv'
    <2> DEFINE e == [held |-> TRUE, failed |-> FALSE, data |-> calls.fetch.data]
               scr == [screen EXCEPT !.entry = e]
               c == [calls EXCEPT !.fetch = Cache!Idle]
    <2>1. Cache!Settle(scr, c) /\ UNCHANGED <<rows, past>> /\ calls.fetch.at = "read"
        BY <1>6 DEF Cache!Receive
    <2>2. e \in Entries /\ e.held /\ ~e.failed /\ e.data = calls.fetch.data
        BY <1>1
    <2>3. c \in Calls /\ c.fetch.at = "idle" /\ c.fetch.data = 0 /\ c.change = calls.change
        BY <1>1, TokensAssumption DEF Cache!Idle
    <2> HIDE DEF e, c
    <2>4. /\ scr = [query |-> screen.query, mutation |-> screen.mutation, shown |-> screen.shown,
                    entry |-> e, told |-> screen.told]
        BY <1>1
    <2> HIDE DEF scr
    <2>5. Answers(scr, c, rows, past)
        BY <1>1, <2>1, <2>2, <2>3, <2>4 DEF CacheInv, Answers, Fresh
    <2> QED BY <1>0, <1>1, <2>1, <2>2, <2>3, <2>4, <2>5, SettleFresh
<1>7. ASSUME Cache!Fail PROVE CacheInv'
    <2> DEFINE e == [screen.entry EXCEPT !.held = TRUE, !.failed = TRUE]
               scr == [screen EXCEPT !.entry = e]
               c == [calls EXCEPT !.fetch = Cache!Idle]
    <2>1. Cache!Settle(scr, c) /\ UNCHANGED <<rows, past>>
        <3>1. [screen EXCEPT !.entry.held = TRUE, !.entry.failed = TRUE] = scr
            BY <1>1
        <3> QED BY <1>7, <3>1 DEF Cache!Fail
    <2>2. e \in Entries /\ e.held /\ e.failed /\ e.data = screen.entry.data
        BY <1>1
    <2>3. c \in Calls /\ c.fetch.at = "idle" /\ c.fetch.data = 0 /\ c.change = calls.change
        BY <1>1, TokensAssumption DEF Cache!Idle
    <2> HIDE DEF e, c
    <2>4. /\ scr = [query |-> screen.query, mutation |-> screen.mutation, shown |-> screen.shown,
                    entry |-> e, told |-> screen.told]
        BY <1>1
    <2> HIDE DEF scr
    <2>5. Answers(scr, c, rows, past)
        BY <1>1, <2>1, <2>2, <2>3, <2>4 DEF CacheInv, Answers
    <2> QED BY <1>0, <1>1, <2>1, <2>2, <2>3, <2>4, <2>5, SettleFresh
<1>8. ASSUME NEW x \in Slots, Cache!Change(x) \/ Cache!Forget(x) PROVE CacheInv'
    <2>1. /\ UNCHANGED <<screen, rows, past>> /\ calls.change[x] \in {"none", "lost"}
          /\ \E to \in {"sent", "none"} : calls' = [calls EXCEPT !.change[x] = to]
        BY <1>8 DEF Cache!Change, Cache!Forget
    <2>2. /\ calls'.fetch = calls.fetch
          /\ \A y \in Slots : calls.change[y] \in {"sent", "done"} => calls'.change[y] = calls.change[y]
        BY <1>1, <2>1
    <2>3. Answers(screen', calls', rows', past')
        BY <1>1, <2>1, <2>2 DEF CacheInv, Answers, Fresh
    <2>4. screen'.told => Cache!Pending(calls')
        BY <2>1, <2>2 DEF CacheInv, Cache!Pending
    <2> QED BY <1>0, <2>1, <2>3, <2>4 DEF CacheInv
<1>9. ASSUME NEW x \in Slots, Cache!Commit(x) PROVE CacheInv'
    <2>1. /\ screen' = screen /\ rows' = rows + 1
          /\ \/ /\ calls.change[x] = "sent" /\ calls' = [calls EXCEPT !.change[x] = "done"] /\ past' = past
             \/ /\ calls.change[x] = "lost" /\ calls' = [calls EXCEPT !.change[x] = "none"] /\ past' = rows + 1
        BY <1>9 DEF Cache!Commit
    <2>2. /\ calls'.fetch = calls.fetch
          /\ \A y \in Slots : calls.change[y] \in {"sent", "done"} => calls'.change[y] \in {"sent", "done"}
          /\ (\E y \in Slots : calls'.change[y] = "done") \/ past' > rows
        BY <1>1, <2>1
    <2>3. \A v \in Nat : v <= rows => Fresh(v, screen', calls', rows', past')
        BY <1>1, <2>1, <2>2 DEF Fresh
    <2>4. screen.entry.data \in Nat /\ calls.fetch.data \in Nat
        BY <1>1, TokensAssumption
    <2>5. Answers(screen', calls', rows', past')
        BY <1>1, <2>1, <2>2, <2>3, <2>4 DEF CacheInv, Answers
    <2>6. screen'.told => Cache!Pending(calls')
        BY <2>1, <2>2 DEF CacheInv, Cache!Pending
    <2> QED BY <1>0, <2>1, <2>5, <2>6 DEF CacheInv
<1>10. ASSUME NEW x \in Slots, Cache!End(x) PROVE CacheInv'
    <2> DEFINE scr == [screen EXCEPT !.told = @ \/ Cache!Meet(screen.query, screen.mutation)]
    <2>1. PICK left \in {"none", "lost"} : Cache!Settle(scr, [calls EXCEPT !.change[x] = left])
        BY <1>10 DEF Cache!End
    <2> DEFINE c == [calls EXCEPT !.change[x] = left]
    <2>2. /\ scr = [query |-> screen.query, mutation |-> screen.mutation, shown |-> screen.shown,
                    entry |-> scr.entry, told |-> scr.told]
          /\ scr.entry = screen.entry
        BY <1>1
    <2>6. scr.told = TRUE
        <3>1. (screen.told \/ Cache!Meet(screen.query, screen.mutation)) = TRUE
            BY DEF CacheInv
        <3> QED BY <1>1, <3>1
    <2>3. c \in Calls /\ c.fetch = calls.fetch
        BY <1>1
    <2>4. UNCHANGED <<rows, past>> /\ Cache!Settle(scr, c)
        BY <1>10, <2>1 DEF Cache!End
    <2> HIDE DEF scr, c
    <2>5. Answers(scr, c, rows, past)
        BY <1>1, <2>2, <2>3, <2>6 DEF CacheInv, Answers, Fresh
    <2> QED BY <1>0, <1>1, <2>2, <2>3, <2>4, <2>5, <2>6, SettleFresh
<1> QED BY <1>2, <1>3, <1>4, <1>5, <1>6, <1>7, <1>8, <1>9, <1>10 DEF Cache!Next

-----------------------------------------------------------------------------
(* Grids                                                                   *)

\* What the table says of a screen n that the proofs rest on.
GridSays(n, e) ==
    /\ e.none => e.acts = "none"
    /\ e.acts # "none" => n \in Grids!GoAstray \cup {"Roll"}
    /\ n = "Roll" => e.acts = "draft" /\ e.takes /\ e.clears
    /\ n = "Period" => ~e.takes /\ ~e.waiting /\ ~e.failed /\ ~e.none
    /\ e.takes /\ e.clears => n = "Roll"

LEMMA GridTable == \A n \in DOMAIN Grids!Grids : GridSays(n, Grids!Grids[n])
<1> USE DEF GridSays, Grids!GoAstray, Grids!@@, Grids!Draft, Grids!Ticks, Grids!Nothing, Grids!Shown, Grids!Saved,
            Grids!Places, Grids!ReadOnly
<1>1. GridSays("Marks", Grids!Marks)
    BY DEF Grids!Marks, Grids!MarkDraft, Grids!MarkShown, Grids!MarkSaved
<1>2. GridSays("Roll", Grids!Roll)
    BY DEF Grids!Roll, Grids!RollDraft, Grids!RollShown, Grids!RollSaved, Grids!RollRows
<1>3. GridSays("Learners", Grids!Learners)
    BY DEF Grids!Learners, Grids!TicksDraft, Grids!TicksShown, Grids!TicksSaved, Grids!TicksRows
<1>4. GridSays("PayRun", Grids!PayRun)
    BY DEF Grids!PayRun, Grids!RunDraft, Grids!RunShown, Grids!RunSaved
<1>5. GridSays("Period", Grids!Period)
    BY DEF Grids!Period, Grids!PeriodPlace, Grids!PeriodShown
<1>6. GridSays("Queue", Grids!Queue)
    BY DEF Grids!Queue, Grids!QueuePlace, Grids!QueueShown, Grids!QueueRows
<1>7. GridSays("Registered", Grids!Registered)
    BY DEF Grids!Registered, Grids!RegisteredPlace, Grids!RegisteredShown, Grids!RegisteredRows
<1>8. GridSays("Invoices", Grids!Invoices)
    BY DEF Grids!Invoices, Grids!InvoicesPlace, Grids!InvoicesShown, Grids!InvoicesRows
<1>9. GridSays("Card", Grids!Card)
    BY DEF Grids!Card, Grids!CardPlace, Grids!CardShown, Grids!CardExport
<1>10. GridSays("Averages", Grids!Averages)
    BY DEF Grids!Averages, Grids!AveragesPlace, Grids!AveragesShown, Grids!AveragesRows
<1>11. GridSays("Logs", Grids!Logs)
    BY DEF Grids!Logs, Grids!LogsPlace, Grids!LogsShown, Grids!LogsRows
<1>12. GridSays("Incidents", Grids!Incidents)
    BY DEF Grids!Incidents, Grids!IncidentsPlace, Grids!IncidentsShown
<1>13. GridSays("RollDays", Grids!RollDays)
    BY DEF Grids!RollDays, Grids!DaysDraft, Grids!RollShown, Grids!RollSaved, Grids!RollRows
<1> HIDE DEF GridSays
<1> QED BY <1>1, <1>2, <1>3, <1>4, <1>5, <1>6, <1>7, <1>8, <1>9, <1>10, <1>11, <1>12, <1>13 DEF Grids!Grids

GridRows == [grid : DOMAIN Grids!Grids, looks : 0..2, data : 0..2, has : 0..2, touched : BOOLEAN]
GridCalls == [fetching : SUBSET Grids!Here, cached : SUBSET Grids!Here, failed : SUBSET Grids!Here,
              at : {"none", "sent", "done", "refused"}, to : Grids!Here]
GridVersions == [Grids!Here -> [now : 1..2, read : 0..2]]

\* A screen s looks at a place whose rows the query holds, or whose rows are on
\* their way or failed to come; the draft holds those rows too, or is empty.
GridLooks(s, c) ==
    LET e == Grids!Grids[s.grid]
    IN  /\ e.acts = "none" => c.at = "none"
        /\ s.looks = 0 => e.none
        /\ s.looks # 0 /\ s.looks \notin c.fetching \cup c.failed => s.data = s.looks
        /\ e.takes /\ ~e.clears => s.has = s.data
        /\ e.takes /\ e.clears => s.has \in {0, s.looks}

GridInv ==
    /\ screen \in GridRows /\ calls \in GridCalls /\ rows \in GridVersions /\ past \in [astray : BOOLEAN]
    /\ GridLooks(screen, calls)
    /\ past.astray => screen.grid \in Grids!GoAstray

LEMMA GridHolds == GridInv => Grids!TypeOK /\ Grids!QuietIsShown /\ Grids!SavedWhereShown
<1> SUFFICES ASSUME GridInv PROVE Grids!TypeOK /\ Grids!QuietIsShown /\ Grids!SavedWhereShown
    OBVIOUS
<1> DEFINE e == Grids!Grids[screen.grid]
<1>1. GridSays(screen.grid, e) /\ Grids!It = e
    BY GridTable DEF GridInv, GridRows, Grids!It
<1>2. Grids!TypeOK
    BY DEF GridInv, GridRows, GridCalls, GridVersions, Grids!TypeOK
<1>3. Grids!QuietIsShown
    BY <1>1 DEF GridInv, GridLooks, GridSays, Grids!QuietIsShown, Grids!StayBlank
<1>4. Grids!SavedWhereShown
    <2>1. ASSUME Grids!Seen \notin {0, screen.looks}
          PROVE  screen.looks \in calls.fetching \cup calls.failed \cup {0} /\ screen.grid \notin Grids!NeverMixed
        <3>1. /\ Grids!Seen = IF e.takes THEN screen.has ELSE screen.data
              /\ screen.looks \in calls.fetching => e.waiting
              /\ screen.looks \in calls.failed => e.failed
            BY <1>1, <2>1 DEF Grids!Seen, Grids!Visible
        <3> HIDE DEF e
        <3>2. GridLooks(screen, calls)
            BY DEF GridInv
        <3>3. screen.looks \in calls.fetching \cup calls.failed \cup {0}
            BY <2>1, <3>1, <3>2 DEF GridLooks, e
        <3>4. screen.grid # "Roll"
            BY <1>1, <2>1, <3>1, <3>2 DEF GridLooks, GridSays, e
        <3>5. screen.grid # "Period"
            BY <1>1, <2>1, <3>1, <3>2, <3>3 DEF GridLooks, GridSays, e
        <3> QED BY <3>3, <3>4, <3>5 DEF Grids!NeverMixed
    <2> QED BY <2>1 DEF Grids!SavedWhereShown, GridInv
<1> QED BY <1>2, <1>3, <1>4

LEMMA GridStarts == Grids!Init => GridInv
<1> SUFFICES ASSUME Grids!Init PROVE GridInv
    OBVIOUS
<1>1. PICK g \in DOMAIN Grids!Grids :
          screen = [grid |-> g, looks |-> 1, data |-> 0, has |-> 0, touched |-> FALSE]
    BY DEF Grids!Init
<1>2. screen \in GridRows
    BY <1>1 DEF GridRows
<1>3. calls \in GridCalls
    BY DEF Grids!Init, Grids!Here, GridCalls
<1>4. rows \in GridVersions /\ past \in [astray : BOOLEAN] /\ ~past.astray
    BY DEF Grids!Init, Grids!Here, GridVersions
<1>5. GridLooks(screen, calls)
    BY <1>1 DEF Grids!Init, GridLooks
<1> QED BY <1>2, <1>3, <1>4, <1>5 DEF GridInv

LEMMA GridFacts ==
    ASSUME NEW s \in GridRows
    PROVE  /\ s.looks \in 0..2 /\ s.data \in 0..2 /\ s.has \in 0..2 /\ s.grid \in DOMAIN Grids!Grids
           /\ [s EXCEPT !.has = 0, !.touched = FALSE] \in GridRows
           /\ \A p \in 0..2 : /\ [s EXCEPT !.looks = p] \in GridRows
                              /\ [s EXCEPT !.data = p] \in GridRows
                              /\ [s EXCEPT !.data = p, !.has = p, !.touched = FALSE] \in GridRows
                              /\ [s EXCEPT !.touched = TRUE, !.has = p] \in GridRows
           /\ \A p : /\ [s EXCEPT !.looks = p].looks = p
                     /\ [s EXCEPT !.looks = p].data = s.data
                     /\ [s EXCEPT !.looks = p].has = s.has
                     /\ [s EXCEPT !.looks = p].grid = s.grid
<1>1. 0 \in 0..2
    OBVIOUS
<1> QED BY <1>1 DEF GridRows

\* Taking the rows of place p.
LEMMA TakenFacts ==
    ASSUME NEW s \in GridRows, NEW p \in Grids!Here
    PROVE  LET t == Grids!Taken(p, s)
           IN  /\ t \in GridRows /\ t.grid = s.grid /\ t.looks = s.looks /\ t.data = p
               /\ t.has = IF Grids!Grids[s.grid].takes THEN p ELSE s.has
<1>1. p \in 0..2
    BY DEF Grids!Here
<1>2. /\ [s EXCEPT !.data = p] \in GridRows
      /\ [s EXCEPT !.data = p, !.has = p, !.touched = FALSE] \in GridRows
    BY <1>1, GridFacts
<1>3. s = [grid |-> s.grid, looks |-> s.looks, data |-> s.data, has |-> s.has, touched |-> s.touched]
    BY DEF GridRows
<1> QED BY <1>2, <1>3 DEF Grids!Taken

LEMMA GridStep == ASSUME GridInv, Grids!Next PROVE GridInv'
<1> DEFINE e == Grids!Grids[screen.grid]
<1>0. /\ screen \in GridRows /\ calls \in GridCalls /\ rows \in GridVersions /\ past \in [astray : BOOLEAN]
      /\ GridLooks(screen, calls)
      /\ past.astray => screen.grid \in Grids!GoAstray
    BY DEF GridInv
<1>1. GridSays(screen.grid, e) /\ Grids!It = e
    BY <1>0, GridTable DEF GridRows, Grids!It
<1>2. screen.grid = screen'.grid => Grids!Grids[screen'.grid] = e
    OBVIOUS
<1>3. ASSUME NEW p \in Grids!Here, Grids!Look(p) PROVE GridInv'
    <2> DEFINE left == IF e.clears THEN [screen EXCEPT !.has = 0, !.touched = FALSE] ELSE screen
               moved == [left EXCEPT !.looks = p]
    <2>1. /\ left \in GridRows /\ left.grid = screen.grid /\ left.data = screen.data
          /\ left.has = IF e.clears THEN 0 ELSE screen.has
        <3>1. [screen EXCEPT !.has = 0, !.touched = FALSE] \in GridRows
            BY <1>0, GridFacts
        <3>2. screen = [grid |-> screen.grid, looks |-> screen.looks, data |-> screen.data,
                        has |-> screen.has, touched |-> screen.touched]
            BY <1>0 DEF GridRows
        <3> HIDE DEF e
        <3> QED BY <1>0, <3>1, <3>2
    <2> HIDE DEF left
    <2>2. /\ moved \in GridRows /\ moved.grid = screen.grid /\ moved.data = screen.data /\ moved.looks = p
          /\ moved.has = IF e.clears THEN 0 ELSE screen.has
        <3>1. p \in 0..2
            BY DEF Grids!Here
        <3>2. moved \in GridRows /\ moved.grid = left.grid /\ moved.data = left.data /\ moved.looks = p
              /\ moved.has = left.has
            BY <2>1, <3>1, GridFacts
        <3> HIDE DEF moved
        <3> QED BY <2>1, <3>2
    <2>3. /\ screen' = IF p \in calls.cached /\ screen.data # p THEN Grids!Taken(p, moved) ELSE moved
          /\ calls' = IF p \in calls.cached THEN calls
                      ELSE [calls EXCEPT !.fetching = @ \cup {p}, !.failed = @ \ {p}]
          /\ UNCHANGED <<rows, past>>
        BY <1>1, <1>3 DEF Grids!Look, left
    <2> HIDE DEF moved
    <2>4. calls' \in GridCalls /\ calls'.at = calls.at /\ (p \notin calls.cached => p \in calls'.fetching)
        BY <1>0, <2>3 DEF GridCalls
    <2>5. screen' \in GridRows /\ screen'.grid = screen.grid /\ screen'.looks = p
        BY <2>2, <2>3, TakenFacts
    <2>6. \/ screen'.data = p /\ screen'.has = IF e.takes THEN p ELSE moved.has
          \/ screen'.data = screen.data /\ screen'.has = moved.has /\ (p \in calls.cached => screen.data = p)
        BY <2>2, <2>3, TakenFacts
    <2>7. p # 0
        BY DEF Grids!Here
    <2>8. GridLooks(screen', calls')
        <3> HIDE DEF e
        <3>1. /\ e.acts = "none" => calls.at = "none"
              /\ e.takes /\ ~e.clears => screen.has = screen.data
              /\ e.takes /\ e.clears => screen.has \in {0, screen.looks}
            BY <1>0 DEF GridLooks, e
        <3>2. Grids!Grids[screen'.grid] = e
            BY <2>5 DEF e
        <3> QED BY <2>2, <2>4, <2>5, <2>6, <2>7, <3>1, <3>2 DEF GridLooks
    <2> QED BY <1>0, <2>3, <2>4, <2>5, <2>8 DEF GridInv
<1>4. ASSUME NEW p \in Grids!Here, Grids!Arrive(p) PROVE GridInv'
    <2>1. /\ calls' = [calls EXCEPT !.fetching = @ \ {p}, !.cached = @ \cup {p}]
          /\ rows' = [rows EXCEPT ![p].read = rows[p].now] /\ UNCHANGED past
          /\ screen' \in {Grids!Taken(p, screen), screen}
          /\ p = screen.looks => screen' = Grids!Taken(p, screen) \/ screen.data = p
          /\ p # screen.looks => screen' = screen
        BY <1>4 DEF Grids!Arrive
    <2>2. calls' \in GridCalls /\ calls'.at = calls.at /\ calls'.fetching = calls.fetching \ {p} /\ calls'.failed = calls.failed
        BY <1>0, <2>1 DEF GridCalls
    <2>3. rows' \in GridVersions
        BY <1>0, <2>1 DEF GridVersions
    <2>4. /\ screen' \in GridRows /\ screen'.grid = screen.grid /\ screen'.looks = screen.looks
          /\ screen' = screen \/ (screen'.data = p /\ screen'.has = IF e.takes THEN p ELSE screen.has)
        BY <1>0, <2>1, TakenFacts
    <2>5. p = screen.looks => screen'.data = p
        BY <1>0, <2>1, TakenFacts
    <2>6. GridLooks(screen', calls')
        <3> HIDE DEF e
        <3>1. Grids!Grids[screen'.grid] = e /\ Grids!Grids[screen.grid] = e
            BY <2>4 DEF e
        <3>2. CASE p = screen.looks
            BY <1>0, <2>2, <2>4, <2>5, <3>1, <3>2 DEF GridLooks
        <3>3. CASE p # screen.looks
            BY <1>0, <2>1, <2>2, <3>1, <3>3 DEF GridLooks
        <3> QED BY <3>2, <3>3
    <2> QED BY <1>0, <2>1, <2>2, <2>3, <2>4, <2>6 DEF GridInv
<1>5. ASSUME NEW p \in Grids!Here, Grids!ArriveNot(p) PROVE GridInv'
    <2>1. calls' = [calls EXCEPT !.fetching = @ \ {p}, !.failed = @ \cup {p}] /\ UNCHANGED <<screen, rows, past>>
        BY <1>5 DEF Grids!ArriveNot
    <2>2. calls' \in GridCalls /\ calls'.at = calls.at
          /\ calls.fetching \cup calls.failed \subseteq calls'.fetching \cup calls'.failed
        BY <1>0, <2>1 DEF GridCalls
    <2>3. GridLooks(screen, calls')
        BY <1>0, <2>2 DEF GridLooks
    <2> QED BY <1>0, <2>1, <2>2, <2>3 DEF GridInv
<1>6. ASSUME Grids!LookAway PROVE GridInv'
    <2>1. screen' = [screen EXCEPT !.looks = 0] /\ UNCHANGED <<calls, rows, past>> /\ e.none
        BY <1>1, <1>6 DEF Grids!LookAway
    <2>2. /\ screen' \in GridRows /\ screen'.looks = 0 /\ screen'.data = screen.data
          /\ screen'.has = screen.has /\ screen'.grid = screen.grid
        <3>1. 0 \in 0..2
            OBVIOUS
        <3> QED BY <1>0, <2>1, <3>1, GridFacts
    <2>3. ~(e.takes /\ e.clears)
        BY <1>1, <2>1 DEF GridSays
    <2>4. GridLooks(screen', calls)
        BY <1>0, <2>1, <2>2, <2>3 DEF GridLooks
    <2> QED BY <1>0, <2>1, <2>2, <2>4 DEF GridInv
<1>7. ASSUME Grids!Touch PROVE GridInv'
    <2>1. Grids!Seen \in 0..2 /\ screen.has \in 0..2
        <3>1. screen.has \in 0..2 /\ screen.data \in 0..2
            BY <1>0, GridFacts
        <3>2. 0 \in 0..2
            OBVIOUS
        <3> QED BY <3>1, <3>2 DEF Grids!Seen
    <2>2. PICK h \in 0..2 : screen' = [screen EXCEPT !.touched = TRUE, !.has = h] /\ (e.takes => h = screen.has)
        <3> DEFINE h == IF e.takes THEN screen.has ELSE Grids!Seen
        <3>1. h \in 0..2 /\ screen' = [screen EXCEPT !.touched = TRUE, !.has = h]
            BY <1>1, <1>7, <2>1 DEF Grids!Touch
        <3>2. e.takes => h = screen.has
            OBVIOUS
        <3> HIDE DEF h, e
        <3> QED BY <3>1, <3>2
    <2>3. /\ screen' \in GridRows /\ screen'.grid = screen.grid /\ screen'.looks = screen.looks
          /\ screen'.data = screen.data /\ screen'.has = h
        BY <1>0, <2>2, GridFacts DEF GridRows
    <2>4. GridLooks(screen', calls)
        <3> HIDE DEF e
        <3>1. Grids!Grids[screen'.grid] = e /\ Grids!Grids[screen.grid] = e
            BY <2>3 DEF e
        <3> QED BY <1>0, <2>2, <2>3, <3>1 DEF GridLooks
    <2>5. UNCHANGED <<calls, rows, past>>
        BY <1>7 DEF Grids!Touch
    <2> QED BY <1>0, <2>3, <2>4, <2>5 DEF GridInv
<1>8. ASSUME Grids!SaveRows PROVE GridInv'
    <2> DEFINE of == CASE e.acts = "draft" -> screen.has [] e.acts = "shown" -> Grids!Seen [] OTHER -> 0
    <2>1. /\ of # 0 /\ past' = [past EXCEPT !.astray = @ \/ of # screen.looks]
          /\ calls' = [calls EXCEPT !.at = "sent", !.to = screen.looks] /\ UNCHANGED <<screen, rows>>
        BY <1>1, <1>8 DEF Grids!SaveRows
    <2>2. e.acts # "none" /\ screen.looks # 0
        BY <1>0, <1>1, <2>1 DEF GridSays, GridLooks
    <2>3. screen.looks \in Grids!Here
        BY <1>0, <2>2 DEF GridRows, Grids!Here
    <2>4. calls' \in GridCalls /\ calls'.fetching = calls.fetching /\ calls'.failed = calls.failed
        BY <1>0, <2>1, <2>3 DEF GridCalls
    <2>5. of # screen.looks => screen.grid \in Grids!GoAstray
        <3> HIDE DEF e
        <3>1. screen.grid = "Roll" => of \in {0, screen.looks}
            BY <1>0, <1>1 DEF GridSays, GridLooks, e
        <3> HIDE DEF of
        <3> QED BY <1>1, <2>1, <2>2, <3>1 DEF GridSays
    <2> HIDE DEF of
    <2>6. past' \in [astray : BOOLEAN] /\ (past'.astray => screen.grid \in Grids!GoAstray)
        <3>1. (past.astray \/ of # screen.looks) \in BOOLEAN
            OBVIOUS
        <3>2. past' = [astray |-> past.astray \/ of # screen.looks]
            BY <1>0, <2>1
        <3> QED BY <1>0, <2>5, <3>1, <3>2
    <2>7. GridLooks(screen, calls')
        BY <1>0, <2>2, <2>4 DEF GridLooks
    <2> QED BY <1>0, <2>1, <2>4, <2>6, <2>7 DEF GridInv
<1>9. ASSUME Grids!Refresh PROVE GridInv'
    <2>1. screen.looks \in Grids!Here
        BY <1>0, <1>9 DEF Grids!Refresh, GridRows, Grids!Here
    <2>2. calls' = [calls EXCEPT !.fetching = @ \cup {screen.looks}, !.failed = @ \ {screen.looks}]
          /\ UNCHANGED <<screen, rows, past>>
        BY <1>9 DEF Grids!Refresh
    <2>3. calls' \in GridCalls /\ calls'.at = calls.at /\ screen.looks \in calls'.fetching
        BY <1>0, <2>1, <2>2 DEF GridCalls
    <2>4. GridLooks(screen, calls')
        BY <1>0, <2>3 DEF GridLooks
    <2> QED BY <1>0, <2>2, <2>3, <2>4 DEF GridInv
<1>10. ASSUME Grids!Others \/ Grids!Apply PROVE GridInv'
    <2>1. rows' \in GridVersions
        BY <1>0, <1>10 DEF Grids!Others, Grids!Apply, Grids!Write, GridVersions, GridCalls
    <2>2. calls' \in GridCalls /\ calls'.fetching = calls.fetching /\ calls'.failed = calls.failed
          /\ (calls.at = "none" => calls'.at = "none") /\ UNCHANGED <<screen, past>>
        BY <1>0, <1>10 DEF Grids!Others, Grids!Apply, GridCalls
    <2>3. GridLooks(screen, calls')
        BY <1>0, <2>2 DEF GridLooks
    <2> QED BY <1>0, <2>1, <2>2, <2>3 DEF GridInv
<1>11. ASSUME Grids!Refuse \/ Grids!NotSaved PROVE GridInv'
    <2>1. calls' \in GridCalls /\ calls'.fetching = calls.fetching /\ calls'.failed = calls.failed
          /\ (calls.at = "none" => calls'.at = "none") /\ UNCHANGED <<screen, rows, past>>
        BY <1>0, <1>11 DEF Grids!Refuse, Grids!NotSaved, GridCalls
    <2>2. GridLooks(screen, calls')
        BY <1>0, <2>1 DEF GridLooks
    <2> QED BY <1>0, <2>1, <2>2 DEF GridInv
<1>12. ASSUME Grids!SavedRows PROVE GridInv'
    <2>1. /\ calls.at = "done"
          /\ calls' = [calls EXCEPT !.at = "none", !.fetching = @ \cup {screen.looks}, !.failed = @ \ {screen.looks}]
          /\ screen' = IF e.takes THEN screen ELSE [screen EXCEPT !.has = 0, !.touched = FALSE]
          /\ UNCHANGED <<rows, past>>
        BY <1>1, <1>12 DEF Grids!SavedRows
    <2>2. screen.looks \in Grids!Here
        BY <1>0, <1>1, <2>1 DEF GridRows, Grids!Here, GridLooks, GridSays
    <2>3. calls' \in GridCalls /\ calls'.at = "none" /\ screen.looks \in calls'.fetching
        BY <1>0, <2>1, <2>2 DEF GridCalls
    <2>4. /\ screen' \in GridRows /\ screen'.grid = screen.grid /\ screen'.looks = screen.looks
          /\ screen'.data = screen.data /\ (e.takes => screen' = screen)
        <3> HIDE DEF e
        <3>1. [screen EXCEPT !.has = 0, !.touched = FALSE] \in GridRows
            BY <1>0, GridFacts
        <3>2. screen = [grid |-> screen.grid, looks |-> screen.looks, data |-> screen.data,
                        has |-> screen.has, touched |-> screen.touched]
            BY <1>0 DEF GridRows
        <3> QED BY <1>0, <2>1, <3>1, <3>2
    <2>5. GridLooks(screen', calls')
        BY <1>0, <2>3, <2>4 DEF GridLooks
    <2> QED BY <1>0, <2>1, <2>3, <2>4, <2>5 DEF GridInv
<1> QED BY <1>3, <1>4, <1>5, <1>6, <1>7, <1>8, <1>9, <1>10, <1>11, <1>12 DEF Grids!Next

-----------------------------------------------------------------------------
(* Lists in pages                                                          *)

LEMMA AskFacts ==
    /\ \A f \in Paged!Filters, p \in 0..3 : Paged!Ask(f, p) \in Paged!Fetches
    /\ \A a \in Paged!Fetches : a.at \in 0..3 /\ a.filter \in Paged!Filters
BY DEF Paged!Ask, Paged!Fetches, Paged!LastPage

ListRows == [list : {"Learners", "Logs"}, filter : Paged!Filters, page : 1..3,
             data : [Paged!Filters -> Paged!Fetches]]

PageShape ==
    /\ screen \in ListRows /\ calls \in [fetching : SUBSET Paged!Fetches, cached : SUBSET Paged!Fetches]
    /\ rows \in 1..3 /\ past \in [from : [1..3 -> 0..rows], failed : BOOLEAN]

LEMMA PageStarts == Paged!Init => PageShape
<1> SUFFICES ASSUME Paged!Init PROVE PageShape
    OBVIOUS
<1>1. rows \in 1..3 /\ Paged!Start \in [1..3 -> 0..rows]
    BY DEF Paged!Init, Paged!Start, Paged!LastPage
<1>2. Paged!None \in Paged!Fetches /\ Paged!Ask(1, 1) \in Paged!Fetches
    BY AskFacts DEF Paged!None, Paged!Filters
<1> QED BY <1>1, <1>2 DEF Paged!Init, PageShape, ListRows, Paged!Filters

\* Turning to a page of a filter leaves lists in shape.
LEMMA TurnShape ==
    ASSUME PageShape, NEW to \in ListRows, NEW cursor \in 0..3, Paged!Turn(to, cursor)
    PROVE  screen' \in ListRows /\ calls' \in [fetching : SUBSET Paged!Fetches, cached : SUBSET Paged!Fetches]
<1>1. Paged!Ask(to.filter, cursor) \in Paged!Fetches
    BY AskFacts DEF ListRows
<1>2. \A a \in Paged!Fetches : Paged!Showing(to, a) \in ListRows
    BY DEF Paged!Showing, ListRows
<1> QED BY <1>1, <1>2 DEF Paged!Turn, PageShape

LEMMA PageStep == ASSUME PageShape, Paged!Next PROVE PageShape'
<1> USE DEF Paged!LastPage
<1>1. ASSUME Paged!NextPage PROVE PageShape'
    <2> DEFINE to == [screen EXCEPT !.page = @ + 1]
               cursor == Paged!Rows.at + 1
    <2>1. Paged!Rows \in Paged!Fetches
        BY DEF PageShape, ListRows, Paged!Rows
    <2>2. cursor \in 0..rows /\ cursor \in 0..3 /\ screen.page + 1 \in 1..3
        BY <1>1, <2>1, AskFacts DEF Paged!NextPage, PageShape, ListRows
    <2>3. to \in ListRows
        BY <2>2 DEF PageShape, ListRows
    <2>4. /\ Paged!Turn(to, cursor) /\ UNCHANGED rows
          /\ past' = [past EXCEPT !.from[screen.page + 1] = cursor]
        BY <1>1 DEF Paged!NextPage
    <2> HIDE DEF to, cursor
    <2>5. past' \in [from : [1..3 -> 0..rows], failed : BOOLEAN]
        BY <2>2, <2>4 DEF PageShape
    <2> QED BY <2>2, <2>3, <2>4, <2>5, TurnShape DEF PageShape
<1>2. ASSUME Paged!PreviousPage PROVE PageShape'
    <2>1. screen.page - 1 \in 1..3 /\ past.from[screen.page - 1] \in 0..3
        BY <1>2 DEF Paged!PreviousPage, PageShape, ListRows
    <2>2. [screen EXCEPT !.page = @ - 1] \in ListRows
        BY <2>1 DEF PageShape, ListRows
    <2> QED BY <1>2, <2>1, <2>2, TurnShape DEF Paged!PreviousPage, PageShape
<1>3. ASSUME NEW filter \in Paged!Filters, Paged!Refilter(filter) PROVE PageShape'
    <2>1. [screen EXCEPT !.filter = filter, !.page = 1] \in ListRows
        <3>1. 1 \in 1..3
            OBVIOUS
        <3> QED BY <3>1 DEF PageShape, ListRows
    <2>2. Paged!Start \in [1..3 -> 0..rows]
        BY DEF PageShape, Paged!Start
    <2> QED BY <1>3, <2>1, <2>2, TurnShape DEF Paged!Refilter, PageShape
<1>4. ASSUME NEW ask \in calls.fetching, Paged!PageArrives(ask) \/ Paged!PageLost(ask) PROVE PageShape'
    <2>1. ask \in Paged!Fetches
        BY DEF PageShape
    <2>2. Paged!Showing(screen, ask) \in ListRows
        BY <2>1 DEF Paged!Showing, PageShape, ListRows
    <2>3. CASE Paged!PageArrives(ask)
        <3>1. calls' \in [fetching : SUBSET Paged!Fetches, cached : SUBSET Paged!Fetches] /\ UNCHANGED <<rows, past>>
            BY <2>1, <2>3 DEF Paged!PageArrives, PageShape
        <3> QED BY <2>2, <2>3, <3>1 DEF Paged!PageArrives, PageShape
    <2>4. CASE Paged!PageLost(ask)
        BY <2>4 DEF Paged!PageLost, PageShape
    <2> QED BY <1>4, <2>3, <2>4
<1> QED BY <1>1, <1>2, <1>3, <1>4 DEF Paged!Next

\* Unless a page failed, the page the list is at is shown or on its way, and the
\* pages of the logs start where they should.
PageInv ==
    /\ PageShape
    /\ ~past.failed =>
          /\ Paged!Here \notin calls.fetching => Paged!Rows = Paged!Here
          /\ screen.list = "Logs" => \A p \in 1..screen.page : past.from[p] = p

\* The same, of given values.
PageGood(scr, c, from) ==
    LET ask == Paged!Ask(scr.filter, from[scr.page])
    IN  /\ ask \notin c.fetching => scr.data[scr.filter] = ask
        /\ scr.list = "Logs" => \A p \in 1..scr.page : from[p] = p

LEMMA PageIsGood == PageInv <=> PageShape /\ (~past.failed => PageGood(screen, calls, past.from))
BY DEF PageInv, PageGood, Paged!Here, Paged!Rows

LEMMA PageHolds == PageInv => Paged!TypeOK /\ Paged!PagesFollow
BY DEF PageInv, PageShape, ListRows, Paged!TypeOK, Paged!LastPage, Paged!PagesFollow, Paged!RepeatPages

LEMMA PageBegins == Paged!Init => PageInv
<1> SUFFICES ASSUME Paged!Init PROVE PageInv
    OBVIOUS
<1>1. PageShape
    BY PageStarts
<1>2. PageGood(screen, calls, past.from)
    BY DEF Paged!Init, Paged!Start, Paged!LastPage, PageGood
<1> QED BY <1>1, <1>2, PageIsGood

\* Turning to the page that starts at cursor shows it or asks for it.
LEMMA TurnGood ==
    ASSUME PageShape, NEW to \in ListRows, NEW from \in [1..3 -> 0..3],
           Paged!Turn(to, from[to.page]),
           to.list = "Logs" => \A p \in 1..to.page : from[p] = p
    PROVE  PageGood(screen', calls', from)
<1> DEFINE ask == Paged!Ask(to.filter, from[to.page])
<1>1. to.filter \in Paged!Filters /\ from[to.page] \in 0..3
    BY DEF ListRows
<1>2. ask \in Paged!Fetches /\ ask.filter = to.filter
    BY <1>1, AskFacts DEF Paged!Ask
<1>3. /\ screen' = IF ask \in calls.cached THEN Paged!Showing(to, ask) ELSE to
      /\ calls' = IF ask \in calls.cached THEN calls ELSE [calls EXCEPT !.fetching = @ \cup {ask}]
    BY DEF Paged!Turn
<1>4. /\ screen'.list = to.list /\ screen'.filter = to.filter /\ screen'.page = to.page
      /\ ask \in calls.cached => screen'.data[to.filter] = ask
    <2> HIDE DEF ask
    <2> QED BY <1>1, <1>2, <1>3 DEF Paged!Showing, ListRows
<1>5. ask \notin calls.cached => ask \in calls'.fetching
    <2> HIDE DEF ask
    <2> QED BY <1>3 DEF PageShape
<1>6. ask = Paged!Ask(screen'.filter, from[screen'.page])
    BY <1>4
<1> HIDE DEF ask
<1> QED BY <1>4, <1>5, <1>6 DEF PageGood

LEMMA PageKeeps == ASSUME PageInv, Paged!Next PROVE PageInv'
<1>0. PageShape /\ PageShape'
    BY PageStep DEF PageInv
<1> SUFFICES ASSUME ~past'.failed PROVE PageGood(screen', calls', past'.from)
    BY <1>0 DEF PageInv, PageGood, Paged!Here, Paged!Rows
<1>a. \A x \in 0..rows : x \in 0..3
    BY <1>0 DEF PageShape
<1>1. past.from \in [1..3 -> 0..3] /\ past'.from \in [1..3 -> 0..3] /\ screen.page \in 1..3
    <2>1. past.from \in [1..3 -> 0..rows] /\ past'.from \in [1..3 -> 0..rows'] /\ screen.page \in 1..3
        BY <1>0 DEF PageShape, ListRows
    <2>2. rows' = rows
        BY DEF Paged!Next, Paged!NextPage, Paged!PreviousPage, Paged!Refilter, Paged!PageArrives, Paged!PageLost
    <2> QED BY <1>a, <2>1, <2>2
<1>2. ~past.failed => PageGood(screen, calls, past.from)
    BY PageIsGood
<1>3. ASSUME Paged!NextPage PROVE PageGood(screen', calls', past'.from)
    <2> DEFINE to == [screen EXCEPT !.page = @ + 1]
               cursor == Paged!Rows.at + 1
    <2>1. /\ Paged!Turn(to, cursor) /\ past' = [past EXCEPT !.from[screen.page + 1] = cursor]
          /\ Paged!Ready /\ screen.page < 3
        BY <1>3 DEF Paged!NextPage, Paged!LastPage
    <2> HIDE DEF cursor
    <2>2. /\ past'.from = [past.from EXCEPT ![screen.page + 1] = cursor] /\ past.failed = past'.failed
        BY <1>0, <2>1 DEF PageShape
    <2>3. to \in ListRows /\ to.page = screen.page + 1 /\ to.list = screen.list
        BY <1>0, <2>1 DEF PageShape, ListRows
    <2>4. past'.from[to.page] = cursor
        BY <1>1, <2>1, <2>2, <2>3
    <2>5. ASSUME to.list = "Logs", NEW p \in 1..to.page PROVE past'.from[p] = p
        <3>1. Paged!Ask(screen.filter, past.from[screen.page]) \notin calls.fetching
            BY <2>1, <2>3, <2>5 DEF Paged!Ready, Paged!Here, Paged!Waits
        <3>2. Paged!Rows = Paged!Ask(screen.filter, past.from[screen.page])
            BY <1>2, <2>2, <3>1 DEF PageGood, Paged!Rows
        <3>3. cursor = past.from[screen.page] + 1
            BY <3>2 DEF cursor, Paged!Ask
        <3>4. \A n \in 1..screen.page : past.from[n] = n
            BY <1>2, <2>2, <2>3, <2>5 DEF PageGood
        <3>5. screen.page \in 1..screen.page /\ cursor = screen.page + 1
            BY <1>1, <3>3, <3>4
        <3> HIDE DEF to
        <3> QED BY <1>1, <2>2, <2>3, <2>4, <2>5, <3>4, <3>5
    <2> HIDE DEF to
    <2> QED BY <1>0, <1>1, <2>1, <2>3, <2>4, <2>5, TurnGood
<1>4. ASSUME Paged!PreviousPage PROVE PageGood(screen', calls', past'.from)
    <2> DEFINE to == [screen EXCEPT !.page = @ - 1]
    <2>1. Paged!Turn(to, past.from[screen.page - 1]) /\ past' = past /\ screen.page > 1
        BY <1>4 DEF Paged!PreviousPage
    <2>2. to \in ListRows /\ to.page = screen.page - 1 /\ to.list = screen.list
        BY <1>0, <2>1 DEF PageShape, ListRows
    <2> HIDE DEF to
    <2>3. to.list = "Logs" => \A p \in 1..to.page : past.from[p] = p
        BY <1>1, <1>2, <2>1, <2>2 DEF PageGood
    <2> QED BY <1>0, <1>1, <2>1, <2>2, <2>3, TurnGood
<1>5. ASSUME NEW filter \in Paged!Filters, Paged!Refilter(filter) PROVE PageGood(screen', calls', past'.from)
    <2> DEFINE to == [screen EXCEPT !.filter = filter, !.page = 1]
    <2>1. Paged!Turn(to, 1) /\ past' = [past EXCEPT !.from = Paged!Start]
        BY <1>5 DEF Paged!Refilter
    <2>2. to \in ListRows /\ to.page = 1
        <3>1. 1 \in 1..3
            OBVIOUS
        <3> QED BY <1>0, <3>1 DEF PageShape, ListRows
    <2> HIDE DEF to
    <2>3. past'.from = Paged!Start /\ Paged!Start[1] = 1
        BY <1>0, <2>1 DEF PageShape, Paged!Start, Paged!LastPage
    <2>4. Paged!Turn(to, past'.from[to.page]) /\ \A p \in 1..to.page : past'.from[p] = p
        BY <2>1, <2>2, <2>3
    <2> QED BY <1>0, <1>1, <2>2, <2>4, TurnGood
<1>6. ASSUME NEW ask \in calls.fetching, Paged!PageArrives(ask) PROVE PageGood(screen', calls', past'.from)
    <2>1. /\ calls'.fetching = calls.fetching \ {ask} /\ past' = past
          /\ screen' = IF ask = Paged!Ask(screen.filter, past.from[screen.page]) THEN Paged!Showing(screen, ask) ELSE screen
        BY <1>6 DEF Paged!PageArrives, Paged!Here
    <2>2. /\ screen'.list = screen.list /\ screen'.filter = screen.filter /\ screen'.page = screen.page
          /\ ask = Paged!Ask(screen.filter, past.from[screen.page]) => screen'.data[screen.filter] = ask
          /\ ask # Paged!Ask(screen.filter, past.from[screen.page]) => screen'.data = screen.data
        BY <1>0, <2>1 DEF PageShape, ListRows, Paged!Showing, Paged!Ask
    <2> QED BY <1>2, <2>1, <2>2 DEF PageGood
<1>7. ASSUME NEW ask \in calls.fetching, Paged!PageLost(ask) PROVE FALSE
    BY <1>0, <1>7 DEF Paged!PageLost, PageShape
<1> QED BY <1>3, <1>4, <1>5, <1>6, <1>7 DEF Paged!Next

-----------------------------------------------------------------------------
(* Lists of rows                                                           *)

\* What the table says of a kind k that the proofs rest on.
BatchSays(k, e) ==
    /\ e.parts \in 1..2
    /\ e.adds => k \in Batches!AddAgain /\ e.leaves = "clean"
    /\ e.adds /\ ~e.busy => k \in Batches!PressedAgain
    /\ e.parts = 2 /\ ~e.always => k \in Batches!DropReports
    /\ e.check = "some" => k \in Batches!ShowOldChecks

LEMMA BatchTable == \A k \in DOMAIN Batches!Batches : BatchSays(k, Batches!Batches[k])
<1> USE DEF BatchSays, Batches!AddAgain, Batches!PressedAgain, Batches!DropReports, Batches!ShowOldChecks,
            Batches!@@, Batches!Sends, Batches!Checks, Batches!Again, Batches!Leaves, Batches!Tells
<1>1. BatchSays("Students", Batches!Students)
    BY DEF Batches!Students, Batches!StudentsChosen, Batches!StudentsChecked, Batches!StudentsSent, Batches!StudentsShown
<1>2. BatchSays("Staff", Batches!Staff)
    BY DEF Batches!Staff, Batches!StaffSent, Batches!StaffShown
<1>3. BatchSays("Guardians", Batches!Guardians)
    BY DEF Batches!Guardians, Batches!GuardiansSent, Batches!GuardiansShown
<1>4. BatchSays("Applicants", Batches!Applicants)
    BY DEF Batches!Applicants, Batches!ApplicantsSent, Batches!ApplicantsShown
<1>5. BatchSays("BulkForm", Batches!BulkForm)
    BY DEF Batches!BulkForm, Batches!FormSent, Batches!FormShown
<1>6. BatchSays("Marks", Batches!Marks)
    BY DEF Batches!Marks, Batches!MarksSent, Batches!MarksShown
<1>7. BatchSays("Lessons", Batches!Lessons)
    BY DEF Batches!Lessons, Batches!LessonsSent, Batches!LessonsShown
<1>8. BatchSays("CoreSubjects", Batches!CoreSubjects)
    BY DEF Batches!CoreSubjects, Batches!CoreSent, Batches!CoreShown
<1>9. BatchSays("Suggested", Batches!Suggested)
    BY DEF Batches!Suggested, Batches!SuggestedTells, Batches!SuggestedSent, Batches!SuggestedShown
<1>10. BatchSays("Scale", Batches!Scale)
    BY DEF Batches!Scale, Batches!ScaleSent, Batches!ScaleShown
<1>11. BatchSays("DefaultScale", Batches!DefaultScale)
    BY DEF Batches!DefaultScale, Batches!DefaultScaleSent
<1>12. BatchSays("Divisions", Batches!Divisions)
    BY DEF Batches!Divisions, Batches!DivisionsSent, Batches!DivisionsShown
<1>13. BatchSays("Nominees", Batches!Nominees)
    BY DEF Batches!Nominees, Batches!NomineesSent, Batches!NomineesShown
<1>14. BatchSays("Enrolment", Batches!Enrolment)
    BY DEF Batches!Enrolment, Batches!EnrolmentFilled, Batches!EnrolmentSent, Batches!EnrolmentShown
<1> HIDE DEF BatchSays
<1> QED BY <1>1, <1>2, <1>3, <1>4, <1>5, <1>6, <1>7, <1>8, <1>9, <1>10, <1>11, <1>12, <1>13, <1>14
        DEF Batches!Batches

BatchScreens == [kind : DOMAIN Batches!Batches, list : 0..2, checked : 0..2, told : SUBSET Batches!Rows, open : BOOLEAN]
BatchRuns == [at : {"none", "sent", "done", "refused"}, part : 1..2,
              came : SUBSET Batches!Rows, got : SUBSET Batches!Rows, bad : BOOLEAN]
BatchPasts == [lost : SUBSET Batches!Rows, halted : BOOLEAN, trouble : BOOLEAN, unchecked : BOOLEAN]

BatchShape ==
    /\ screen \in BatchScreens
    /\ calls \in [checks : SUBSET Batches!Lists, run : [Batches!Runs -> BatchRuns]]
    /\ rows \in [Batches!Rows -> 0..2]
    /\ past \in BatchPasts

\* A row that was added will be told of, or was, or something went wrong.
Accounted(scr, run, row, p) ==
    LET e == Batches!Batches[scr.kind]
    IN  /\ \A n \in Batches!Runs : /\ run[n].at # "done" => run[n].came = {}
                                   /\ e.parts = 1 => run[n].got = {} /\ run[n].part = 1
        /\ \A r \in Batches!Rows : row[r] > 0 =>
              \/ r \in scr.told \cup p.lost
              \/ p.halted /\ scr.kind \in Batches!DropReports
              \/ \E n \in Batches!Runs : run[n].at # "none" /\ r \in run[n].came \cup run[n].got

\* The rows that a run has yet to add are not there, nor is any before the first run.
Untouched(scr, run, row) ==
    LET e == Batches!Batches[scr.kind]
    IN  /\ \A r \in Batches!Rows : row[r] < 2
        /\ \A n \in Batches!Runs : run[n].at # "none" =>
              /\ scr.open /\ run[3 - n].at = "none"
              /\ run[n].at # "done" => \A r \in IF e.parts = 1 THEN Batches!Rows ELSE {run[n].part} : row[r] = 0
              /\ e.parts = 2 /\ run[n].part = 1 => row[2] = 0
        /\ scr.open /\ (\A n \in Batches!Runs : run[n].at = "none") => \A r \in Batches!Rows : row[r] = 0

\* Where the API adds no row twice, none is; where it would, the screen sees to it.
Once(scr, run, row, p) ==
    LET e == Batches!Batches[scr.kind]
    IN  /\ ~e.adds => \A r \in Batches!Rows : row[r] < 2
        /\ e.adds /\ e.busy /\ ~p.trouble => Untouched(scr, run, row)

BatchInv ==
    /\ BatchShape
    /\ Accounted(screen, calls.run, rows, past)
    /\ Once(screen, calls.run, rows, past)
    /\ past.unchecked => screen.kind \in Batches!ShowOldChecks

LEMMA BatchHolds ==
    BatchInv => /\ Batches!TypeOK /\ Batches!FilledOnceAddedOnce
                /\ Batches!AddedIsTold /\ Batches!CheckedIsImported
<1> SUFFICES ASSUME BatchInv
             PROVE  /\ Batches!TypeOK /\ Batches!FilledOnceAddedOnce
                    /\ Batches!AddedIsTold /\ Batches!CheckedIsImported
    OBVIOUS
<1> DEFINE e == Batches!Batches[screen.kind]
<1>1. BatchSays(screen.kind, e)
    BY BatchTable DEF BatchInv, BatchShape, BatchScreens
<1>2. Batches!TypeOK
    BY DEF BatchInv, BatchShape, BatchScreens, BatchRuns, BatchPasts, Batches!TypeOK
<1>3. Batches!FilledOnceAddedOnce
    <2> SUFFICES ASSUME NEW r \in Batches!Rows, rows[r] = 2
                 PROVE  screen.kind \in Batches!AddAgain /\ (past.trouble \/ screen.kind \in Batches!PressedAgain)
        BY DEF Batches!FilledOnceAddedOnce
    <2>1. e.adds
        BY DEF BatchInv, Once
    <2>2. ~(e.busy /\ ~past.trouble)
        BY <2>1 DEF BatchInv, Once, Untouched
    <2> QED BY <1>1, <2>1, <2>2 DEF BatchSays
<1>4. Batches!AddedIsTold
    BY DEF BatchInv, Accounted, Batches!AddedIsTold
<1>5. Batches!CheckedIsImported
    BY DEF BatchInv, Batches!CheckedIsImported
<1> QED BY <1>2, <1>3, <1>4, <1>5

LEMMA BatchStarts == Batches!Init => BatchInv
<1> SUFFICES ASSUME Batches!Init PROVE BatchInv
    OBVIOUS
<1>1. PICK k \in DOMAIN Batches!Batches :
          screen = [kind |-> k, list |-> 0, checked |-> 0, told |-> {}, open |-> TRUE]
    BY DEF Batches!Init
<1>2. screen \in BatchScreens /\ screen.kind = k
    BY <1>1 DEF BatchScreens
<1>3. /\ calls = [checks |-> {}, run |-> [n \in Batches!Runs |-> Batches!Idle]]
      /\ rows = [r \in Batches!Rows |-> 0]
      /\ past = [lost |-> {}, halted |-> FALSE, trouble |-> FALSE, unchecked |-> FALSE]
    BY DEF Batches!Init
<1>4. Batches!Idle \in BatchRuns
    BY DEF Batches!Idle, BatchRuns
<1>5. BatchShape
    BY <1>2, <1>3, <1>4 DEF BatchShape, BatchPasts, Batches!Rows
<1>6. Accounted(screen, calls.run, rows, past)
    BY <1>3 DEF Accounted, Batches!Idle
<1>7. Once(screen, calls.run, rows, past)
    BY <1>3 DEF Once, Untouched, Batches!Idle, Batches!Runs
<1> QED BY <1>3, <1>5, <1>6, <1>7 DEF BatchInv

\* Steps that leave the runs, the rows and what is told as they are.
LEMMA BatchElsewhere ==
    ASSUME BatchInv, Batches!Choose \/ Batches!Check
                     \/ \E list \in Batches!Lists : Batches!CheckAnswered(list) \/ Batches!CheckLost(list)
    PROVE  BatchInv'
<1> DEFINE e == Batches!Batches[screen.kind]
<1>0. /\ BatchShape /\ Accounted(screen, calls.run, rows, past) /\ Once(screen, calls.run, rows, past)
      /\ past.unchecked => screen.kind \in Batches!ShowOldChecks
    BY DEF BatchInv
<1>1. BatchSays(screen.kind, e) /\ Batches!Batch = e
    BY <1>0, BatchTable DEF BatchShape, BatchScreens, Batches!Batch
<1>2. UNCHANGED <<rows, past>>
    BY DEF Batches!Choose, Batches!Check, Batches!CheckAnswered, Batches!CheckLost
<1>3. /\ screen' \in BatchScreens /\ screen'.kind = screen.kind /\ screen'.told = screen.told
      /\ e.leaves # "always" => screen'.open = screen.open
    <2>1. CASE Batches!Choose
        <3>1. /\ screen' = [screen EXCEPT !.list = @ + 1, !.checked = 0, !.open = TRUE]
              /\ screen.list < 2 /\ (screen.open \/ e.leaves = "always")
            BY <1>1, <2>1 DEF Batches!Choose
        <3>2. screen.list + 1 \in 0..2 /\ 0 \in 0..2
            BY <1>0, <3>1 DEF BatchShape, BatchScreens
        <3> HIDE DEF e
        <3> QED BY <1>0, <3>1, <3>2 DEF BatchShape, BatchScreens
    <2>2. CASE Batches!Check
        BY <1>0, <2>2 DEF Batches!Check, BatchShape
    <2>3. ASSUME NEW list \in Batches!Lists, Batches!CheckAnswered(list) \/ Batches!CheckLost(list)
          PROVE  /\ screen' \in BatchScreens /\ screen'.kind = screen.kind /\ screen'.told = screen.told
                 /\ screen'.open = screen.open
        <3>1. list \in 0..2 /\ 0 \in 0..2
            BY DEF Batches!Lists
        <3>2. screen' = screen \/ \E to \in 0..2 : screen' = [screen EXCEPT !.checked = to]
            BY <2>3, <3>1 DEF Batches!CheckAnswered, Batches!CheckLost
        <3> QED BY <1>0, <3>2 DEF BatchShape, BatchScreens
    <2> QED BY <2>1, <2>2, <2>3
<1>4. calls' \in [checks : SUBSET Batches!Lists, run : [Batches!Runs -> BatchRuns]] /\ calls'.run = calls.run
    <2>1. CASE Batches!Choose
        <3>1. screen'.list \in Batches!Lists
            BY <1>0, <2>1 DEF Batches!Choose, Batches!Lists, BatchShape, BatchScreens
        <3> QED BY <1>0, <2>1, <3>1 DEF Batches!Choose, BatchShape
    <2>2. CASE Batches!Check
        <3>1. screen.list \in Batches!Lists
            BY <1>0, <2>2 DEF Batches!Check, Batches!Lists, BatchShape, BatchScreens
        <3> QED BY <1>0, <2>2, <3>1 DEF Batches!Check, BatchShape
    <2>3. ASSUME NEW list \in Batches!Lists, Batches!CheckAnswered(list) \/ Batches!CheckLost(list)
          PROVE  calls' \in [checks : SUBSET Batches!Lists, run : [Batches!Runs -> BatchRuns]] /\ calls'.run = calls.run
        BY <1>0, <2>3 DEF Batches!CheckAnswered, Batches!CheckLost, BatchShape
    <2> QED BY <2>1, <2>2, <2>3
<1>5. Accounted(screen', calls'.run, rows', past')
    BY <1>0, <1>2, <1>3, <1>4 DEF Accounted
<1>6. Once(screen', calls'.run, rows', past')
    <2>1. e.adds => screen'.open = screen.open
        BY <1>1, <1>3 DEF BatchSays
    <2> HIDE DEF e
    <2>2. Batches!Batches[screen'.kind] = e /\ Batches!Batches[screen.kind] = e
        BY <1>3 DEF e
    <2> QED BY <1>0, <1>2, <1>3, <1>4, <2>1, <2>2 DEF Once, Untouched
<1>7. BatchShape'
    BY <1>0, <1>2, <1>3, <1>4 DEF BatchShape
<1> QED BY <1>0, <1>2, <1>3, <1>5, <1>6, <1>7 DEF BatchInv

\* What becomes of a run.
LEMMA RunFacts ==
    ASSUME NEW run \in BatchRuns, NEW came \in SUBSET Batches!Rows, NEW got \in SUBSET Batches!Rows, NEW bad \in BOOLEAN,
           NEW v
    PROVE  /\ v = [run EXCEPT !.at = "sent", !.part = 2, !.came = {}, !.got = got] =>
                 v \in BatchRuns /\ v = [at |-> "sent", part |-> 2, came |-> {}, got |-> got, bad |-> run.bad]
           /\ v = [run EXCEPT !.at = "done", !.came = came, !.bad = bad] =>
                 v \in BatchRuns /\ v = [at |-> "done", part |-> run.part, came |-> came, got |-> run.got, bad |-> bad]
<1>1. 2 \in 1..2 /\ {} \in SUBSET Batches!Rows
    OBVIOUS
<1>2. run = [at |-> run.at, part |-> run.part, came |-> run.came, got |-> run.got, bad |-> run.bad]
    BY DEF BatchRuns
<1>3. v = [run EXCEPT !.at = "sent", !.part = 2, !.came = {}, !.got = got] =>
          v = [at |-> "sent", part |-> 2, came |-> {}, got |-> got, bad |-> run.bad]
    BY <1>2
<1>4. v = [run EXCEPT !.at = "done", !.came = came, !.bad = bad] =>
          v = [at |-> "done", part |-> run.part, came |-> came, got |-> run.got, bad |-> bad]
    BY <1>2
<1>5. [at |-> "sent", part |-> 2, came |-> {}, got |-> got, bad |-> run.bad] \in BatchRuns
    BY <1>1 DEF BatchRuns
<1>6. [at |-> "done", part |-> run.part, came |-> came, got |-> run.got, bad |-> bad] \in BatchRuns
    BY DEF BatchRuns
<1> QED BY <1>3, <1>4, <1>5, <1>6

LEMMA BatchRun ==
    ASSUME BatchInv, NEW n \in Batches!Runs,
           Batches!Import(n) \/ Batches!Apply(n) \/ Batches!Refuse(n)
           \/ Batches!NextPart(n) \/ Batches!Finish(n) \/ Batches!Halt(n)
    PROVE  BatchInv'
<1> DEFINE e == Batches!Batches[screen.kind]
           run == calls.run[n]
<1>0. /\ BatchShape /\ Accounted(screen, calls.run, rows, past) /\ Once(screen, calls.run, rows, past)
      /\ past.unchecked => screen.kind \in Batches!ShowOldChecks
    BY DEF BatchInv
<1>1. BatchSays(screen.kind, e) /\ Batches!Batch = e
    BY <1>0, BatchTable DEF BatchShape, BatchScreens, Batches!Batch
<1>2. /\ run \in BatchRuns /\ calls.run \in [Batches!Runs -> BatchRuns] /\ calls.checks \subseteq Batches!Lists
      /\ 3 - n \in Batches!Runs /\ 3 - n # n /\ (\A m \in Batches!Runs : m = n \/ m = 3 - n)
      /\ calls = [checks |-> calls.checks, run |-> calls.run]
    BY <1>0 DEF BatchShape, Batches!Runs
<1>3. /\ screen \in BatchScreens /\ past \in BatchPasts /\ rows \in [Batches!Rows -> 0..2]
      /\ screen = [kind |-> screen.kind, list |-> screen.list, checked |-> screen.checked,
                   told |-> screen.told, open |-> screen.open]
      /\ run = [at |-> run.at, part |-> run.part, came |-> run.came, got |-> run.got, bad |-> run.bad]
      /\ past = [lost |-> past.lost, halted |-> past.halted, trouble |-> past.trouble, unchecked |-> past.unchecked]
    BY <1>0, <1>2 DEF BatchShape, BatchScreens, BatchRuns, BatchPasts
<1>4. Batches!Idle \in BatchRuns /\ Batches!Idle = [at |-> "none", part |-> 1, came |-> {}, got |-> {}, bad |-> FALSE]
    BY DEF Batches!Idle, BatchRuns
\* It is enough to look at the run that changes.
<1>5. ASSUME NEW v \in BatchRuns, calls' = [calls EXCEPT !.run[n] = v],
             screen' \in BatchScreens, screen'.kind = screen.kind, rows' \in [Batches!Rows -> 0..2], past' \in BatchPasts,
             Accounted(screen', [calls.run EXCEPT ![n] = v], rows', past'),
             Once(screen', [calls.run EXCEPT ![n] = v], rows', past'),
             past'.unchecked => past.unchecked \/ screen.kind \in Batches!ShowOldChecks
      PROVE  BatchInv'
    <2>1. calls' = [checks |-> calls.checks, run |-> [calls.run EXCEPT ![n] = v]]
        BY <1>2, <1>5
    <2>2. BatchShape'
        BY <1>2, <1>5, <2>1 DEF BatchShape
    <2> QED BY <1>0, <1>5, <2>1, <2>2 DEF BatchInv
<1>6. ASSUME Batches!Import(n) PROVE BatchInv'
    <2> DEFINE v == [Batches!Idle EXCEPT !.at = "sent"]
               un == Batches!Batch.check \in {"all", "some"} /\ screen.checked # screen.list
    <2>1. /\ screen.open /\ run.at = "none" /\ (calls.run[3 - n].at # "none" => ~e.busy)
          /\ calls' = [calls EXCEPT !.run[n] = v] /\ UNCHANGED <<screen, rows>>
          /\ past' = [past EXCEPT !.unchecked = @ \/ un]
        BY <1>1, <1>6 DEF Batches!Import
    <2>2. un => screen.kind \in Batches!ShowOldChecks
        BY <1>1, <1>6 DEF Batches!Import, BatchSays
    <2> HIDE DEF un
    <2>3. /\ past' \in BatchPasts /\ past'.lost = past.lost /\ past'.halted = past.halted /\ past'.trouble = past.trouble
          /\ past'.unchecked => past.unchecked \/ screen.kind \in Batches!ShowOldChecks
        <3>1. (past.unchecked \/ un) \in BOOLEAN
            OBVIOUS
        <3>2. past' = [lost |-> past.lost, halted |-> past.halted, trouble |-> past.trouble, unchecked |-> past.unchecked \/ un]
            BY <1>3, <2>1
        <3> QED BY <1>3, <2>2, <3>1, <3>2 DEF BatchPasts
    <2>4. v \in BatchRuns /\ v = [at |-> "sent", part |-> 1, came |-> {}, got |-> {}, bad |-> FALSE]
        <3>0. v = [Batches!Idle EXCEPT !.at = "sent"]
            OBVIOUS
        <3> HIDE DEF v
        <3>1. v = [at |-> "sent", part |-> 1, came |-> {}, got |-> {}, bad |-> FALSE]
            BY <1>4, <3>0
        <3>2. 1 \in 1..2
            OBVIOUS
        <3> QED BY <3>1, <3>2 DEF BatchRuns
    <2> HIDE DEF v
    <2>5. Accounted(screen, [calls.run EXCEPT ![n] = v], rows, past')
        <3>1. run.came = {}
            BY <1>0, <2>1 DEF Accounted
        <3> HIDE DEF e
        <3> QED BY <1>0, <1>2, <2>1, <2>3, <2>4, <3>1 DEF Accounted
    <2>6. Once(screen, [calls.run EXCEPT ![n] = v], rows, past')
        <3>1. ASSUME e.adds, e.busy, ~past.trouble PROVE Untouched(screen, [calls.run EXCEPT ![n] = v], rows)
            <4>1. Untouched(screen, calls.run, rows) /\ calls.run[3 - n].at = "none"
                BY <1>0, <2>1, <3>1 DEF Once
            <4>2. \A r \in Batches!Rows : rows[r] = 0
                BY <1>2, <2>1, <4>1 DEF Untouched
            <4> HIDE DEF e, run
            <4> QED BY <1>2, <2>1, <2>4, <4>1, <4>2 DEF Untouched, Batches!Rows
        <3> QED BY <1>0, <2>3, <3>1 DEF Once
    <2> QED BY <1>3, <1>5, <2>1, <2>3, <2>4, <2>5, <2>6
<1>7. ASSUME Batches!Refuse(n) PROVE BatchInv'
    <2> DEFINE v == [run EXCEPT !.at = "refused"]
    <2>1. run.at = "sent" /\ calls' = [calls EXCEPT !.run[n] = v] /\ UNCHANGED <<screen, rows, past>>
        BY <1>2, <1>7 DEF Batches!Refuse
    <2>2. v \in BatchRuns /\ v = [at |-> "refused", part |-> run.part, came |-> run.came, got |-> run.got, bad |-> run.bad]
        BY <1>2, <1>3 DEF BatchRuns
    <2> HIDE DEF v
    <2>3. Accounted(screen, [calls.run EXCEPT ![n] = v], rows, past)
        BY <1>0, <1>2, <2>1, <2>2 DEF Accounted
    <2>4. Once(screen, [calls.run EXCEPT ![n] = v], rows, past)
        <3>1. ASSUME e.adds, e.busy, ~past.trouble PROVE Untouched(screen, [calls.run EXCEPT ![n] = v], rows)
            <4>1. Untouched(screen, calls.run, rows)
                BY <1>0, <3>1 DEF Once
            <4> QED BY <1>2, <2>1, <2>2, <4>1 DEF Untouched
        <3> QED BY <1>0, <3>1 DEF Once
    <2> QED BY <1>3, <1>5, <2>1, <2>2, <2>3, <2>4
<1>8. ASSUME Batches!NextPart(n) PROVE BatchInv'
    <2> DEFINE v == [run EXCEPT !.at = "sent", !.part = 2, !.came = {}, !.got = Batches!Merged(run.came, run.got)]
    <2>1. run.at = "done" /\ run.part < e.parts /\ calls' = [calls EXCEPT !.run[n] = v] /\ UNCHANGED <<screen, rows, past>>
        BY <1>1, <1>8 DEF Batches!NextPart
    <2>2. /\ v \in BatchRuns
          /\ v = [at |-> "sent", part |-> 2, came |-> {}, got |-> run.got \cup run.came, bad |-> run.bad]
        <3>1. Batches!Merged(run.came, run.got) = run.got \cup run.came /\ run.got \cup run.came \subseteq Batches!Rows
            BY <1>2 DEF BatchRuns, Batches!Merged
        <3> DEFINE got == Batches!Merged(run.came, run.got)
        <3>2. v = [run EXCEPT !.at = "sent", !.part = 2, !.came = {}, !.got = got]
            OBVIOUS
        <3> HIDE DEF run, v, got
        <3>3. v \in BatchRuns /\ v = [at |-> "sent", part |-> 2, came |-> {}, got |-> got, bad |-> run.bad]
            BY <1>2, <3>1, <3>2, RunFacts DEF got
        <3> QED BY <3>1, <3>3 DEF got
    <2>3. e.parts = 2 /\ run.part = 1
        BY <1>1, <1>2, <2>1 DEF BatchSays, BatchRuns
    <2> HIDE DEF v
    <2>4. Accounted(screen, [calls.run EXCEPT ![n] = v], rows, past)
        BY <1>0, <1>2, <2>1, <2>2, <2>3 DEF Accounted
    <2>5. Once(screen, [calls.run EXCEPT ![n] = v], rows, past)
        <3>1. ASSUME e.adds, e.busy, ~past.trouble PROVE Untouched(screen, [calls.run EXCEPT ![n] = v], rows)
            <4>1. Untouched(screen, calls.run, rows)
                BY <1>0, <3>1 DEF Once
            <4> QED BY <1>2, <2>1, <2>2, <2>3, <4>1 DEF Untouched
        <3> QED BY <1>0, <3>1 DEF Once
    <2> QED BY <1>3, <1>5, <2>1, <2>2, <2>4, <2>5
<1>9. ASSUME Batches!Finish(n) PROVE BatchInv'
    <2> DEFINE v == Batches!Idle
               left == e.leaves = "always" \/ (e.leaves = "clean" /\ ~run.bad)
               told == screen.told \cup Batches!Merged(run.came, run.got)
    <2>1. /\ run.at = "done" /\ run.part = e.parts
          /\ screen' = [screen EXCEPT !.told = told, !.open = @ /\ ~left]
          /\ calls' = [calls EXCEPT !.run[n] = v]
          /\ past' = [past EXCEPT !.trouble = @ \/ run.bad] /\ rows' = rows
        BY <1>1, <1>9 DEF Batches!Finish
    <2>v. v \in BatchRuns /\ v = [at |-> "none", part |-> 1, came |-> {}, got |-> {}, bad |-> FALSE]
        BY <1>4
    <2> HIDE DEF v
    <2>2. (e.leaves = "clean" => left \/ run.bad) /\ told = screen.told \cup run.came \cup run.got
        BY <1>2 DEF Batches!Merged, BatchRuns
    <2> HIDE DEF left, told
    <2>3. /\ screen' = [kind |-> screen.kind, list |-> screen.list, checked |-> screen.checked,
                        told |-> told, open |-> screen.open /\ ~left]
          /\ past' = [lost |-> past.lost, halted |-> past.halted, trouble |-> past.trouble \/ run.bad,
                      unchecked |-> past.unchecked]
        BY <1>3, <2>1
    <2>4. screen' \in BatchScreens /\ past' \in BatchPasts
        <3>1. (screen.open /\ ~left) \in BOOLEAN /\ (past.trouble \/ run.bad) \in BOOLEAN
            OBVIOUS
        <3>2. told \subseteq Batches!Rows
            BY <1>2, <1>3, <2>2 DEF BatchRuns, BatchScreens
        <3> QED BY <1>3, <2>3, <3>1, <3>2 DEF BatchScreens, BatchPasts
    <2>5. Accounted(screen', [calls.run EXCEPT ![n] = v], rows', past')
        BY <1>0, <1>2, <2>v, <2>1, <2>2, <2>3 DEF Accounted
    <2>6. Once(screen', [calls.run EXCEPT ![n] = v], rows', past')
        <3>1. ASSUME e.adds, e.busy, ~(past.trouble \/ run.bad)
              PROVE  Untouched(screen', [calls.run EXCEPT ![n] = v], rows)
            <4>1. Untouched(screen, calls.run, rows)
                BY <1>0, <3>1 DEF Once
            <4>2. left
                BY <1>1, <2>2, <3>1 DEF BatchSays
            <4>3. ~screen'.open /\ screen'.kind = screen.kind
                BY <2>3, <4>2
            <4>4. [calls.run EXCEPT ![n] = v][3 - n].at = "none"
                BY <1>2, <2>1, <4>1 DEF Untouched
            <4>5. \A m \in Batches!Runs : [calls.run EXCEPT ![n] = v][m].at = "none"
                BY <1>2, <2>v, <4>4
            <4> QED BY <4>1, <4>3, <4>5 DEF Untouched
        <3>2. screen'.kind = screen.kind /\ past'.trouble = (past.trouble \/ run.bad)
            BY <2>3
        <3>3. Batches!Batches[screen'.kind] = e
            BY <3>2
        <3>4. ~e.adds => \A r \in Batches!Rows : rows'[r] < 2
            BY <1>0, <2>1 DEF Once
        <3> DEFINE now == [calls.run EXCEPT ![n] = v]
        <3>5. e.adds /\ e.busy /\ ~past'.trouble => Untouched(screen', now, rows')
            BY <2>1, <3>1, <3>2
        <3> HIDE DEF run, e, now
        <3>6. Once(screen', now, rows', past')
            BY <3>3, <3>4, <3>5 DEF Once
        <3> QED BY <3>6 DEF now
    <2> QED BY <2>v, <1>3, <1>5, <2>1, <2>3, <2>4, <2>5, <2>6
<1>10. ASSUME Batches!Halt(n) PROVE BatchInv'
    <2> DEFINE v == Batches!Idle
               told == IF e.always THEN screen.told \cup run.got ELSE screen.told
               lost == IF run.at = "done" THEN past.lost \cup run.came ELSE past.lost
    <2>1. /\ run.at \in {"sent", "done", "refused"}
          /\ screen' = [screen EXCEPT !.told = told]
          /\ calls' = [calls EXCEPT !.run[n] = v]
          /\ past' = [past EXCEPT !.halted = TRUE, !.trouble = TRUE, !.lost = lost] /\ rows' = rows
        BY <1>1, <1>10 DEF Batches!Halt
    <2>v. v \in BatchRuns /\ v = [at |-> "none", part |-> 1, came |-> {}, got |-> {}, bad |-> FALSE]
        BY <1>4
    <2> HIDE DEF v
    <2>2. told \subseteq Batches!Rows /\ lost \subseteq Batches!Rows
        BY <1>2, <1>3 DEF BatchRuns, BatchScreens, BatchPasts
    <2>3. /\ screen' = [kind |-> screen.kind, list |-> screen.list, checked |-> screen.checked,
                        told |-> told, open |-> screen.open]
          /\ past' = [lost |-> lost, halted |-> TRUE, trouble |-> TRUE, unchecked |-> past.unchecked]
        <3> HIDE DEF told, lost
        <3> QED BY <1>3, <2>1
    <2>4. screen' \in BatchScreens /\ past' \in BatchPasts
        BY <1>3, <2>2, <2>3 DEF BatchScreens, BatchPasts
    <2>5. Accounted(screen', [calls.run EXCEPT ![n] = v], rows', past')
        <3>1. run.got # {} => e.always \/ screen.kind \in Batches!DropReports
            BY <1>0, <1>1, <1>2 DEF Accounted, BatchSays
        <3>2. run.at # "done" => run.came = {}
            BY <1>0 DEF Accounted
        <3>3. \A r \in run.came \cup run.got : r \in told \cup lost \/ screen.kind \in Batches!DropReports
            BY <3>1, <3>2
        <3>4. screen.told \subseteq told /\ past.lost \subseteq lost
            OBVIOUS
        <3> HIDE DEF told, lost, e
        <3>5. Batches!Batches[screen.kind] = Batches!Batches[screen'.kind]
            BY <2>3
        <3> QED BY <1>0, <1>2, <2>v, <2>1, <2>3, <3>3, <3>4, <3>5 DEF Accounted
    <2>6. Once(screen', [calls.run EXCEPT ![n] = v], rows', past')
        <3>1. past'.trouble = TRUE /\ screen'.kind = screen.kind
            BY <2>3
        <3>2. Batches!Batches[screen'.kind] = e
            BY <3>1
        <3>3. ~e.adds => \A r \in Batches!Rows : rows'[r] < 2
            BY <1>0, <2>1 DEF Once
        <3> DEFINE now == [calls.run EXCEPT ![n] = v]
        <3> HIDE DEF e, now
        <3>4. Once(screen', now, rows', past')
            BY <3>1, <3>2, <3>3 DEF Once
        <3> QED BY <3>4 DEF now
    <2> QED BY <2>v, <1>3, <1>5, <2>1, <2>3, <2>4, <2>5, <2>6
<1>11. ASSUME Batches!Apply(n) PROVE BatchInv'
    <2> DEFINE part == Batches!Part(run.part)
               fresh(bad) == {r \in part \ bad : Batches!Batch.adds \/ rows[r] = 0}
    <2>1. /\ run.at = "sent" /\ UNCHANGED <<screen, past>>
          /\ \E bad \in IF Batches!Batch.whole THEN {{}} ELSE SUBSET part :
                /\ rows' = [r \in Batches!Rows |-> IF r \in fresh(bad) /\ rows[r] < 2 THEN rows[r] + 1 ELSE rows[r]]
                /\ calls' = [calls EXCEPT !.run[n] = [run EXCEPT !.at = "done", !.came = fresh(bad), !.bad = @ \/ bad # {}]]
        BY <1>11, Zenon DEF Batches!Apply
    <2>2. part = (IF e.parts = 1 THEN Batches!Rows ELSE {run.part}) /\ part \subseteq Batches!Rows
        <3>1. run.part \in Batches!Rows
            BY <1>2 DEF BatchRuns, Batches!Rows
        <3>2. part = (IF e.parts = 1 THEN Batches!Rows ELSE {run.part})
            BY <1>1 DEF Batches!Part
        <3> HIDE DEF part, e, run
        <3> QED BY <3>1, <3>2
    <2>3. PICK bad :
              /\ rows' = [r \in Batches!Rows |-> IF r \in fresh(bad) /\ rows[r] < 2 THEN rows[r] + 1 ELSE rows[r]]
              /\ calls' = [calls EXCEPT !.run[n] = [run EXCEPT !.at = "done", !.came = fresh(bad), !.bad = @ \/ bad # {}]]
        BY <2>1
    <2> DEFINE new == fresh(bad)
               v == [run EXCEPT !.at = "done", !.came = new, !.bad = @ \/ bad # {}]
    <2>a. /\ rows' = [r \in Batches!Rows |-> IF r \in new /\ rows[r] < 2 THEN rows[r] + 1 ELSE rows[r]]
          /\ calls' = [calls EXCEPT !.run[n] = v]
        BY <2>3, Zenon
    <2>4. new \subseteq part /\ (\A r \in new : e.adds \/ rows[r] = 0)
        BY <1>1
    <2> HIDE DEF new
    <2>5. v \in BatchRuns /\ \E b \in BOOLEAN : v = [at |-> "done", part |-> run.part, came |-> new, got |-> run.got, bad |-> b]
        <3> DEFINE b == run.bad \/ bad # {}
        <3>1. b \in BOOLEAN /\ v = [run EXCEPT !.at = "done", !.came = new, !.bad = b]
            BY <1>3
        <3>2. new \subseteq Batches!Rows
            BY <2>2, <2>4
        <3> HIDE DEF v, b, run
        <3> QED BY <1>2, <3>1, <3>2, RunFacts
    <2> HIDE DEF v
    <2>6. /\ rows' \in [Batches!Rows -> 0..2]
          /\ \A r \in Batches!Rows : /\ r \notin new => rows'[r] = rows[r]
                                     /\ r \in new => rows'[r] = IF rows[r] < 2 THEN rows[r] + 1 ELSE rows[r]
        BY <1>3, <2>a
    <2>7. Accounted(screen, [calls.run EXCEPT ![n] = v], rows', past)
        <3> HIDE DEF e, part
        <3>1. run.came = {}
            BY <1>0, <2>1 DEF Accounted
        <3> QED BY <1>0, <1>2, <2>1, <2>5, <2>6, <3>1 DEF Accounted
    <2>8. Once(screen, [calls.run EXCEPT ![n] = v], rows', past)
        <3>1. ASSUME ~e.adds, NEW r \in Batches!Rows PROVE rows'[r] < 2
            BY <1>0, <1>3, <2>4, <2>6, <3>1 DEF Once
        <3>2. ASSUME e.adds, e.busy, ~past.trouble PROVE Untouched(screen, [calls.run EXCEPT ![n] = v], rows')
            <4>1. Untouched(screen, calls.run, rows)
                BY <1>0, <3>2 DEF Once
            <4>2. \A r \in new : rows[r] = 0
                BY <1>2, <2>1, <2>2, <2>4, <4>1 DEF Untouched
            <4>3. \A r \in Batches!Rows : rows'[r] < 2
                BY <2>6, <4>1, <4>2 DEF Untouched
            <4>4. e.parts = 2 /\ run.part = 1 => rows'[2] = 0
                BY <2>1, <2>2, <2>4, <2>6, <4>1 DEF Untouched, Batches!Rows
            <4> HIDE DEF part
            <4> QED BY <1>2, <2>1, <2>5, <4>1, <4>3, <4>4 DEF Untouched
        <3> QED BY <3>1, <3>2 DEF Once
    <2> QED BY <1>3, <1>5, <2>1, <2>a, <2>5, <2>6, <2>7, <2>8
<1> QED BY <1>6, <1>7, <1>8, <1>9, <1>10, <1>11

LEMMA BatchStep == ASSUME BatchInv, Batches!Next PROVE BatchInv'
BY BatchElsewhere, BatchRun DEF Batches!Next

-----------------------------------------------------------------------------
(* Forms                                                                   *)

\* What the proofs need of a form n, by the entries of its table.
FormSound(n, draft, seed, cancel, after, always, busy, place, unique) ==
    /\ draft \in {"page", "each", "one", "both", "new"}
    /\ seed \in {"row", "shut"} => n \in Forms!DropTyping
    /\ after = "shut" /\ draft \in {"one", "both"} => n \in Forms!DropTyping
    /\ ~always /\ n \notin Forms!ReviveDrafts /\ seed # "open" =>
          seed = "shut" /\ cancel = "reset" /\ after = "shut" /\ draft \notin {"one", "both"}
    /\ draft \in {"both", "new"} => busy
    /\ draft \in {"both", "new"} /\ after = "keep" /\ ~unique => n \in Forms!AddAgain
    /\ n \notin Forms!GoAstray => place = "none" \/ (place = "reset" /\ always /\ after # "shut")

FormSays(n, e) == FormSound(n, e.draft, e.seed, e.cancel, e.after, e.always, e.busy, e.place, e.unique)

\* What two tables put together say, and do not say.
Has(f, x, y) == x \in DOMAIN f /\ f[x] = y
Lacks(f, x) == x \notin DOMAIN f

LEMMA PutTogether ==
    \A f, g, x : /\ \A y : Has(f, x, y) => Has(Forms!@@(f, g), x, y)
                 /\ \A y : Lacks(f, x) /\ Has(g, x, y) => Has(Forms!@@(f, g), x, y)
                 /\ Lacks(f, x) /\ Lacks(g, x) => Lacks(Forms!@@(f, g), x)
BY DEF Forms!@@, Has, Lacks

LEMMA FormPieces ==
    \A a, b, c, f, g, h, i, p :
        /\ LET d == Forms!Draft(a, b, c)
           IN  /\ Has(d, "draft", a) /\ Has(d, "seed", b) /\ Has(d, "cancel", c)
               /\ Lacks(d, "after") /\ Lacks(d, "always") /\ Lacks(d, "busy") /\ Lacks(d, "place") /\ Lacks(d, "unique")
        /\ LET s == Forms!Save(f, g)
           IN  Has(s, "after", g) /\ Lacks(s, "always") /\ Lacks(s, "busy") /\ Lacks(s, "place") /\ Lacks(s, "unique")
        /\ LET v == Forms!View(h, i)
           IN  Has(v, "always", h) /\ Has(v, "busy", i) /\ Lacks(v, "place") /\ Lacks(v, "unique")
        /\ Has(Forms!At(p), "place", p) /\ Lacks(Forms!At(p), "after") /\ Lacks(Forms!At(p), "always")
        /\ Lacks(Forms!At(p), "busy") /\ Lacks(Forms!At(p), "unique")
        /\ Has(Forms!Unique, "unique", TRUE) /\ Lacks(Forms!Unique, "place")
        /\ Has(Forms!Plain, "place", "none") /\ Has(Forms!Plain, "unique", FALSE)
BY DEF Has, Lacks, Forms!Draft, Forms!Save, Forms!View, Forms!Unique, Forms!At, Forms!Plain

\* Three ways to make up a form.
Usual(d, s, v) == Forms!@@(Forms!@@(Forms!@@(d, s), v), Forms!Plain)
Named(d, s, v) == Forms!@@(Forms!@@(Forms!@@(Forms!@@(d, s), v), Forms!Unique), Forms!Plain)
Placed(d, p, s, v) == Forms!@@(Forms!@@(Forms!@@(Forms!@@(d, Forms!At(p)), s), v), Forms!Plain)

LEMMA UsualSays ==
    \A n, a, b, c, f, g, h, i :
        FormSound(n, a, b, c, g, h, i, "none", FALSE) =>
            FormSays(n, Usual(Forms!Draft(a, b, c), Forms!Save(f, g), Forms!View(h, i)))
<1> SUFFICES ASSUME NEW n, NEW a, NEW b, NEW c, NEW f, NEW g, NEW h, NEW i
             PROVE  LET e == Usual(Forms!Draft(a, b, c), Forms!Save(f, g), Forms!View(h, i))
                    IN  FormSound(n, a, b, c, g, h, i, "none", FALSE) => FormSays(n, e)
    OBVIOUS
<1> DEFINE e == Usual(Forms!Draft(a, b, c), Forms!Save(f, g), Forms!View(h, i))
<1>1. /\ Has(e, "draft", a) /\ Has(e, "seed", b) /\ Has(e, "cancel", c) /\ Has(e, "after", g)
      /\ Has(e, "always", h) /\ Has(e, "busy", i) /\ Has(e, "place", "none") /\ Has(e, "unique", FALSE)
    BY PutTogether, FormPieces DEF Usual
<1> HIDE DEF e
<1>2. FormSound(n, a, b, c, g, h, i, "none", FALSE) => FormSays(n, e)
    BY <1>1 DEF Has, FormSays
<1> QED BY <1>2 DEF e

LEMMA NamedSays ==
    \A n, a, b, c, f, g, h, i :
        FormSound(n, a, b, c, g, h, i, "none", TRUE) =>
            FormSays(n, Named(Forms!Draft(a, b, c), Forms!Save(f, g), Forms!View(h, i)))
<1> SUFFICES ASSUME NEW n, NEW a, NEW b, NEW c, NEW f, NEW g, NEW h, NEW i
             PROVE  LET e == Named(Forms!Draft(a, b, c), Forms!Save(f, g), Forms!View(h, i))
                    IN  FormSound(n, a, b, c, g, h, i, "none", TRUE) => FormSays(n, e)
    OBVIOUS
<1> DEFINE e == Named(Forms!Draft(a, b, c), Forms!Save(f, g), Forms!View(h, i))
<1>1. /\ Has(e, "draft", a) /\ Has(e, "seed", b) /\ Has(e, "cancel", c) /\ Has(e, "after", g)
      /\ Has(e, "always", h) /\ Has(e, "busy", i) /\ Has(e, "place", "none") /\ Has(e, "unique", TRUE)
    BY PutTogether, FormPieces DEF Named
<1> HIDE DEF e
<1>2. FormSound(n, a, b, c, g, h, i, "none", TRUE) => FormSays(n, e)
    BY <1>1 DEF Has, FormSays
<1> QED BY <1>2 DEF e

LEMMA PlacedSays ==
    \A n, a, b, c, f, g, h, i, p :
        FormSound(n, a, b, c, g, h, i, p, FALSE) =>
            FormSays(n, Placed(Forms!Draft(a, b, c), p, Forms!Save(f, g), Forms!View(h, i)))
<1> SUFFICES ASSUME NEW n, NEW a, NEW b, NEW c, NEW f, NEW g, NEW h, NEW i, NEW p
             PROVE  LET e == Placed(Forms!Draft(a, b, c), p, Forms!Save(f, g), Forms!View(h, i))
                    IN  FormSound(n, a, b, c, g, h, i, p, FALSE) => FormSays(n, e)
    OBVIOUS
<1> DEFINE e == Placed(Forms!Draft(a, b, c), p, Forms!Save(f, g), Forms!View(h, i))
<1>1. /\ Has(e, "draft", a) /\ Has(e, "seed", b) /\ Has(e, "cancel", c) /\ Has(e, "after", g)
      /\ Has(e, "always", h) /\ Has(e, "busy", i) /\ Has(e, "place", p) /\ Has(e, "unique", FALSE)
    BY PutTogether, FormPieces DEF Placed
<1> HIDE DEF e
<1>2. FormSound(n, a, b, c, g, h, i, p, FALSE) => FormSays(n, e)
    BY <1>1 DEF Has, FormSays
<1> QED BY <1>2 DEF e

LEMMA SettingsSay == \A n \in DOMAIN Forms!SettingsForms : FormSays(n, Forms!SettingsForms[n])
<1> USE DEF FormSound, Forms!DropTyping, Forms!ReviveDrafts, Forms!AddAgain, Forms!GoAstray
<1>1. /\ FormSays("Subject", Usual(Forms!SubjectDraft, Forms!SubjectSave, Forms!SubjectView))
      /\ FormSays("Class", Usual(Forms!ClassDraft, Forms!ClassSave, Forms!ClassView))
      /\ FormSays("NewClass", Named(Forms!Draft("new", "mount", "keep"), Forms!NewClassSave, Forms!NewClassView))
      /\ FormSays("NewStream", Named(Forms!Draft("new", "mount", "keep"), Forms!NewStreamSave, Forms!ClassView))
      /\ FormSays("Stream", Usual(Forms!Draft("each", "mount", "keep"), Forms!Save(TRUE, "keep"), Forms!ClassView))
      /\ FormSays("User", Usual(Forms!UserDraft, Forms!UserSave, Forms!UserView))
    BY UsualSays, NamedSays, PlacedSays DEF Forms!SubjectDraft, Forms!SubjectSave, Forms!SubjectView,
       Forms!ClassDraft, Forms!ClassSave, Forms!ClassView, Forms!NewClassSave, Forms!NewClassView,
       Forms!NewStreamSave, Forms!StreamRename, Forms!UserDraft, Forms!UserSave, Forms!UserView
<1>2. /\ FormSays("NewUser", Usual(Forms!NewUserDraft, Forms!NewUserSave, Forms!NewUserView))
      /\ FormSays("Circular", Usual(Forms!CircularDraft, Forms!CircularSave, Forms!CircularView))
      /\ FormSays("Profile", Usual(Forms!ProfileDraft, Forms!ProfileSave, Forms!ProfileView))
      /\ FormSays("Layout", Usual(Forms!LayoutDraft, Forms!LayoutSave, Forms!LayoutView))
      /\ FormSays("NewYear", Named(Forms!Draft("new", "mount", "keep"), Forms!NewYearSave, Forms!NewYearView))
      /\ FormSays("Year", Placed(Forms!Draft("page", "row", "keep"), "reset", Forms!YearSave, Forms!YearView))
    BY UsualSays, NamedSays, PlacedSays DEF Forms!NewUserDraft, Forms!NewUserSave, Forms!NewUserView,
       Forms!CircularDraft, Forms!CircularSave, Forms!CircularView, Forms!ProfileDraft, Forms!ProfileSave,
       Forms!ProfileView, Forms!LayoutDraft, Forms!LayoutSave, Forms!LayoutView, Forms!NewYearSave,
       Forms!NewYearView, Forms!YearDraft, Forms!YearSave, Forms!YearView
<1>3. /\ FormSays("Term", Usual(Forms!TermDraft, Forms!TermSave, Forms!TermView))
      /\ FormSays("Event", Usual(Forms!EventDraft, Forms!EventSave, Forms!EventView))
      /\ FormSays("NewEvent", Placed(Forms!Draft("new", "mount", "keep"), "kept", Forms!NewEventSave, Forms!NewEventView))
      /\ FormSays("NewSection", Usual(Forms!NewSectionDraft, Forms!NewSectionSave, Forms!ChecklistView))
      /\ FormSays("NewRequirement", Usual(Forms!NewSectionDraft, Forms!NewRequirementSave, Forms!ChecklistView))
      /\ FormSays("Section", Usual(Forms!Draft("each", "open", "keep"), Forms!Save(FALSE, "keep"), Forms!ByLeaving))
    BY UsualSays, NamedSays, PlacedSays DEF Forms!TermDraft, Forms!TermSave, Forms!TermView,
       Forms!EventDraft, Forms!EventSave, Forms!EventView, Forms!NewEventDraft, Forms!NewEventSave,
       Forms!NewEventView, Forms!ChecklistView, Forms!NewSectionDraft, Forms!NewSectionSave,
       Forms!NewRequirementSave, Forms!ByLeaving, Forms!SectionDraft
<1>4. /\ FormSays("Requirement", Usual(Forms!Draft("each", "mount", "keep"), Forms!Save(FALSE, "keep"), Forms!ByLeaving))
      /\ FormSays("Band", Usual(Forms!BandDraft, Forms!BandSave, Forms!BandView))
      /\ FormSays("ScaleName", Usual(Forms!ScaleNameDraft, Forms!ScaleNameSave, Forms!View(TRUE, FALSE)))
      /\ FormSays("NewBand", Usual(Forms!NewBandDraft, Forms!NewBandSave, Forms!NewBandView))
      /\ FormSays("NewScale", Usual(Forms!NewScaleDraft, Forms!NewScaleSave, Forms!NewScaleView))
      /\ FormSays("Division", Usual(Forms!DivisionDraft, Forms!DivisionSave, Forms!DivisionView))
    BY UsualSays, NamedSays, PlacedSays DEF Forms!ByLeaving, Forms!RequirementDraft, Forms!BandDraft,
       Forms!BandSave, Forms!BandView, Forms!ScaleNameDraft, Forms!ScaleNameSave, Forms!NewBandDraft,
       Forms!NewBandSave, Forms!NewBandView, Forms!NewScaleDraft, Forms!NewScaleSave, Forms!NewScaleView,
       Forms!DivisionDraft, Forms!DivisionSave, Forms!DivisionView
<1>5. /\ FormSays("NewDivision", Usual(Forms!NewDivisionDraft, Forms!NewDivisionSave, Forms!NewDivisionView))
      /\ FormSays("Admin", Usual(Forms!AdminDraft, Forms!AdminSave, Forms!AdminView))
      /\ FormSays("NewAdmin", Named(Forms!NewAdminDraft, Forms!NewAdminSave, Forms!NewAdminView))
      /\ FormSays("School", Usual(Forms!SchoolDraft, Forms!SchoolSave, Forms!SchoolView))
      /\ FormSays("NewSchool", Named(Forms!NewSchoolDraft, Forms!NewSchoolSave, Forms!NewSchoolView))
    BY UsualSays, NamedSays, PlacedSays DEF Forms!NewDivisionDraft, Forms!NewDivisionSave,
       Forms!NewDivisionView, Forms!AdminDraft, Forms!AdminSave, Forms!AdminView, Forms!NewAdminDraft,
       Forms!NewAdminSave, Forms!NewAdminView, Forms!SchoolDraft, Forms!SchoolSave, Forms!SchoolView,
       Forms!NewSchoolDraft, Forms!NewSchoolSave, Forms!NewSchoolView
<1> HIDE DEF FormSound
<1>6. /\ FormSays("Subject", Forms!SettingsForms["Subject"])
      /\ FormSays("Class", Forms!SettingsForms["Class"])
      /\ FormSays("NewClass", Forms!SettingsForms["NewClass"])
      /\ FormSays("NewStream", Forms!SettingsForms["NewStream"])
      /\ FormSays("Stream", Forms!SettingsForms["Stream"])
      /\ FormSays("User", Forms!SettingsForms["User"])
    BY <1>1 DEF Usual, Named, Placed, Forms!SettingsForms, Forms!NewEventDraft, Forms!RequirementDraft,
       Forms!SectionDraft, Forms!StreamRename, Forms!YearDraft
<1>7. /\ FormSays("NewUser", Forms!SettingsForms["NewUser"])
      /\ FormSays("Circular", Forms!SettingsForms["Circular"])
      /\ FormSays("Profile", Forms!SettingsForms["Profile"])
      /\ FormSays("Layout", Forms!SettingsForms["Layout"])
      /\ FormSays("NewYear", Forms!SettingsForms["NewYear"])
      /\ FormSays("Year", Forms!SettingsForms["Year"])
    BY <1>2 DEF Usual, Named, Placed, Forms!SettingsForms, Forms!NewEventDraft, Forms!RequirementDraft,
       Forms!SectionDraft, Forms!StreamRename, Forms!YearDraft
<1>8. /\ FormSays("Term", Forms!SettingsForms["Term"])
      /\ FormSays("Event", Forms!SettingsForms["Event"])
      /\ FormSays("NewEvent", Forms!SettingsForms["NewEvent"])
      /\ FormSays("NewSection", Forms!SettingsForms["NewSection"])
      /\ FormSays("NewRequirement", Forms!SettingsForms["NewRequirement"])
      /\ FormSays("Section", Forms!SettingsForms["Section"])
    BY <1>3 DEF Usual, Named, Placed, Forms!SettingsForms, Forms!NewEventDraft, Forms!RequirementDraft,
       Forms!SectionDraft, Forms!StreamRename, Forms!YearDraft
<1>9. /\ FormSays("Requirement", Forms!SettingsForms["Requirement"])
      /\ FormSays("Band", Forms!SettingsForms["Band"])
      /\ FormSays("ScaleName", Forms!SettingsForms["ScaleName"])
      /\ FormSays("NewBand", Forms!SettingsForms["NewBand"])
      /\ FormSays("NewScale", Forms!SettingsForms["NewScale"])
      /\ FormSays("Division", Forms!SettingsForms["Division"])
    BY <1>4 DEF Usual, Named, Placed, Forms!SettingsForms, Forms!NewEventDraft, Forms!RequirementDraft,
       Forms!SectionDraft, Forms!StreamRename, Forms!YearDraft
<1>10. /\ FormSays("NewDivision", Forms!SettingsForms["NewDivision"])
      /\ FormSays("Admin", Forms!SettingsForms["Admin"])
      /\ FormSays("NewAdmin", Forms!SettingsForms["NewAdmin"])
      /\ FormSays("School", Forms!SettingsForms["School"])
      /\ FormSays("NewSchool", Forms!SettingsForms["NewSchool"])
    BY <1>5 DEF Usual, Named, Placed, Forms!SettingsForms, Forms!NewEventDraft, Forms!RequirementDraft,
       Forms!SectionDraft, Forms!StreamRename, Forms!YearDraft
<1>11. DOMAIN Forms!SettingsForms = {"Subject", "Class", "NewClass", "NewStream", "Stream", "User", "NewUser",
       "Circular", "Profile", "Layout", "NewYear", "Year", "Term", "Event", "NewEvent", "NewSection",
       "NewRequirement", "Section", "Requirement", "Band", "ScaleName", "NewBand", "NewScale", "Division",
       "NewDivision", "Admin", "NewAdmin", "School", "NewSchool"}
    BY DEF Forms!SettingsForms
<1> QED BY <1>6, <1>7, <1>8, <1>9, <1>10, <1>11

LEMMA LearnersSay == \A n \in DOMAIN Forms!LearnerTable : FormSays(n, Forms!LearnerTable[n])
<1> USE DEF FormSound, Forms!DropTyping, Forms!ReviveDrafts, Forms!AddAgain, Forms!GoAstray
<1>1. /\ FormSays("Info", Usual(Forms!InfoDraft, Forms!InfoSave, Forms!InfoView))
      /\ FormSays("Health", Usual(Forms!HealthDraft, Forms!HealthSave, Forms!HealthView))
      /\ FormSays("Guardian", Usual(Forms!GuardianDraft, Forms!GuardianSave, Forms!GuardianView))
      /\ FormSays("Discipline", Usual(Forms!DisciplineDraft, Forms!DisciplineSave, Forms!DisciplineView))
      /\ FormSays("Hostel", Usual(Forms!HostelDraft, Forms!HostelSave, Forms!HostelView))
      /\ FormSays("NewHostel", Usual(Forms!NewHostelDraft, Forms!NewHostelSave, Forms!NewHostelView))
    BY UsualSays, NamedSays, PlacedSays DEF Forms!InfoDraft, Forms!InfoSave, Forms!InfoView,
       Forms!HealthDraft, Forms!HealthSave, Forms!HealthView, Forms!GuardianDraft, Forms!GuardianSave,
       Forms!GuardianView, Forms!DisciplineDraft, Forms!DisciplineSave, Forms!DisciplineView,
       Forms!HostelDraft, Forms!HostelSave, Forms!HostelView, Forms!NewHostelDraft, Forms!NewHostelSave,
       Forms!NewHostelView
<1>2. /\ FormSays("NewRoom", Usual(Forms!NewRoomDraft, Forms!NewRoomSave, Forms!NewRoomView))
      /\ FormSays("Room", Usual(Forms!RoomDraft, Forms!RoomSave, Forms!RoomView))
      /\ FormSays("Application", Usual(Forms!ApplicationDraft, Forms!ApplicationSave, Forms!ApplicationView))
      /\ FormSays("Withdrawal", Placed(Forms!Draft("page", "open", "reset"), "kept", Forms!WithdrawalSave, Forms!WithdrawalView))
      /\ FormSays("Register", Placed(Forms!Draft("page", "row", "keep"), "reset", Forms!RegisterSave, Forms!RegisterView))
    BY UsualSays, NamedSays, PlacedSays DEF Forms!NewRoomDraft, Forms!NewRoomSave, Forms!NewRoomView,
       Forms!RoomDraft, Forms!RoomSave, Forms!RoomView, Forms!ApplicationDraft, Forms!ApplicationSave,
       Forms!ApplicationView, Forms!WithdrawalDraft, Forms!WithdrawalSave, Forms!WithdrawalView,
       Forms!RegisterDraft, Forms!RegisterSave, Forms!RegisterView
<1> HIDE DEF FormSound
<1>3. /\ FormSays("Info", Forms!LearnerTable["Info"])
      /\ FormSays("Health", Forms!LearnerTable["Health"])
      /\ FormSays("Guardian", Forms!LearnerTable["Guardian"])
      /\ FormSays("Discipline", Forms!LearnerTable["Discipline"])
      /\ FormSays("Hostel", Forms!LearnerTable["Hostel"])
      /\ FormSays("NewHostel", Forms!LearnerTable["NewHostel"])
    BY <1>1 DEF Usual, Named, Placed, Forms!LearnerTable, Forms!RegisterDraft, Forms!WithdrawalDraft
<1>4. /\ FormSays("NewRoom", Forms!LearnerTable["NewRoom"])
      /\ FormSays("Room", Forms!LearnerTable["Room"])
      /\ FormSays("Application", Forms!LearnerTable["Application"])
      /\ FormSays("Withdrawal", Forms!LearnerTable["Withdrawal"])
      /\ FormSays("Register", Forms!LearnerTable["Register"])
    BY <1>2 DEF Usual, Named, Placed, Forms!LearnerTable, Forms!RegisterDraft, Forms!WithdrawalDraft
<1>5. DOMAIN Forms!LearnerTable = {"Info", "Health", "Guardian", "Discipline", "Hostel", "NewHostel", "NewRoom",
       "Room", "Application", "Withdrawal", "Register"}
    BY DEF Forms!LearnerTable
<1> QED BY <1>3, <1>4, <1>5

LEMMA OfficesSay == \A n \in DOMAIN Forms!OfficeTable : FormSays(n, Forms!OfficeTable[n])
<1> USE DEF FormSound, Forms!DropTyping, Forms!ReviveDrafts, Forms!AddAgain, Forms!GoAstray
<1>1. /\ FormSays("Line", Usual(Forms!LineDraft, Forms!LineSave, Forms!LineView))
      /\ FormSays("NewLine", Usual(Forms!Draft("new", "mount", "keep"), Forms!NewLineSave, Forms!NewLineView))
      /\ FormSays("Structure", Usual(Forms!StructureDraft, Forms!StructureSave, Forms!StructureView))
      /\ FormSays("NewStructure", Usual(Forms!Draft("new", "mount", "keep"), Forms!NewStructureSave, Forms!NewStructureView))
      /\ FormSays("Payment", Placed(Forms!Draft("new", "open", "reset"), "kept", Forms!PaymentSave, Forms!PaymentView))
      /\ FormSays("Set", Usual(Forms!SetDraft, Forms!SetSave, Forms!SetView))
    BY UsualSays, NamedSays, PlacedSays DEF Forms!LineDraft, Forms!LineSave, Forms!LineView,
       Forms!NewLineSave, Forms!NewLineView, Forms!StructureDraft, Forms!StructureSave, Forms!StructureView,
       Forms!NewStructureSave, Forms!NewStructureView, Forms!PaymentDraft, Forms!PaymentSave,
       Forms!PaymentView, Forms!SetDraft, Forms!SetSave, Forms!SetView
<1>2. /\ FormSays("NewSet", Usual(Forms!NewSetDraft, Forms!NewSetSave, Forms!NewSetView))
      /\ FormSays("Ca", Usual(Forms!CaDraft, Forms!CaSave, Forms!View(TRUE, TRUE)))
      /\ FormSays("Lesson", Usual(Forms!LessonDraft, Forms!LessonSave, Forms!LessonView))
      /\ FormSays("Assignment", Usual(Forms!AssignmentDraft, Forms!AssignmentSave, Forms!AssignmentView))
      /\ FormSays("Teacher", Named(Forms!TeacherDraft, Forms!TeacherSave, Forms!TeacherView))
      /\ FormSays("NewAssignment", Named(Forms!NewAssignmentDraft, Forms!NewAssignmentSave, Forms!NewAssignmentView))
    BY UsualSays, NamedSays, PlacedSays DEF Forms!NewSetDraft, Forms!NewSetSave, Forms!NewSetView,
       Forms!CaDraft, Forms!CaSave, Forms!LessonDraft, Forms!LessonSave, Forms!LessonView,
       Forms!AssignmentDraft, Forms!AssignmentSave, Forms!AssignmentView, Forms!TeacherDraft,
       Forms!TeacherSave, Forms!TeacherView, Forms!NewAssignmentDraft, Forms!NewAssignmentSave,
       Forms!NewAssignmentView
<1>3. /\ FormSays("Candidate", Usual(Forms!CandidateDraft, Forms!CandidateSave, Forms!CandidateView))
      /\ FormSays("Employee", Usual(Forms!EmployeeDraft, Forms!EmployeeSave, Forms!EmployeeView))
      /\ FormSays("Run", Named(Forms!RunDraft, Forms!RunSave, Forms!RunView))
      /\ FormSays("Leave", Usual(Forms!LeaveDraft, Forms!LeaveSave, Forms!LeaveView))
    BY UsualSays, NamedSays, PlacedSays DEF Forms!CandidateDraft, Forms!CandidateSave,
       Forms!CandidateView, Forms!EmployeeDraft, Forms!EmployeeSave, Forms!EmployeeView, Forms!RunDraft,
       Forms!RunSave, Forms!RunView, Forms!LeaveDraft, Forms!LeaveSave, Forms!LeaveView
<1> HIDE DEF FormSound
<1>4. /\ FormSays("Line", Forms!OfficeTable["Line"])
      /\ FormSays("NewLine", Forms!OfficeTable["NewLine"])
      /\ FormSays("Structure", Forms!OfficeTable["Structure"])
      /\ FormSays("NewStructure", Forms!OfficeTable["NewStructure"])
      /\ FormSays("Payment", Forms!OfficeTable["Payment"])
      /\ FormSays("Set", Forms!OfficeTable["Set"])
    BY <1>1 DEF Usual, Named, Placed, Forms!OfficeTable, Forms!PaymentDraft
<1>5. /\ FormSays("NewSet", Forms!OfficeTable["NewSet"])
      /\ FormSays("Ca", Forms!OfficeTable["Ca"])
      /\ FormSays("Lesson", Forms!OfficeTable["Lesson"])
      /\ FormSays("Assignment", Forms!OfficeTable["Assignment"])
      /\ FormSays("Teacher", Forms!OfficeTable["Teacher"])
      /\ FormSays("NewAssignment", Forms!OfficeTable["NewAssignment"])
    BY <1>2 DEF Usual, Named, Placed, Forms!OfficeTable, Forms!PaymentDraft
<1>6. /\ FormSays("Candidate", Forms!OfficeTable["Candidate"])
      /\ FormSays("Employee", Forms!OfficeTable["Employee"])
      /\ FormSays("Run", Forms!OfficeTable["Run"])
      /\ FormSays("Leave", Forms!OfficeTable["Leave"])
    BY <1>3 DEF Usual, Named, Placed, Forms!OfficeTable, Forms!PaymentDraft
<1>7. DOMAIN Forms!OfficeTable = {"Line", "NewLine", "Structure", "NewStructure", "Payment", "Set", "NewSet",
       "Ca", "Lesson", "Assignment", "Teacher", "NewAssignment", "Candidate", "Employee", "Run", "Leave"}
    BY DEF Forms!OfficeTable
<1> QED BY <1>4, <1>5, <1>6, <1>7

LEMMA FormTable == \A n \in DOMAIN Forms!Forms : FormSays(n, Forms!Forms[n])
<1> SUFFICES ASSUME NEW n \in DOMAIN Forms!Forms PROVE FormSays(n, Forms!Forms[n])
    OBVIOUS
<1>1. \/ n \in DOMAIN Forms!SettingsForms /\ Forms!Forms[n] = Forms!SettingsForms[n]
      \/ n \in DOMAIN Forms!LearnerTable /\ Forms!Forms[n] = Forms!LearnerTable[n]
      \/ n \in DOMAIN Forms!OfficeTable /\ Forms!Forms[n] = Forms!OfficeTable[n]
    BY DEF Forms!Forms, Forms!@@
<1> QED BY <1>1, SettingsSay, LearnersSay, OfficesSay

FormDrafts == [open : BOOLEAN, typed : BOOLEAN, used : BOOLEAN, base : 1..2, place : 1..2]
FormScreens == [form : DOMAIN Forms!Forms, place : 1..2, shown : 1..2, draft : [Forms!Drafts -> FormDrafts]]
FormCalls == [Forms!Drafts -> [at : {"none", "sent", "again", "done", "refused"}, base : 1..2, place : 1..2]]
FormPasts == [lost : BOOLEAN, dropped : BOOLEAN, revived : BOOLEAN, astray : BOOLEAN, meant : 0..2]

FormShape ==
    /\ screen \in FormScreens /\ calls \in FormCalls
    /\ rows \in [a : 1..2, made : 0..3] /\ past \in FormPasts

\* A new row is only drafted in a form that can hold one.
FormHolds(s) == s.draft["new"].open => Forms!Forms[s.form].draft \in {"both", "new"}

\* A form that is closed opens with the row as it is known.
FormCloses(s) ==
    ~Forms!Forms[s.form].always /\ s.form \notin Forms!ReviveDrafts /\ Forms!Forms[s.form].seed # "open" =>
        \A d \in Forms!Drafts : ~s.draft[d].open =>
            ~s.draft[d].typed /\ s.draft[d].base >= IF d = "a" THEN s.shown ELSE 1

\* What is typed is for the place the screen looks at.
FormPlaced(s) ==
    s.form \notin Forms!GoAstray =>
        /\ Forms!Forms[s.form].place = "none" => s.place = 1
        /\ \A d \in Forms!Drafts : s.draft[d].place = s.place

\* What is on its way or refused was meant and is not added yet.
FormAdds(s, c, made, p) ==
    LET e == Forms!Forms[s.form]
    IN  /\ c["new"].at # "none" => e.draft \in {"both", "new"} /\ c["new"].at # "again"
        /\ s.draft["new"].used \/ c["new"].at # "none" => p.meant >= 1
        /\ ~p.lost /\ s.form \notin Forms!AddAgain =>
              /\ made <= p.meant
              /\ e.unique => made <= 1
              /\ ~e.unique /\ (c["new"].at \in {"sent", "refused"} \/ (c["new"].at = "none" /\ s.draft["new"].used))
                    => made < p.meant

FormExcused(s, p) ==
    /\ p.dropped => s.form \in Forms!DropTyping
    /\ p.revived => s.form \in Forms!ReviveDrafts
    /\ p.astray => s.form \in Forms!GoAstray

FormInv ==
    /\ FormShape
    /\ FormHolds(screen) /\ FormCloses(screen) /\ FormPlaced(screen)
    /\ FormAdds(screen, calls, rows.made, past) /\ FormExcused(screen, past)

LEMMA FormIsFine ==
    FormInv => /\ Forms!TypeOK /\ Forms!TypedIsKept /\ Forms!OpensAsShown
               /\ Forms!FilledOnceAddedOnce /\ Forms!SavedWhereShown
<1> SUFFICES ASSUME FormInv
             PROVE  /\ Forms!TypeOK /\ Forms!TypedIsKept /\ Forms!OpensAsShown
                    /\ Forms!FilledOnceAddedOnce /\ Forms!SavedWhereShown
    OBVIOUS
<1>1. Forms!TypeOK
    BY DEF FormInv, FormShape, FormScreens, FormDrafts, FormCalls, FormPasts, Forms!TypeOK, Forms!MaxAdded
<1>2. Forms!TypedIsKept /\ Forms!OpensAsShown /\ Forms!SavedWhereShown
    BY DEF FormInv, FormExcused, Forms!TypedIsKept, Forms!OpensAsShown, Forms!SavedWhereShown
<1>3. Forms!FilledOnceAddedOnce
    BY DEF FormInv, FormShape, FormPasts, FormAdds, Forms!FilledOnceAddedOnce
<1> QED BY <1>1, <1>2, <1>3

LEMMA ClosedShape ==
    /\ Forms!Closed \in FormDrafts /\ Forms!Closed.place = 1 /\ ~Forms!Closed.open /\ ~Forms!Closed.typed
    /\ ~Forms!Closed.used /\ Forms!Closed.base = 1
<1>1. 1 \in 1..2
    OBVIOUS
<1> QED BY <1>1 DEF FormDrafts, Forms!Closed

LEMMA FormStarts == Forms!Init => FormInv
<1> SUFFICES ASSUME Forms!Init PROVE FormInv
    OBVIOUS
<1>1. PICK f \in DOMAIN Forms!Forms :
          screen = [form |-> f, place |-> 1, shown |-> 1,
                    draft |-> [d \in Forms!Drafts |->
                        [Forms!Closed EXCEPT !.open = Forms!Forms[f].always /\ d \in Forms!Held(Forms!Forms[f])]]]
    BY DEF Forms!Init
<1> DEFINE shows(d) == Forms!Forms[f].always /\ d \in Forms!Held(Forms!Forms[f])
           draft(d) == [Forms!Closed EXCEPT !.open = shows(d)]
<1>2. ASSUME NEW d \in Forms!Drafts
      PROVE  /\ draft(d) \in FormDrafts /\ draft(d).open = shows(d) /\ draft(d).place = 1
             /\ ~draft(d).typed /\ ~draft(d).used /\ draft(d).base = 1
    <2>1. shows(d) \in BOOLEAN
        OBVIOUS
    <2> HIDE DEF shows
    <2> QED BY <2>1, ClosedShape DEF FormDrafts
<1>3. /\ screen.form = f /\ screen.place = 1 /\ screen.shown = 1
      /\ \A d \in Forms!Drafts : screen.draft[d] = draft(d)
    BY <1>1
<1>4. screen \in FormScreens
    <2>1. 1 \in 1..2
        OBVIOUS
    <2>2. [d \in Forms!Drafts |-> draft(d)] \in [Forms!Drafts -> FormDrafts]
        BY <1>2
    <2> QED BY <1>1, <2>1, <2>2 DEF FormScreens
<1>5. FormShape
    BY <1>4 DEF FormShape, Forms!Init, FormCalls, FormPasts
<1> HIDE DEF draft
<1>6. shows("new") => Forms!Forms[f].draft \in {"both", "new"}
    <2>1. FormSays(f, Forms!Forms[f])
        BY FormTable
    <2> QED BY <2>1 DEF FormSays, FormSound, Forms!Held, Forms!Rows
<1> HIDE DEF shows
<1>7. FormHolds(screen)
    BY <1>2, <1>3, <1>6 DEF FormHolds, Forms!Drafts
<1>8. FormCloses(screen) /\ FormPlaced(screen)
    BY <1>2, <1>3 DEF FormCloses, FormPlaced
<1>9. FormAdds(screen, calls, rows.made, past) /\ FormExcused(screen, past)
    <2>1. /\ calls["new"].at = "none" /\ rows.made = 0 /\ past.meant = 0
          /\ ~past.dropped /\ ~past.revived /\ ~past.astray /\ "new" \in Forms!Drafts
        BY DEF Forms!Init, Forms!Drafts
    <2>2. ~screen.draft["new"].used
        BY <1>2, <1>3, <2>1
    <2> QED BY <2>1, <2>2 DEF FormAdds, FormExcused
<1> QED BY <1>5, <1>7, <1>8, <1>9 DEF FormInv

FormStates == {"none", "sent", "again", "done", "refused"}

Moved(c, d, at) == [c EXCEPT ![d].at = at]

LEMMA CallFacts ==
    ASSUME NEW c \in FormCalls, NEW d \in Forms!Drafts, NEW at \in FormStates
    PROVE  Moved(c, d, at) \in FormCalls /\ Moved(c, d, at)["new"].at = IF d = "new" THEN at ELSE c["new"].at
<1>1. c[d] \in [at : FormStates, base : 1..2, place : 1..2]
    BY DEF FormCalls, FormStates
<1> DEFINE w == [c[d] EXCEPT !.at = at]
<1>2. w \in [at : FormStates, base : 1..2, place : 1..2] /\ w.at = at
    BY <1>1
<1> DEFINE v == Moved(c, d, at)
<1>3. v = [c EXCEPT ![d] = w]
    BY DEF Moved
<1> HIDE DEF v, w
<1>4. v \in FormCalls
    BY <1>2, <1>3 DEF FormCalls, FormStates
<1>5. "new" \in Forms!Drafts
    BY DEF Forms!Drafts
<1>6. v["new"].at = IF d = "new" THEN at ELSE c["new"].at
    BY <1>2, <1>3, <1>5 DEF FormCalls
<1> QED BY <1>4, <1>6 DEF v

\* What a form's table says, and what its draft and its request of a new row may be.
LEMMA FormNow ==
    ASSUME FormInv
    PROVE  /\ screen.form \in DOMAIN Forms!Forms /\ FormSays(screen.form, Forms!Forms[screen.form])
           /\ screen.place \in 1..2 /\ screen.shown \in 1..2 /\ "new" \in Forms!Drafts /\ "a" \in Forms!Drafts
           /\ \A d \in Forms!Drafts : screen.draft[d] \in FormDrafts
           /\ \A d \in Forms!Drafts : calls[d] \in [at : FormStates, base : 1..2, place : 1..2]
           /\ rows.a \in 1..2 /\ rows.made \in 0..3
           /\ past.lost \in BOOLEAN /\ past.dropped \in BOOLEAN /\ past.revived \in BOOLEAN
           /\ past.astray \in BOOLEAN /\ past.meant \in 0..2
<1>1. screen.form \in DOMAIN Forms!Forms
    BY DEF FormInv, FormShape, FormScreens
<1>2. FormSays(screen.form, Forms!Forms[screen.form])
    BY <1>1, FormTable
<1>3. screen.place \in 1..2 /\ screen.shown \in 1..2 /\ "new" \in Forms!Drafts /\ "a" \in Forms!Drafts
    BY DEF FormInv, FormShape, FormScreens, Forms!Drafts, Forms!Rows
<1>4. \A d \in Forms!Drafts : screen.draft[d] \in FormDrafts
    BY DEF FormInv, FormShape, FormScreens
<1>5. \A d \in Forms!Drafts : calls[d] \in [at : FormStates, base : 1..2, place : 1..2]
    BY DEF FormInv, FormShape, FormCalls, FormStates
<1>6. /\ rows.a \in 1..2 /\ rows.made \in 0..3
      /\ past.lost \in BOOLEAN /\ past.dropped \in BOOLEAN /\ past.revived \in BOOLEAN
      /\ past.astray \in BOOLEAN /\ past.meant \in 0..2
    BY DEF FormInv, FormShape, FormPasts
<1> QED BY <1>1, <1>2, <1>3, <1>4, <1>5, <1>6

\* The screen stays as it is.
LEMMA SameScreen ==
    ASSUME FormInv, screen' = screen, FormShape', past' = [past EXCEPT !.lost = past'.lost],
           FormAdds(screen, calls', rows'.made, past')
    PROVE  FormInv'
<1>1. past'.dropped = past.dropped /\ past'.revived = past.revived /\ past'.astray = past.astray
    BY DEF FormInv, FormShape, FormPasts
<1> QED BY <1>1 DEF FormInv, FormHolds, FormCloses, FormPlaced, FormExcused, FormAdds

LEMMA FormApplies == ASSUME FormInv, NEW d \in Forms!Drafts, Forms!Apply(d) PROVE FormInv'
<1> DEFINE e == Forms!Forms[screen.form]
           refused == d = "new" /\ e.unique /\ rows.made > 0
           at == IF refused THEN "refused" ELSE IF calls[d].at = "again" THEN "sent" ELSE "done"
           made == IF d = "new" /\ ~refused /\ rows.made < 3 THEN rows.made + 1 ELSE rows.made
<1>1. calls[d].at \in {"sent", "again"} /\ screen' = screen /\ past' = past
    BY DEF Forms!Apply
<1>2. calls' = Moved(calls, d, at)
    <2>1. CASE refused
        BY <2>1 DEF Forms!Apply, Forms!Form, Moved
    <2>2. CASE ~refused
        BY <2>2 DEF Forms!Apply, Forms!Form, Moved
    <2> QED BY <2>1, <2>2
<1>3. rows' \in [a : 1..2, made : 0..3] /\ rows'.made = made
    <2>1. CASE refused
        BY <2>1 DEF Forms!Apply, Forms!Form, FormInv, FormShape
    <2>2. CASE ~refused
        <3>1. rows' = [rows EXCEPT !.a = IF d = "a" THEN 2 ELSE @,
                                   !.made = IF d = "new" /\ @ < 3 THEN @ + 1 ELSE @]
            BY <2>2 DEF Forms!Apply, Forms!Form
        <3>2. rows \in [a : 1..2, made : 0..3]
            BY DEF FormInv, FormShape
        <3>3. rows.made \in 0..3 /\ (rows.made < 3 => rows.made + 1 \in 0..3) /\ 2 \in 1..2
            BY <3>2
        <3> QED BY <2>2, <3>1, <3>2, <3>3
    <2> QED BY <2>1, <2>2
<1>4. at \in FormStates /\ calls \in FormCalls
    BY DEF FormStates, FormInv, FormShape
<1> HIDE DEF at
<1>5. calls' \in FormCalls /\ calls'["new"].at = IF d = "new" THEN at ELSE calls["new"].at
    BY <1>2, <1>4, CallFacts
<1>6. FormShape'
    BY <1>1, <1>3, <1>5 DEF FormInv, FormShape
<1>7. FormAdds(screen, calls', rows'.made, past')
    <2>1. FormAdds(screen, calls, rows.made, past)
        BY DEF FormInv
    <2>2. CASE d # "new"
        BY <1>1, <1>3, <1>5, <2>1, <2>2 DEF FormAdds
    <2>3. CASE d = "new"
        BY <1>1, <1>3, <1>5, <2>1, <2>3, FormNow DEF FormAdds, at
    <2> QED BY <2>2, <2>3
<1>8. past' = [past EXCEPT !.lost = past'.lost]
    BY <1>1 DEF FormInv, FormShape, FormPasts
<1> QED BY <1>1, <1>6, <1>7, <1>8, SameScreen

LEMMA FormRefuses == ASSUME FormInv, NEW d \in Forms!Drafts, Forms!Refuse(d) PROVE FormInv'
<1>1. /\ calls[d].at = "sent" /\ calls' = Moved(calls, d, "refused")
      /\ screen' = screen /\ past' = past /\ rows' = rows
    BY DEF Forms!Refuse, Moved
<1>2. calls' \in FormCalls /\ calls'["new"].at = IF d = "new" THEN "refused" ELSE calls["new"].at
    BY <1>1, CallFacts DEF FormStates, FormInv, FormShape
<1>3. FormShape'
    BY <1>1, <1>2 DEF FormInv, FormShape
<1>4. FormAdds(screen, calls', rows'.made, past')
    BY <1>1, <1>2 DEF FormInv, FormAdds
<1>5. past' = [past EXCEPT !.lost = past'.lost]
    BY <1>1 DEF FormInv, FormShape, FormPasts
<1> QED BY <1>1, <1>3, <1>4, <1>5, SameScreen

LEMMA FormFails == ASSUME FormInv, NEW d \in Forms!Drafts, Forms!NotSaved(d) PROVE FormInv'
<1>1. /\ calls[d].at \in {"sent", "done", "refused"} /\ calls' = Moved(calls, d, "none")
      /\ screen' = screen /\ rows' = rows
      /\ past' = [past EXCEPT !.lost = past.lost \/ calls[d].at # "refused"]
    BY DEF Forms!NotSaved, Moved
<1>2. calls' \in FormCalls /\ calls'["new"].at = IF d = "new" THEN "none" ELSE calls["new"].at
    BY <1>1, CallFacts DEF FormStates, FormInv, FormShape
<1> DEFINE lost == past.lost \/ calls[d].at # "refused"
<1>3. lost \in BOOLEAN
    OBVIOUS
<1>4. (lost = TRUE) <=> (past.lost = TRUE \/ calls[d].at # "refused")
    BY FormNow
<1> HIDE DEF lost
<1>5. past' = [past EXCEPT !.lost = lost]
    BY <1>1 DEF lost
<1>6. past' \in FormPasts /\ past'.lost = lost /\ past'.meant = past.meant /\ past' = [past EXCEPT !.lost = past'.lost]
    BY <1>3, <1>5 DEF FormInv, FormShape, FormPasts
<1>7. FormShape'
    BY <1>1, <1>2, <1>6 DEF FormInv, FormShape
<1>8. FormAdds(screen, calls', rows'.made, past')
    BY <1>1, <1>2, <1>3, <1>4, <1>6, FormNow DEF FormInv, FormAdds
<1> QED BY <1>1, <1>6, <1>7, <1>8, SameScreen

LEMMA FormOthers == ASSUME FormInv, Forms!Others PROVE FormInv'
<1>1. screen' = screen /\ calls' = calls /\ past' = past /\ rows' = [rows EXCEPT !.a = 2]
    BY DEF Forms!Others
<1>2. rows' \in [a : 1..2, made : 0..3] /\ rows'.made = rows.made
    BY <1>1 DEF FormInv, FormShape
<1>3. FormShape'
    BY <1>1, <1>2 DEF FormInv, FormShape
<1>4. past' = [past EXCEPT !.lost = past'.lost]
    BY <1>1 DEF FormInv, FormShape, FormPasts
<1> QED BY <1>1, <1>2, <1>3, <1>4, SameScreen DEF FormInv

\* The screen with one draft, or all of them, put in the place of what was there.
Redrafted(s, draft) == [s EXCEPT !.draft = draft]

LEMMA ScreenFacts ==
    ASSUME FormInv, NEW draft \in [Forms!Drafts -> FormDrafts]
    PROVE  LET v == Redrafted(screen, draft)
           IN  v \in FormScreens /\ v.form = screen.form /\ v.place = screen.place /\ v.shown = screen.shown
               /\ v.draft = draft
BY DEF FormInv, FormShape, FormScreens, Redrafted

LEMMA OneDraft ==
    ASSUME FormInv, NEW d \in Forms!Drafts, NEW x \in FormDrafts
    PROVE  LET draft == [screen.draft EXCEPT ![d] = x]
           IN  draft \in [Forms!Drafts -> FormDrafts] /\ \A e \in Forms!Drafts : draft[e] = IF e = d THEN x ELSE screen.draft[e]
BY DEF FormInv, FormShape, FormScreens

LEMMA FormTypes == ASSUME FormInv, NEW d \in Forms!Drafts, Forms!Type(d) PROVE FormInv'
<1> DEFINE place == IF Forms!Form.place = "kept" THEN screen.draft[d].place ELSE screen.place
           x == [screen.draft[d] EXCEPT !.typed = TRUE, !.used = FALSE, !.place = place]
           draft == [screen.draft EXCEPT ![d] = x]
<1>1. screen.draft[d].open /\ calls' = calls /\ rows' = rows /\ past' = past
    BY DEF Forms!Type
<1>2. screen' = Redrafted(screen, draft)
    BY DEF Forms!Type, Redrafted
<1>3. place \in 1..2 /\ (screen.form \notin Forms!GoAstray => place = screen.place)
    BY FormNow DEF FormDrafts, FormSays, FormSound, Forms!Form
<1>4. /\ x \in FormDrafts /\ x.open = screen.draft[d].open /\ x.place = place /\ ~x.used
    <2> HIDE DEF place
    <2> DEFINE y == x
    <2>1. y = [screen.draft[d] EXCEPT !.typed = TRUE, !.used = FALSE, !.place = place]
        OBVIOUS
    <2> HIDE DEF y
    <2>2. y \in FormDrafts /\ y.open = screen.draft[d].open /\ y.place = place /\ ~y.used
        BY <1>3, <2>1, FormNow DEF FormDrafts
    <2> QED BY <2>2 DEF y
<1> HIDE DEF x, place
<1>5. draft \in [Forms!Drafts -> FormDrafts] /\ \A e \in Forms!Drafts : draft[e] = IF e = d THEN x ELSE screen.draft[e]
    BY <1>4, OneDraft
<1> HIDE DEF draft
<1>6. /\ screen' \in FormScreens /\ screen'.form = screen.form /\ screen'.place = screen.place
      /\ screen'.shown = screen.shown /\ screen'.draft = draft
    BY <1>2, <1>5, ScreenFacts
<1>7. FormShape' /\ FormExcused(screen', past')
    BY <1>1, <1>6 DEF FormInv, FormShape, FormExcused
<1>8. FormHolds(screen')
    BY <1>4, <1>5, <1>6, FormNow DEF FormInv, FormHolds
<1>9. FormCloses(screen')
    <2>1. \A e \in Forms!Drafts : ~draft[e].open => ~screen.draft[e].open /\ draft[e] = screen.draft[e]
        BY <1>1, <1>4, <1>5
    <2>2. FormCloses(screen)
        BY DEF FormInv
    <2> QED BY <1>6, <2>1, <2>2 DEF FormCloses
<1>10. FormPlaced(screen')
    BY <1>3, <1>4, <1>5, <1>6 DEF FormInv, FormPlaced
<1>11. FormAdds(screen', calls', rows'.made, past')
    <2>1. screen'.draft["new"].used => screen.draft["new"].used
        BY <1>4, <1>5, <1>6, FormNow
    <2> QED BY <1>1, <1>6, <2>1 DEF FormInv, FormAdds
<1> QED BY <1>7, <1>8, <1>9, <1>10, <1>11 DEF FormInv

LEMMA FormCancels == ASSUME FormInv, NEW d \in Forms!Drafts, Forms!Cancel(d) PROVE FormInv'
<1> DEFINE kept == [screen.draft[d] EXCEPT !.open = FALSE]
           reset == [Forms!Closed EXCEPT !.base = Forms!Known(d)]
           x == IF Forms!Form.cancel = "keep" THEN kept ELSE reset
           draft == [screen.draft EXCEPT ![d] = x]
<1>1. ~Forms!Form.always /\ screen.draft[d].open /\ calls' = calls /\ rows' = rows /\ past' = past
    BY DEF Forms!Cancel
<1>2. screen' = Redrafted(screen, draft)
    BY DEF Forms!Cancel, Redrafted
<1>3. /\ kept \in FormDrafts /\ ~kept.open /\ kept.place = screen.draft[d].place /\ kept.used = screen.draft[d].used
      /\ reset \in FormDrafts /\ ~reset.open /\ reset.place = 1 /\ ~reset.used /\ ~reset.typed
      /\ reset.base = Forms!Known(d)
    <2>1. Forms!Known(d) \in 1..2
        BY FormNow DEF Forms!Known
    <2> QED BY <2>1, FormNow, ClosedShape DEF FormDrafts
<1> HIDE DEF kept, reset
<1>4. x \in FormDrafts /\ ~x.open /\ (x.used => screen.draft[d].used)
    BY <1>3
<1>5. draft \in [Forms!Drafts -> FormDrafts] /\ \A e \in Forms!Drafts : draft[e] = IF e = d THEN x ELSE screen.draft[e]
    BY <1>4, OneDraft
<1>6. FormSays(screen.form, Forms!Form)
    BY FormNow DEF Forms!Form
<1>7. screen.form \notin Forms!GoAstray => x.place = screen.place
    <2>1. screen.form \notin Forms!GoAstray => screen.place = 1 /\ screen.draft[d].place = screen.place
        BY <1>1, <1>6 DEF FormInv, FormPlaced, FormSays, FormSound, Forms!Form
    <2> QED BY <1>3, <2>1
<1>8. screen.form \notin Forms!ReviveDrafts /\ Forms!Form.seed # "open" => x = reset
    BY <1>1, <1>6 DEF FormSays, FormSound
<1> HIDE DEF x, draft
<1>9. /\ screen' \in FormScreens /\ screen'.form = screen.form /\ screen'.place = screen.place
      /\ screen'.shown = screen.shown /\ screen'.draft = draft
    BY <1>2, <1>5, ScreenFacts
<1>10. FormShape' /\ FormExcused(screen', past')
    BY <1>1, <1>9 DEF FormInv, FormShape, FormExcused
<1>11. FormHolds(screen')
    BY <1>4, <1>5, <1>9, FormNow DEF FormInv, FormHolds
<1>12. FormCloses(screen')
    <2>1. FormCloses(screen)
        BY DEF FormInv
    <2>2. Forms!Known(d) >= IF d = "a" THEN screen.shown ELSE 1
        BY FormNow DEF Forms!Known
    <2>3. screen.form \notin Forms!ReviveDrafts /\ Forms!Form.seed # "open" =>
              ~draft[d].typed /\ draft[d].base >= IF d = "a" THEN screen.shown ELSE 1
        BY <1>3, <1>5, <1>8, <2>2
    <2> QED BY <1>5, <1>9, <2>1, <2>3 DEF FormCloses, Forms!Form
<1>13. FormPlaced(screen')
    BY <1>5, <1>7, <1>9 DEF FormInv, FormPlaced
<1>14. FormAdds(screen', calls', rows'.made, past')
    <2>1. screen'.draft["new"].used => screen.draft["new"].used
        BY <1>4, <1>5, <1>9, FormNow
    <2> QED BY <1>1, <1>9, <2>1 DEF FormInv, FormAdds
<1> QED BY <1>10, <1>11, <1>12, <1>13, <1>14 DEF FormInv

LEMMA FormPresses == ASSUME FormInv, NEW d \in Forms!Drafts, Forms!Press(d) PROVE FormInv'
<1> DEFINE x == [screen.draft[d] EXCEPT !.used = TRUE]
           draft == [screen.draft EXCEPT ![d] = x]
           fresh == d = "new" /\ ~screen.draft[d].used
           astray == past.astray \/ screen.draft[d].place # screen.place
           meant == IF fresh THEN past.meant + 1 ELSE past.meant
<1>1. /\ screen.draft[d].open /\ rows' = rows /\ (fresh => past.meant < 2)
      /\ past' = [past EXCEPT !.astray = astray, !.meant = meant]
    BY DEF Forms!Press, Forms!MaxAdded
<1>2. screen' = Redrafted(screen, draft)
    BY DEF Forms!Press, Redrafted
<1>4. /\ x \in FormDrafts /\ x.open = screen.draft[d].open /\ x.place = screen.draft[d].place
    BY FormNow DEF FormDrafts
<1> HIDE DEF x
<1>5. draft \in [Forms!Drafts -> FormDrafts] /\ \A e \in Forms!Drafts : draft[e] = IF e = d THEN x ELSE screen.draft[e]
    BY <1>4, OneDraft
<1> HIDE DEF draft
<1>6. /\ screen' \in FormScreens /\ screen'.form = screen.form /\ screen'.place = screen.place
      /\ screen'.shown = screen.shown /\ screen'.draft = draft
    BY <1>2, <1>5, ScreenFacts
<1>7. astray \in BOOLEAN /\ meant \in 0..2
    BY <1>1, FormNow
<1>8. (astray = TRUE) <=> (past.astray = TRUE \/ screen.draft[d].place # screen.place)
    BY FormNow
<1> HIDE DEF astray, meant
<1>9. /\ past' \in FormPasts /\ past'.astray = astray /\ past'.meant = meant /\ past'.lost = past.lost
      /\ past'.dropped = past.dropped /\ past'.revived = past.revived
    BY <1>1, <1>7 DEF FormInv, FormShape, FormPasts
<1>10. FormSays(screen.form, Forms!Form)
    BY FormNow DEF Forms!Form
<1>11. d = "new" => Forms!Form.draft \in {"both", "new"} /\ Forms!Form.busy
    BY <1>1, <1>10 DEF FormInv, FormHolds, FormSays, FormSound, Forms!Form
<1>12. /\ calls' \in FormCalls
       /\ d # "new" => calls'["new"] = calls["new"]
       /\ d = "new" => calls["new"].at = "none" /\ calls'["new"].at = "sent"
    <2>1. calls \in FormCalls
        BY DEF FormInv, FormShape
    <2>2. CASE /\ calls[d].at = "none"
               /\ calls' = [calls EXCEPT ![d] = [at |-> "sent", base |-> screen.draft[d].base,
                                                place |-> screen.draft[d].place]]
        <3> DEFINE c == [at |-> "sent", base |-> screen.draft[d].base, place |-> screen.draft[d].place]
        <3>1. c \in [at : {"none", "sent", "again", "done", "refused"}, base : 1..2, place : 1..2] /\ c.at = "sent"
            BY FormNow DEF FormDrafts
        <3> HIDE DEF c
        <3>2. calls' = [calls EXCEPT ![d] = c]
            BY <2>2 DEF c
        <3> QED BY <2>1, <2>2, <3>1, <3>2, FormNow DEF FormCalls
    <2>3. CASE calls[d].at = "sent" /\ ~Forms!Form.busy /\ calls' = Moved(calls, d, "again")
        <3>1. Moved(calls, d, "again") \in FormCalls
            BY <2>1, CallFacts DEF FormStates
        <3>2. d # "new" => Moved(calls, d, "again")["new"] = calls["new"]
            BY <2>1, FormNow DEF Moved, FormCalls
        <3> QED BY <1>11, <2>3, <3>1, <3>2
    <2> QED BY <2>2, <2>3 DEF Forms!Press, Moved
<1>13. FormShape' /\ FormExcused(screen', past')
    <2>1. astray => screen.form \in Forms!GoAstray
        BY <1>7, <1>8 DEF FormInv, FormPlaced, FormExcused
    <2> QED BY <1>1, <1>6, <1>9, <1>12, <2>1 DEF FormInv, FormShape, FormExcused
<1>14. FormHolds(screen')
    BY <1>4, <1>5, <1>6, FormNow DEF FormInv, FormHolds
<1>15. FormCloses(screen')
    <2>1. \A e \in Forms!Drafts : ~draft[e].open => ~screen.draft[e].open /\ draft[e] = screen.draft[e]
        BY <1>1, <1>4, <1>5
    <2>2. FormCloses(screen)
        BY DEF FormInv
    <2> QED BY <1>6, <2>1, <2>2 DEF FormCloses
<1>16. FormPlaced(screen')
    BY <1>4, <1>5, <1>6 DEF FormInv, FormPlaced
<1>17. FormAdds(screen', calls', rows'.made, past')
    <2>1. FormAdds(screen, calls, rows.made, past)
        BY DEF FormInv
    <2>2. CASE d # "new"
        <3>1. screen'.draft["new"] = screen.draft["new"] /\ meant = past.meant
            BY <1>5, <1>6, <2>2, FormNow DEF meant
        <3> QED BY <1>1, <1>6, <1>9, <1>12, <2>1, <2>2, <3>1 DEF FormAdds
    <2>3. CASE d = "new"
        <3>1. fresh => meant = past.meant + 1
            BY DEF meant
        <3>2. ~fresh => meant = past.meant /\ screen.draft["new"].used
            BY <2>3 DEF meant
        <3>3. meant >= 1 /\ meant >= past.meant
            BY <2>1, <3>1, <3>2, FormNow DEF FormAdds
        <3>4. ASSUME ~past.lost, screen.form \notin Forms!AddAgain
              PROVE  /\ rows.made <= meant /\ (Forms!Form.unique => rows.made <= 1)
                     /\ ~Forms!Form.unique => rows.made < meant
            BY <1>12, <2>1, <2>3, <3>1, <3>2, <3>4, FormNow DEF FormAdds, Forms!Form
        <3> HIDE DEF fresh
        <3> QED BY <1>1, <1>6, <1>9, <1>11, <1>12, <2>3, <3>3, <3>4 DEF FormAdds, Forms!Form
    <2> QED BY <2>2, <2>3
<1> QED BY <1>13, <1>14, <1>15, <1>16, <1>17 DEF FormInv

LEMMA FormOpens == ASSUME FormInv, NEW d \in Forms!Drafts, Forms!Open(d) PROVE FormInv'
<1> DEFINE seeded == [Forms!Closed EXCEPT !.base = Forms!Known(d)]
           opened == IF Forms!Form.seed = "open" THEN seeded ELSE screen.draft[d]
           others == IF Forms!Form.draft \in {"one", "both"} THEN [e \in Forms!Drafts |-> Forms!Closed] ELSE screen.draft
           x == [opened EXCEPT !.open = TRUE]
           draft == [others EXCEPT ![d] = x]
           revived == past.revived \/ opened.typed \/ opened.base < Forms!Known(d)
<1>1. /\ d \in Forms!Held(Forms!Form) /\ ~Forms!Form.always /\ ~screen.draft[d].open
      /\ calls' = calls /\ rows' = rows /\ past' = [past EXCEPT !.revived = revived]
    BY DEF Forms!Open
<1>2. screen' = Redrafted(screen, draft)
    BY DEF Forms!Open, Redrafted
<1>3. /\ seeded \in FormDrafts /\ seeded.place = 1 /\ ~seeded.used /\ ~seeded.typed /\ seeded.base = Forms!Known(d)
      /\ Forms!Known(d) \in 1..2 /\ Forms!Known(d) = IF d = "a" THEN screen.shown ELSE 1
    <2>1. Forms!Known(d) \in 1..2
        BY FormNow DEF Forms!Known
    <2> QED BY <2>1, FormNow, ClosedShape DEF FormDrafts, Forms!Known
<1> HIDE DEF seeded
<1>4. FormSays(screen.form, Forms!Form)
    BY FormNow DEF Forms!Form
<1>5. /\ opened \in FormDrafts /\ (opened.used => screen.draft[d].used)
      /\ screen.form \notin Forms!GoAstray => opened.place = screen.place
    <2>1. screen.form \notin Forms!GoAstray => screen.place = 1 /\ screen.draft[d].place = screen.place
        BY <1>1, <1>4 DEF FormInv, FormPlaced, FormSays, FormSound, Forms!Form
    <2> QED BY <1>3, <2>1, FormNow
<1>6. screen.form \notin Forms!ReviveDrafts => ~opened.typed /\ opened.base >= Forms!Known(d)
    BY <1>1, <1>3 DEF FormInv, FormCloses, Forms!Form
<1>7. (revived = TRUE) <=> (past.revived = TRUE \/ opened.typed = TRUE \/ opened.base < Forms!Known(d))
    BY <1>5, FormNow DEF FormDrafts
<1>8. revived \in BOOLEAN
    BY <1>5, FormNow DEF FormDrafts
<1>9. revived => screen.form \in Forms!ReviveDrafts
    <2>1. opened.base \in 1..2 /\ opened.typed \in BOOLEAN
        BY <1>5 DEF FormDrafts
    <2> QED BY <1>3, <1>6, <1>7, <1>8, <2>1 DEF FormInv, FormExcused
<1> HIDE DEF revived
<1>10. past' \in FormPasts /\ past'.revived = revived /\ past'.dropped = past.dropped /\ past'.astray = past.astray
       /\ past'.lost = past.lost /\ past'.meant = past.meant
    BY <1>1, <1>8 DEF FormInv, FormShape, FormPasts
<1>11. x \in FormDrafts /\ x.open /\ x.place = opened.place /\ x.used = opened.used
    <2> HIDE DEF opened
    <2> QED BY <1>5 DEF FormDrafts
<1> HIDE DEF opened, x
<1>12. /\ others \in [Forms!Drafts -> FormDrafts]
       /\ \A e \in Forms!Drafts : others[e] = screen.draft[e] \/ (others[e] = Forms!Closed /\ Forms!Form.draft \in {"one", "both"})
    BY FormNow, ClosedShape DEF FormInv, FormShape, FormScreens
<1> HIDE DEF others
<1>13. draft \in [Forms!Drafts -> FormDrafts] /\ \A e \in Forms!Drafts : draft[e] = IF e = d THEN x ELSE others[e]
    BY <1>11, <1>12
<1> HIDE DEF draft
<1>14. /\ screen' \in FormScreens /\ screen'.form = screen.form /\ screen'.place = screen.place
       /\ screen'.shown = screen.shown /\ screen'.draft = draft
    BY <1>2, <1>13, ScreenFacts
<1>15. FormShape' /\ FormExcused(screen', past')
    BY <1>1, <1>9, <1>10, <1>14 DEF FormInv, FormShape, FormExcused
<1>16. FormHolds(screen')
    <2>1. d = "new" => Forms!Form.draft \in {"both", "new"}
        BY <1>1, <1>4 DEF FormSays, FormSound, Forms!Held, Forms!Rows
    <2>2. d # "new" /\ draft["new"].open => screen.draft["new"].open
        BY <1>12, <1>13, FormNow, ClosedShape
    <2> QED BY <1>14, <2>1, <2>2 DEF FormInv, FormHolds, Forms!Form
<1>17. FormCloses(screen')
    <2>1. ASSUME screen.form \notin Forms!ReviveDrafts, Forms!Form.seed # "open", NEW e \in Forms!Drafts, ~draft[e].open
          PROVE  draft[e] = screen.draft[e]
        <3>1. Forms!Form.draft \notin {"one", "both"}
            BY <1>1, <1>4, <2>1 DEF FormSays, FormSound
        <3> QED BY <1>11, <1>12, <1>13, <2>1, <3>1
    <2>2. FormCloses(screen)
        BY DEF FormInv
    <2> QED BY <1>14, <2>1, <2>2 DEF FormCloses, Forms!Form
<1>18. FormPlaced(screen')
    <2>1. screen.form \notin Forms!GoAstray => screen.place = 1
        BY <1>1, <1>4 DEF FormInv, FormPlaced, FormSays, FormSound, Forms!Form
    <2>2. FormPlaced(screen)
        BY DEF FormInv
    <2>3. screen.form \notin Forms!GoAstray => \A e \in Forms!Drafts : draft[e].place = screen.place
        BY <1>5, <1>11, <1>12, <1>13, <2>1, <2>2, ClosedShape DEF FormPlaced
    <2> QED BY <1>14, <2>2, <2>3 DEF FormPlaced
<1>19. FormAdds(screen', calls', rows'.made, past')
    <2>1. draft["new"].used => screen.draft["new"].used
        BY <1>5, <1>11, <1>12, <1>13, FormNow, ClosedShape
    <2> QED BY <1>1, <1>10, <1>14, <2>1 DEF FormInv, FormAdds
<1> QED BY <1>15, <1>16, <1>17, <1>18, <1>19 DEF FormInv

LEMMA FormSaved == ASSUME FormInv, NEW d \in Forms!Drafts, Forms!Saved(d) PROVE FormInv'
<1> DEFINE shut(e) == Forms!Form.after = "shut" /\ (e = d \/ Forms!Form.draft \in {"one", "both"})
           closed(e) == [Forms!Closed EXCEPT !.base = IF e = "a" THEN 2 ELSE 1, !.place = screen.place]
           blank(e) == [screen.draft[e] EXCEPT !.typed = FALSE, !.used = FALSE]
           left(e) == CASE shut(e) -> closed(e)
                        [] ~shut(e) /\ e = d /\ Forms!Form.after # "keep" -> blank(e)
                        [] OTHER -> screen.draft[e]
           draft == [e \in Forms!Drafts |-> left(e)]
           other == \E e \in Forms!Drafts \ {d} : shut(e) /\ screen.draft[e].open /\ screen.draft[e].typed
           dropped == past.dropped \/ other
<1>1. /\ calls[d].at = "done" /\ calls' = Moved(calls, d, "none") /\ rows' = rows
      /\ past' = [past EXCEPT !.dropped = dropped]
    BY DEF Forms!Saved, Moved
<1>2. screen' = Redrafted(screen, draft)
    BY DEF Forms!Saved, Redrafted
<1>3. ASSUME NEW e \in Forms!Drafts
      PROVE  /\ closed(e) \in FormDrafts /\ ~closed(e).open /\ ~closed(e).typed /\ ~closed(e).used
             /\ closed(e).place = screen.place /\ closed(e).base = IF e = "a" THEN 2 ELSE 1
             /\ blank(e) \in FormDrafts /\ blank(e).open = screen.draft[e].open /\ ~blank(e).typed /\ ~blank(e).used
             /\ blank(e).place = screen.draft[e].place /\ blank(e).base = screen.draft[e].base
    <2> DEFINE base == IF e = "a" THEN 2 ELSE 1
    <2>1. base \in 1..2
        OBVIOUS
    <2> HIDE DEF base
    <2>2. /\ closed(e) \in FormDrafts /\ ~closed(e).open /\ ~closed(e).typed /\ ~closed(e).used
          /\ closed(e).place = screen.place /\ closed(e).base = base
        <3> DEFINE y == [Forms!Closed EXCEPT !.base = base, !.place = screen.place]
        <3>1. /\ y \in FormDrafts /\ ~y.open /\ ~y.typed /\ ~y.used /\ y.place = screen.place /\ y.base = base
            BY <2>1, FormNow, ClosedShape DEF FormDrafts
        <3>2. y = closed(e)
            BY DEF base
        <3> HIDE DEF y, closed
        <3> QED BY <3>1, <3>2
    <2>3. /\ blank(e) \in FormDrafts /\ blank(e).open = screen.draft[e].open /\ ~blank(e).typed /\ ~blank(e).used
          /\ blank(e).place = screen.draft[e].place /\ blank(e).base = screen.draft[e].base
        BY FormNow DEF FormDrafts
    <2> QED BY <2>2, <2>3 DEF base
<1> HIDE DEF closed, blank
<1>4. ASSUME NEW e \in Forms!Drafts
      PROVE  \/ shut(e) /\ left(e) = closed(e)
             \/ ~shut(e) /\ e = d /\ Forms!Form.after # "keep" /\ left(e) = blank(e)
             \/ ~shut(e) /\ (e # d \/ Forms!Form.after = "keep") /\ left(e) = screen.draft[e]
    BY DEF left
<1>5. draft \in [Forms!Drafts -> FormDrafts] /\ \A e \in Forms!Drafts : draft[e] = left(e)
    <2> HIDE DEF left
    <2> QED BY <1>3, <1>4, FormNow
<1> HIDE DEF draft, left
<1>6. /\ screen' \in FormScreens /\ screen'.form = screen.form /\ screen'.place = screen.place
      /\ screen'.shown = screen.shown /\ screen'.draft = draft
    BY <1>2, <1>5, ScreenFacts
<1>7. FormSays(screen.form, Forms!Form)
    BY FormNow DEF Forms!Form
<1>8. dropped \in BOOLEAN /\ (dropped => screen.form \in Forms!DropTyping)
    <2>1. other => screen.form \in Forms!DropTyping
        BY <1>7 DEF FormSays, FormSound
    <2> HIDE DEF other
    <2> QED BY <2>1, FormNow DEF FormInv, FormExcused
<1> HIDE DEF dropped
<1>9. past' \in FormPasts /\ past'.dropped = dropped /\ past'.revived = past.revived /\ past'.astray = past.astray
      /\ past'.lost = past.lost /\ past'.meant = past.meant
    BY <1>1, <1>8 DEF FormInv, FormShape, FormPasts
<1>10. calls' \in FormCalls /\ calls'["new"].at = IF d = "new" THEN "none" ELSE calls["new"].at
    BY <1>1, CallFacts DEF FormStates, FormInv, FormShape
<1>11. FormShape' /\ FormExcused(screen', past')
    BY <1>1, <1>6, <1>8, <1>9, <1>10 DEF FormInv, FormShape, FormExcused
<1>12. FormHolds(screen')
    <2>1. draft["new"].open => screen.draft["new"].open
        BY <1>3, <1>4, <1>5, FormNow
    <2> QED BY <1>6, <2>1 DEF FormInv, FormHolds
<1>13. FormCloses(screen')
    <2>1. ASSUME NEW e \in Forms!Drafts,
                 ~screen.draft[e].open => ~screen.draft[e].typed /\ screen.draft[e].base >= IF e = "a" THEN screen.shown ELSE 1
          PROVE  ~draft[e].open => ~draft[e].typed /\ draft[e].base >= IF e = "a" THEN screen.shown ELSE 1
        BY <1>3, <1>4, <1>5, <2>1, FormNow
    <2> QED BY <1>6, <2>1 DEF FormInv, FormCloses
<1>14. FormPlaced(screen')
    <2>1. \A e \in Forms!Drafts : draft[e].place \in {screen.place, screen.draft[e].place}
        BY <1>3, <1>4, <1>5
    <2> QED BY <1>6, <2>1 DEF FormInv, FormPlaced
<1>15. FormAdds(screen', calls', rows'.made, past')
    <2>1. FormAdds(screen, calls, rows.made, past)
        BY DEF FormInv
    <2>2. draft["new"].used => screen.draft["new"].used
        BY <1>3, <1>4, <1>5, FormNow
    <2>3. CASE d # "new"
        BY <1>1, <1>6, <1>9, <1>10, <2>1, <2>2, <2>3 DEF FormAdds
    <2>4. CASE d = "new"
        <3>1. draft["new"].used => Forms!Form.after = "keep"
            BY <1>3, <1>4, <1>5, <2>4, FormNow
        <3>2. Forms!Form.draft \in {"both", "new"}
            BY <1>1, <2>1, <2>4 DEF FormAdds, Forms!Form
        <3>3. draft["new"].used /\ ~Forms!Form.unique => screen.form \in Forms!AddAgain
            BY <1>7, <3>1, <3>2 DEF FormSays, FormSound
        <3> QED BY <1>1, <1>6, <1>9, <1>10, <2>1, <2>2, <2>4, <3>3 DEF FormAdds, Forms!Form
    <2> QED BY <2>3, <2>4
<1> QED BY <1>11, <1>12, <1>13, <1>14, <1>15 DEF FormInv

LEMMA FormReads == ASSUME FormInv, Forms!Read PROVE FormInv'
<1> DEFINE follows == Forms!Form.seed \in {"row", "shut"}
           mine == screen.draft["a"]
           open == mine.open /\ Forms!Form.seed = "row"
           fresh == [Forms!Closed EXCEPT !.open = open, !.base = 2, !.place = mine.place]
           x == IF follows THEN fresh ELSE mine
           draft == [screen.draft EXCEPT !["a"] = x]
           dropped == past.dropped \/ (follows /\ mine.open /\ mine.typed /\ calls["a"].at = "none")
<1>1. /\ screen.shown < rows.a /\ calls' = calls /\ rows' = rows /\ past' = [past EXCEPT !.dropped = dropped]
    BY DEF Forms!Read
<1>2. screen' = [screen EXCEPT !.shown = 2, !.draft = draft]
    BY DEF Forms!Read
<1>3. /\ fresh \in FormDrafts /\ fresh.open = open /\ ~fresh.typed /\ ~fresh.used /\ fresh.base = 2
      /\ fresh.place = mine.place
    <2>1. open \in BOOLEAN /\ 2 \in 1..2 /\ mine.place \in 1..2
        BY FormNow DEF FormDrafts
    <2> HIDE DEF open, mine
    <2> QED BY <2>1, ClosedShape DEF FormDrafts
<1> HIDE DEF fresh
<1>4. x \in FormDrafts /\ x.place = mine.place
    BY <1>3, FormNow
<1>5. draft \in [Forms!Drafts -> FormDrafts] /\ \A e \in Forms!Drafts : draft[e] = IF e = "a" THEN x ELSE screen.draft[e]
    <2> HIDE DEF x
    <2> QED BY <1>4, FormNow, OneDraft
<1> HIDE DEF draft
<1>6. /\ screen' \in FormScreens /\ screen'.form = screen.form /\ screen'.place = screen.place
      /\ screen'.shown = 2 /\ screen'.draft = draft
    <2>1. 2 \in 1..2
        OBVIOUS
    <2> QED BY <1>2, <1>5, <2>1 DEF FormInv, FormShape, FormScreens
<1>7. FormSays(screen.form, Forms!Form)
    BY FormNow DEF Forms!Form
<1>8. dropped \in BOOLEAN /\ (dropped => screen.form \in Forms!DropTyping)
    <2>1. follows => screen.form \in Forms!DropTyping
        BY <1>7 DEF FormSays, FormSound
    <2> HIDE DEF follows
    <2> QED BY <2>1, FormNow DEF FormInv, FormExcused
<1> HIDE DEF dropped
<1>9. past' \in FormPasts /\ past'.dropped = dropped /\ past'.revived = past.revived /\ past'.astray = past.astray
      /\ past'.lost = past.lost /\ past'.meant = past.meant
    BY <1>1, <1>8 DEF FormInv, FormShape, FormPasts
<1>10. FormShape' /\ FormExcused(screen', past')
    BY <1>1, <1>6, <1>8, <1>9 DEF FormInv, FormShape, FormExcused
<1>11. draft["new"] = screen.draft["new"]
    BY <1>5, FormNow
<1>12. FormHolds(screen')
    BY <1>6, <1>11 DEF FormInv, FormHolds
<1>13. FormCloses(screen')
    <2>1. FormCloses(screen)
        BY DEF FormInv
    <2>2. ASSUME ~Forms!Form.always, screen.form \notin Forms!ReviveDrafts, Forms!Form.seed # "open"
          PROVE  \A d \in Forms!Drafts : ~draft[d].open => ~draft[d].typed /\ draft[d].base >= IF d = "a" THEN 2 ELSE 1
        <3>1. x = fresh
            BY <1>7, <2>2 DEF FormSays, FormSound
        <3> HIDE DEF x
        <3> QED BY <1>3, <1>5, <2>1, <2>2, <3>1 DEF FormCloses, Forms!Form
    <2> QED BY <1>6, <2>2 DEF FormCloses, Forms!Form
<1>14. FormPlaced(screen')
    <2>1. \A d \in Forms!Drafts : draft[d].place = screen.draft[d].place
        BY <1>4, <1>5
    <2> QED BY <1>6, <2>1 DEF FormInv, FormPlaced
<1>15. FormAdds(screen', calls', rows'.made, past')
    BY <1>1, <1>6, <1>9, <1>11 DEF FormInv, FormAdds
<1> QED BY <1>10, <1>12, <1>13, <1>14, <1>15 DEF FormInv

LEMMA FormSwitches == ASSUME FormInv, Forms!Switch PROVE FormInv'
<1> DEFINE reset(d) == [screen.draft[d] EXCEPT !.typed = FALSE, !.place = 2]
           moved(d) == [screen.draft[d] EXCEPT !.place = 2]
           left(d) == IF Forms!Form.place = "reset" THEN reset(d)
                      ELSE IF Forms!Form.place = "follows" THEN moved(d) ELSE screen.draft[d]
           draft == [d \in Forms!Drafts |-> left(d)]
<1>1. Forms!Form.place # "none" /\ calls' = calls /\ rows' = rows /\ past' = past
    BY DEF Forms!Switch
<1>2. screen' = [screen EXCEPT !.place = 2, !.draft = draft]
    <2>1. CASE Forms!Form.place = "reset"
        BY <2>1 DEF Forms!Switch
    <2>2. CASE Forms!Form.place = "follows"
        BY <2>2 DEF Forms!Switch
    <2>3. CASE Forms!Form.place \notin {"reset", "follows"}
        <3>1. screen' = [screen EXCEPT !.place = 2, !.draft = screen.draft]
            BY <2>3 DEF Forms!Switch
        <3>2. draft = screen.draft
            BY <2>3 DEF FormInv, FormShape, FormScreens
        <3> QED BY <3>1, <3>2
    <2> QED BY <2>1, <2>2, <2>3
<1>3. ASSUME NEW d \in Forms!Drafts
      PROVE  /\ left(d) \in FormDrafts /\ left(d).open = screen.draft[d].open /\ left(d).used = screen.draft[d].used
             /\ left(d).base = screen.draft[d].base /\ (left(d).typed => screen.draft[d].typed)
             /\ Forms!Form.place = "reset" => left(d).place = 2
    <2> 2 \in 1..2
        OBVIOUS
    <2>1. /\ reset(d) \in FormDrafts /\ reset(d).open = screen.draft[d].open /\ reset(d).used = screen.draft[d].used
          /\ reset(d).base = screen.draft[d].base /\ ~reset(d).typed /\ reset(d).place = 2
        BY FormNow DEF FormDrafts
    <2>2. /\ moved(d) \in FormDrafts /\ moved(d).open = screen.draft[d].open /\ moved(d).used = screen.draft[d].used
          /\ moved(d).base = screen.draft[d].base /\ moved(d).typed = screen.draft[d].typed
        BY FormNow DEF FormDrafts
    <2> HIDE DEF reset, moved
    <2> QED BY <2>1, <2>2, FormNow
<1> HIDE DEF left
<1>4. draft \in [Forms!Drafts -> FormDrafts] /\ \A d \in Forms!Drafts : draft[d] = left(d)
    BY <1>3
<1> HIDE DEF draft
<1>5. /\ screen' \in FormScreens /\ screen'.form = screen.form /\ screen'.place = 2
      /\ screen'.shown = screen.shown /\ screen'.draft = draft
    <2>1. 2 \in 1..2
        OBVIOUS
    <2> QED BY <1>2, <1>4, <2>1 DEF FormInv, FormShape, FormScreens
<1>6. FormShape' /\ FormExcused(screen', past')
    BY <1>1, <1>5 DEF FormInv, FormShape, FormExcused
<1>7. FormHolds(screen')
    BY <1>3, <1>4, <1>5, FormNow DEF FormInv, FormHolds
<1>8. FormCloses(screen')
    <2>1. ASSUME NEW d \in Forms!Drafts,
                 ~screen.draft[d].open => ~screen.draft[d].typed /\ screen.draft[d].base >= IF d = "a" THEN screen.shown ELSE 1
          PROVE  ~draft[d].open => ~draft[d].typed /\ draft[d].base >= IF d = "a" THEN screen.shown ELSE 1
        BY <1>3, <1>4, <2>1
    <2> QED BY <1>5, <2>1 DEF FormInv, FormCloses
<1>9. FormPlaced(screen')
    <2>1. FormSays(screen.form, Forms!Form)
        BY FormNow DEF Forms!Form
    <2>2. screen.form \notin Forms!GoAstray => Forms!Form.place = "reset"
        BY <1>1, <2>1 DEF FormSays, FormSound
    <2> QED BY <1>1, <1>3, <1>4, <1>5, <2>2 DEF FormPlaced, Forms!Form
<1>10. FormAdds(screen', calls', rows'.made, past')
    BY <1>1, <1>3, <1>4, <1>5, FormNow DEF FormInv, FormAdds
<1> QED BY <1>6, <1>7, <1>8, <1>9, <1>10 DEF FormInv

LEMMA FormStep == ASSUME FormInv, Forms!Next PROVE FormInv'
<1>1. CASE Forms!Switch \/ Forms!Others \/ Forms!Read
    BY <1>1, FormSwitches, FormOthers, FormReads
<1>2. ASSUME NEW d \in Forms!Drafts,
             \/ Forms!Open(d) \/ Forms!Type(d) \/ Forms!Cancel(d) \/ Forms!Press(d)
             \/ Forms!Apply(d) \/ Forms!Refuse(d) \/ Forms!Saved(d) \/ Forms!NotSaved(d)
      PROVE  FormInv'
    BY <1>2, FormOpens, FormTypes, FormCancels, FormPresses, FormApplies, FormRefuses, FormSaved, FormFails
<1> QED BY <1>1, <1>2 DEF Forms!Next

-----------------------------------------------------------------------------
(* All of them                                                             *)

ScreensInv ==
    /\ page = "session" => SessionInv
    /\ page = "cache" => CacheInv
    /\ page = "grid" => GridInv
    /\ page = "paged" => PageInv
    /\ page = "batch" => BatchInv
    /\ page = "form" => FormInv

\* A step that changes nothing keeps them.
LEMMA ScreensRest == ASSUME ScreensInv, UNCHANGED web PROVE ScreensInv'
<1>1. page' = page /\ screen' = screen /\ calls' = calls /\ rows' = rows /\ past' = past
    BY DEF web
<1>2. page = "session" => SessionInv'
    BY <1>1 DEF ScreensInv, SessionInv, Shape, InTurn, Presented, Known, LeftAlone
<1>3. page = "cache" => CacheInv'
    BY <1>1 DEF ScreensInv, CacheInv, CacheShape, Cache!TypeOK
<1>4. page = "grid" => GridInv'
    BY <1>1 DEF ScreensInv, GridInv
<1>5. page = "paged" => PageInv'
    BY <1>1 DEF ScreensInv, PageInv, PageShape, Paged!Here, Paged!Rows
<1>6. page = "batch" => BatchInv'
    BY <1>1 DEF ScreensInv, BatchInv, BatchShape
<1>7. page = "form" => FormInv'
    BY <1>1 DEF ScreensInv, FormInv, FormShape
<1> QED BY <1>1, <1>2, <1>3, <1>4, <1>5, <1>6, <1>7 DEF ScreensInv

LEMMA ScreensInvariant == Spec => []ScreensInv
<1>1. Init => ScreensInv
    BY SessionStarts, CacheBegins, GridStarts, PageBegins, BatchStarts, FormStarts DEF Init, ScreensInv
<1>2. ScreensInv /\ [Next]_web => ScreensInv'
    <2>1. ASSUME ScreensInv, Next PROVE ScreensInv'
        <3>1. page' = page
            BY <2>1 DEF Next
        <3> QED BY <2>1, <3>1, SessionStep, CacheStays, GridStep, PageKeeps, BatchStep, FormStep DEF Next, ScreensInv
    <2> QED BY <2>1, ScreensRest
<1> QED BY <1>1, <1>2, PTL DEF Spec

\* Every screen keeps its state in the shape its module says it has.
THEOREM ScreensTyped == Spec => []TypeOK
<1>1. SessionInv => Session!TypeOK
    BY DEF SessionInv, Shape, Screens, CallRows, TokenRows, Histories, Fetches, Tokens, Session!TypeOK
<1>2. ScreensInv => TypeOK
    BY <1>1, GridHolds, PageHolds, BatchHolds, FormIsFine DEF ScreensInv, CacheInv, CacheShape, TypeOK
<1> QED BY <1>2, ScreensInvariant, PTL

\* Once no request is under way, a list shows what the API holds of the tables its
\* tags stand for, as far as this client changed it, whatever pair of query and
\* mutation is at work except those named; what a list only shows beside them it is
\* not told of.  A grid shows the place it looks at (providesTags, invalidatesTags).
THEOREM QuietScreensAreCurrent == Spec => []QuietIsCurrent
<1>1. ScreensInv => QuietIsCurrent
    BY QuietCache, GridHolds DEF ScreensInv, QuietIsCurrent
<1> QED BY <1>1, ScreensInvariant, PTL

\* However many requests are refused at once, the API takes no token for a stolen
\* one, and who has signed out stays so until the form is used again, unless an
\* answer was lost or the cookie was presented twice at once (refreshInFlight,
\* useLogout).
THEOREM SessionsEndForAReason == Spec => []SessionEndsForAReason
<1>1. ScreensInv => SessionEndsForAReason
    BY DEF ScreensInv, SessionInv, Shape, Histories, LeftAlone, SessionEndsForAReason, Session!NoFalseReuse,
           Session!SignedOutStaysOut
<1> QED BY <1>1, ScreensInvariant, PTL

\* What is typed into a form goes only by saving, leaving or closing it, and a form
\* opens with what is there, in every form but those that are named.
THEOREM DraftsStayTheUsers == Spec => []DraftsAreTheUsers
<1>1. ScreensInv => DraftsAreTheUsers
    BY FormIsFine DEF ScreensInv, DraftsAreTheUsers
<1> QED BY <1>1, ScreensInvariant, PTL

\* What is filled in once is added once however often the button is pressed, and a
\* list however often it is sent, unless the answer was lost (isLoading on the
\* buttons, the names the API keeps unique, the rows a dialog keeps).
THEOREM OneFillingAddsOne == Spec => []FilledOnceAddedOnce
<1>1. ScreensInv => FilledOnceAddedOnce
    BY FormIsFine, BatchHolds DEF ScreensInv, FilledOnceAddedOnce
<1> QED BY <1>1, ScreensInvariant, PTL

\* The user is told of every row of a list that was added.
THEOREM AddingIsTold == Spec => []AddedIsTold
<1>1. ScreensInv => AddedIsTold
    BY BatchHolds DEF ScreensInv, AddedIsTold
<1> QED BY <1>1, ScreensInvariant, PTL

\* What is saved goes to the class, term or lesson the screen shows, from the list
\* that was checked, and a list shows its pages in turn, the screens named apart:
\* marks, learners, pay runs, and a roll of which only the date changes.
THEOREM SavingIsWhereShown == Spec => []SavedWhereShown
<1>1. ScreensInv => SavedWhereShown
    BY FormIsFine, GridHolds, BatchHolds, PageHolds DEF ScreensInv, SavedWhereShown
<1> QED BY <1>1, ScreensInvariant, PTL

=============================================================================
