----------------------------- MODULE FinanceProofs ----------------------------
(***************************************************************************)
(* Finance, for any number of structures, terms, lines, students and       *)
(* overlapping requests.  Whether a commit keeps the promises depends on   *)
(* what its handler read before: HandlersHold says what is left of that    *)
(* for fee structures, and Apart that who works on a term without being    *)
(* crossed works on it alone; WorkHolds, StillSo and WorkApart say the     *)
(* same of invoices, and NumbersReserved why an insert's numbers are free. *)
(***************************************************************************)
EXTENDS Finance, Sums, FiniteSetTheorems, TLAPS

Statuses == {"none", "draft", "active", "archived"}
Active(t) == Pricing!ActiveIn(t)

Shapes ==
    /\ status \in [Drafts -> Statuses]
    /\ term \in [Drafts -> DraftTerms \cup {None}]
    /\ content \in [Drafts -> [Slots -> Fees \cup {None}]]
    /\ edit \in [Reqs -> Pricing!Requests]

\* Structures that exist are of a term.
TermsKnown == \A s \in Drafts : status[s] # "none" => term[s] \in DraftTerms

\* A handler knows a structure that exists, and one it will archive in the same
\* term; unless it was crossed, what it read still holds.
Holds(e) ==
    /\ e.s \in Drafts /\ status[e.s] # "none"
    /\ e.op \in Pricing!LineOps => e.slot \in Slots /\ e.value \in Fees \cup {None}
    /\ (e.op = "activate" /\ e.archives # None) =>
          /\ e.archives \in Drafts \ {e.s} /\ status[e.archives] # "none"
          /\ term[e.archives] = term[e.s]
    /\ term[e.s] \notin crossed =>
          /\ status[e.s] = "draft"
          /\ e.op = "activate" => Pricing!HasLines(e.s) /\ Active(term[e.s]) \subseteq {e.archives}
          /\ (e.op = "activate" /\ e.archives # None) => status[e.archives] = "active"

HandlersHold == \A r \in Reqs : edit[r] # Pricing!Idle => edit[r].op # "idle" /\ Holds(edit[r])

Apart ==
    \A r, q \in Reqs :
        (r # q /\ edit[r] # Pricing!Idle /\ edit[q] # Pricing!Idle /\ term[edit[r].s] = term[edit[q].s])
            => term[edit[r].s] \in crossed

IndInv ==
    /\ Shapes /\ TermsKnown /\ HandlersHold /\ Apart
    /\ Pricing!OneActivePerTerm /\ Pricing!ActivatedHasLines

LEMMA InitInv == ASSUME FinanceInit PROVE IndInv
BY FinanceAssumption
DEF FinanceInit, Pricing!Init, IndInv, Shapes, TermsKnown, Statuses, HandlersHold, Apart,
    Pricing!OneActivePerTerm, Active, Pricing!ActiveIn, Pricing!ActivatedHasLines, Pricing!Alone, Pricing!Idle, Pricing!Requests, Pricing!LineOps

-----------------------------------------------------------------------------
(* Reading: a handler takes on a structure, and crosses those at work on   *)
(* its term.                                                               *)

\* Whatever a handler loads that holds, and fits its term, keeps the invariant.
LEMMA HoldStep ==
    ASSUME IndInv, NEW r \in Reqs, NEW e \in Pricing!Requests, Pricing!Hold(r, e),
           e.op # "idle", e.s \in Drafts, Holds(e)
    PROVE  IndInv'
<1> USE DEF IndInv
<1>1. /\ edit[r] = Pricing!Idle /\ edit' = [edit EXCEPT ![r] = e]
      /\ UNCHANGED <<status, term, head, content>>
      /\ crossed \subseteq crossed'
    BY DEF Pricing!Hold
<1>2. Shapes' /\ TermsKnown'
    BY <1>1 DEF Shapes, TermsKnown
<1>3. \A s \in Drafts : Pricing!HasLines(s)' = Pricing!HasLines(s)
    BY <1>1 DEF Pricing!HasLines
<1>4. \A t : Active(t)' = Active(t)
    BY <1>1 DEF Active, Pricing!ActiveIn
<1>5. \A f \in Pricing!Requests : Holds(f) => Holds(f)'
    BY <1>1, <1>3, <1>4 DEF Holds
<1>6. HandlersHold'
    BY <1>1, <1>5 DEF HandlersHold, Shapes
<1>7. Apart'
    <2> SUFFICES ASSUME NEW q \in Reqs, q # r, edit[q] # Pricing!Idle, term[edit[q].s] = term[e.s]
                 PROVE  term[e.s] \in crossed'
        BY <1>1 DEF Apart, Shapes
    <2>1. edit[q].s \in Drafts
        BY DEF HandlersHold, Holds
    <2> QED BY <2>1 DEF Pricing!Hold, Pricing!SameTerm
<1>8. Pricing!OneActivePerTerm'
    BY <1>1 DEF Pricing!OneActivePerTerm, Pricing!ActiveIn
<1>9. Pricing!ActivatedHasLines'
    BY <1>1, <1>3 DEF Pricing!ActivatedHasLines, Pricing!Alone
<1> QED BY <1>2, <1>6, <1>7, <1>8, <1>9

LEMMA HeadReadStep ==
    ASSUME IndInv, NEW r \in Reqs, NEW s \in Drafts, NEW h \in Heads, Pricing!HeadRead(r, s, h)
    PROVE  IndInv'
<1> DEFINE e == [Pricing!Idle EXCEPT !.op = "head", !.s = s, !.value = h]
<1>1. e \in Pricing!Requests /\ e.op = "head" /\ e.s = s
    BY DEF Pricing!Idle, Pricing!Requests, Pricing!LineOps
<1>2. Holds(e)
    BY <1>1 DEF Holds, Pricing!HeadRead, Pricing!LineOps
<1>3. Pricing!Hold(r, e)
    BY DEF Pricing!HeadRead
<1> HIDE DEF e
<1> QED BY <1>1, <1>2, <1>3, HoldStep

LEMMA LineReadStep ==
    ASSUME IndInv, NEW r \in Reqs, NEW op \in Pricing!LineOps, NEW s \in Drafts, NEW i \in Slots,
           NEW f \in Fees \cup {None}, Pricing!LineRead(r, op, s, i, f)
    PROVE  IndInv'
<1> DEFINE e == [Pricing!Idle EXCEPT !.op = op, !.s = s, !.slot = i, !.value = f]
<1>1. /\ e \in Pricing!Requests /\ e.op \in {"add", "edit", "delete"} /\ e.s = s
      /\ e.slot = i /\ e.value = f
    BY DEF Pricing!Idle, Pricing!Requests, Pricing!LineOps
<1>2. Holds(e)
    BY <1>1 DEF Holds, Pricing!LineRead
<1>3. Pricing!Hold(r, e)
    BY DEF Pricing!LineRead
<1> HIDE DEF e
<1> QED BY <1>1, <1>2, <1>3, HoldStep

\* The structure to archive is the one active structure of the term, if there is one.
LEMMA ActivateReadStep ==
    ASSUME IndInv, NEW r \in Reqs, NEW s \in Drafts, Pricing!ActivateRead(r, s)
    PROVE  IndInv'
<1>1. status[s] = "draft" /\ Pricing!HasLines(s) /\ term[s] \in DraftTerms
    BY DEF Pricing!ActivateRead, IndInv, TermsKnown
<1>2. Active(term[s]) = Pricing!OfTerm(s)
    BY <1>1 DEF Active, Pricing!OfTerm, Pricing!ActiveIn
<1>3. ASSUME NEW e \in Pricing!Requests, e.op = "activate", e.s = s, Pricing!Hold(r, e),
             IF e.archives = None THEN Pricing!OfTerm(s) = {} ELSE e.archives \in Pricing!OfTerm(s)
      PROVE  IndInv'
    <2>1. e.archives # None =>
              e.archives \in Drafts \ {s} /\ status[e.archives] = "active" /\ term[e.archives] = term[s]
        BY <1>3 DEF Pricing!OfTerm, Pricing!ActiveIn
    <2>2. term[s] \notin crossed => Active(term[s]) \subseteq {e.archives}
        BY <1>1, <1>2, <1>3 DEF IndInv, Pricing!OneActivePerTerm, Active
    <2>3. Holds(e)
        BY <1>1, <1>3, <2>1, <2>2 DEF Holds, Pricing!LineOps
    <2> QED BY <1>3, <2>3, HoldStep
<1>4. CASE Pricing!OfTerm(s) = {} /\ Pricing!Hold(r, [Pricing!Idle EXCEPT !.op = "activate", !.s = s])
    <2> DEFINE e == [Pricing!Idle EXCEPT !.op = "activate", !.s = s]
    <2>1. e \in Pricing!Requests /\ e.op = "activate" /\ e.s = s /\ e.archives = None
        BY DEF Pricing!Idle, Pricing!Requests
    <2>2. Pricing!Hold(r, e) /\ Pricing!OfTerm(s) = {}
        BY <1>4
    <2> HIDE DEF e
    <2> QED BY <1>3, <2>1, <2>2
<1>5. ASSUME NEW a \in Pricing!OfTerm(s),
             Pricing!Hold(r, [Pricing!Idle EXCEPT !.op = "activate", !.s = s, !.archives = a])
      PROVE  IndInv'
    <2> DEFINE e == [Pricing!Idle EXCEPT !.op = "activate", !.s = s, !.archives = a]
    <2>1. a \in Drafts /\ a # None
        BY FinanceAssumption DEF Pricing!OfTerm, Pricing!ActiveIn, FinanceAssumption, IndInv, TermsKnown
    <2>2. e \in Pricing!Requests /\ e.op = "activate" /\ e.s = s /\ e.archives = a
        BY <2>1 DEF Pricing!Idle, Pricing!Requests
    <2>3. Pricing!Hold(r, e)
        BY <1>5
    <2> HIDE DEF e
    <2> QED BY <1>3, <2>1, <2>2, <2>3
<1> QED BY <1>4, <1>5 DEF Pricing!ActivateRead

-----------------------------------------------------------------------------
(* Ending: the other handlers keep what they hold.                         *)

\* A step that ends a handler keeps the invariant if it keeps the structures'
\* terms, what the others hold and what is promised of active structures.
LEMMA EndStep ==
    ASSUME IndInv, NEW r \in Reqs, edit[r] # Pricing!Idle, Pricing!Done(r), UNCHANGED term, Shapes', TermsKnown',
           \A q \in Reqs \ {r} : edit[q] # Pricing!Idle => Holds(edit[q])',
           Pricing!OneActivePerTerm', Pricing!ActivatedHasLines'
    PROVE  IndInv'
<1>1. edit' = [edit EXCEPT ![r] = Pricing!Idle] /\ UNCHANGED crossed
    BY DEF Pricing!Done
<1>2. HandlersHold'
    BY <1>1 DEF IndInv, HandlersHold, Shapes
<1>3. Apart'
    BY <1>1 DEF IndInv, Apart, Shapes
<1> QED BY <1>2, <1>3 DEF IndInv

LEMMA QuietEndStep ==
    ASSUME IndInv, NEW r \in Reqs, edit[r] # Pricing!Idle, Pricing!Done(r), UNCHANGED <<status, term, content>>
    PROVE  IndInv'
<1>1. edit' = [edit EXCEPT ![r] = Pricing!Idle] /\ UNCHANGED crossed
    BY DEF Pricing!Done
<1>2. Shapes' /\ TermsKnown'
    BY <1>1 DEF IndInv, Shapes, TermsKnown, Pricing!Requests, Pricing!Idle
<1>3. \A s \in Drafts : Pricing!HasLines(s)' = Pricing!HasLines(s)
    BY DEF Pricing!HasLines
<1>4. \A t : Active(t)' = Active(t)
    BY DEF Active, Pricing!ActiveIn
<1>5. \A q \in Reqs \ {r} : edit[q] # Pricing!Idle => Holds(edit[q])'
    BY <1>1, <1>3, <1>4 DEF IndInv, HandlersHold, Holds, Shapes
<1>6. Pricing!OneActivePerTerm' /\ Pricing!ActivatedHasLines'
    BY <1>1, <1>3, <1>4 DEF IndInv, Pricing!OneActivePerTerm, Pricing!ActivatedHasLines, Pricing!Alone, Active
<1> QED BY <1>2, <1>5, <1>6, EndStep

LEMMA LineCommitStep ==
    ASSUME IndInv, NEW r \in Reqs, Pricing!LineCommit(r)
    PROVE  IndInv'
<1> DEFINE s == edit[r].s
<1>1. edit[r] # Pricing!Idle /\ Pricing!Done(r) /\ UNCHANGED <<status, term>>
    BY DEF Pricing!LineCommit, Pricing!LineOps, Pricing!Idle
<1>2. edit' = [edit EXCEPT ![r] = Pricing!Idle] /\ UNCHANGED crossed
    BY <1>1 DEF Pricing!Done
<1>3. Holds(edit[r]) /\ s \in Drafts
    BY <1>1 DEF IndInv, HandlersHold, Holds
<1>4. content' \in [Drafts -> [Slots -> Fees \cup {None}]] /\ \A x \in Drafts \ {s} : content'[x] = content[x]
    <2> DEFINE i == edit[r].slot
               v == edit[r].value
    <2>1. i \in Slots /\ v \in Fees \cup {None} /\ content \in [Drafts -> [Slots -> Fees \cup {None}]]
        BY <1>3 DEF Pricing!LineCommit, IndInv, Shapes, Holds
    <2>2. content' = content \/ content' = [content EXCEPT ![s][i] = v] \/ content' = [content EXCEPT ![s][i] = None]
        BY DEF Pricing!LineCommit, Pricing!LineOps
    <2> QED BY <1>3, <2>1, <2>2
<1>5. \A x \in Drafts \ {s} : Pricing!HasLines(x)' = Pricing!HasLines(x)
    BY <1>4 DEF Pricing!HasLines
<1>6. \A t : Active(t)' = Active(t)
    BY <1>1 DEF Active, Pricing!ActiveIn
<1>7. Shapes' /\ TermsKnown'
    BY <1>1, <1>2, <1>4 DEF IndInv, Shapes, TermsKnown, Pricing!Requests, Pricing!Idle
<1>8. \A q \in Reqs \ {r} : edit[q] # Pricing!Idle => Holds(edit[q])'
    <2> SUFFICES ASSUME NEW q \in Reqs \ {r}, edit[q] # Pricing!Idle PROVE Holds(edit[q])'
        OBVIOUS
    <2>1. Holds(edit[q])
        BY DEF IndInv, HandlersHold
    <2>2. term[edit[q].s] \notin crossed => edit[q].s # s
        BY <1>1 DEF IndInv, Apart
    <2> QED BY <1>1, <1>2, <1>5, <1>6, <2>1, <2>2 DEF Holds
<1>9. Pricing!OneActivePerTerm'
    BY <1>2, <1>6 DEF IndInv, Pricing!OneActivePerTerm, Active
<1>10. Pricing!ActivatedHasLines'
    BY <1>1, <1>2, <1>3, <1>5 DEF IndInv, Pricing!ActivatedHasLines, Pricing!Alone, Holds
<1> QED BY <1>1, <1>7, <1>8, <1>9, <1>10, EndStep

LEMMA ActivateWrites ==
    ASSUME IndInv, NEW r \in Reqs, Pricing!ActivateCommit(r)
    PROVE  /\ edit[r] # Pricing!Idle /\ Holds(edit[r])
           /\ edit[r].archives # None => edit[r].archives \in Drafts \ {edit[r].s} /\ status[edit[r].archives] # "none"
                                         /\ term[edit[r].archives] = term[edit[r].s]
           /\ \A x \in Drafts : status'[x] = IF x = edit[r].s THEN "active"
                                             ELSE IF x = edit[r].archives THEN "archived" ELSE status[x]
<1> DEFINE s == edit[r].s
           a == edit[r].archives
<1>1. edit[r] # Pricing!Idle
    BY DEF Pricing!ActivateCommit, Pricing!Idle
<1>2. Holds(edit[r])
    BY <1>1 DEF IndInv, HandlersHold
<1>3. a # None => a \in Drafts \ {s} /\ status[a] # "none" /\ term[a] = term[s]
    BY <1>2 DEF Pricing!ActivateCommit, Holds
<1>4. s # a
    BY <1>2, <1>3, FinanceAssumption DEF FinanceAssumption, Holds
<1>5. ASSUME NEW x \in Drafts
      PROVE  status'[x] = IF x = s THEN "active" ELSE IF x = a THEN "archived" ELSE status[x]
    <2>1. status'[x] = CASE x = s -> "active" [] x = a -> "archived" [] OTHER -> status[x]
        BY DEF Pricing!ActivateCommit
    <2> QED BY <1>4, <2>1
<1> QED BY <1>1, <1>2, <1>3, <1>5

\* Activation leaves its own structure active in the term, alone unless crossed.
LEMMA ActivateCommitStep ==
    ASSUME IndInv, NEW r \in Reqs, Pricing!ActivateCommit(r)
    PROVE  IndInv'
<1> DEFINE s == edit[r].s
           a == edit[r].archives
<1>1. edit[r] # Pricing!Idle /\ Pricing!Done(r) /\ UNCHANGED <<term, content>>
    BY DEF Pricing!ActivateCommit, Pricing!Idle
<1>2. edit' = [edit EXCEPT ![r] = Pricing!Idle] /\ UNCHANGED crossed
    BY <1>1 DEF Pricing!Done
<1>3. Holds(edit[r]) /\ s \in Drafts /\ status[s] # "none" /\ term[s] \in DraftTerms
    BY ActivateWrites DEF IndInv, Holds, TermsKnown
<1>4. a = None \/ (a \in Drafts \ {s} /\ status[a] # "none" /\ term[a] = term[s])
    BY ActivateWrites
<1>5. \A x \in Drafts : status'[x] = IF x = s THEN "active" ELSE IF x = a THEN "archived" ELSE status[x]
    BY ActivateWrites
<1>6. Shapes' /\ TermsKnown'
    <2>1. status' = [x \in Drafts |-> status'[x]]
        BY DEF Pricing!ActivateCommit
    <2>2. status' \in [Drafts -> Statuses]
        BY <1>5, <2>1 DEF IndInv, Shapes, Statuses
    <2>3. Shapes'
        BY <1>1, <1>2, <2>2 DEF IndInv, Shapes, Pricing!Requests, Pricing!Idle
    <2>4. TermsKnown'
        BY <1>1, <1>3, <1>4, <1>5, FinanceAssumption DEF IndInv, TermsKnown, FinanceAssumption
    <2> QED BY <2>3, <2>4
<1>7. \A t : t # term[s] => Active(t)' = Active(t)
    BY <1>1, <1>3, <1>4, <1>5, FinanceAssumption DEF Active, Pricing!ActiveIn, FinanceAssumption
<1>8. \A x \in Drafts : Pricing!HasLines(x)' = Pricing!HasLines(x)
    BY <1>1 DEF Pricing!HasLines
<1>9. \A q \in Reqs \ {r} : edit[q] # Pricing!Idle => Holds(edit[q])'
    <2> SUFFICES ASSUME NEW q \in Reqs \ {r}, edit[q] # Pricing!Idle PROVE Holds(edit[q])'
        OBVIOUS
    <2>1. Holds(edit[q])
        BY DEF IndInv, HandlersHold
    <2>2. \A x \in Drafts : status[x] # "none" => status'[x] # "none"
        BY <1>5
    <2>3. term[edit[q].s] \notin crossed => term[edit[q].s] # term[s]
        BY <1>1 DEF IndInv, Apart
    <2>4. \A x \in Drafts : term[x] # term[s] => status'[x] = status[x]
        BY <1>4, <1>5, FinanceAssumption DEF FinanceAssumption
    <2> QED BY <1>1, <1>2, <1>7, <1>8, <2>1, <2>2, <2>3, <2>4 DEF Holds
<1>10. Pricing!OneActivePerTerm'
    <2> SUFFICES ASSUME NEW t \in DraftTerms \ crossed, NEW x \in Active(t)', NEW y \in Active(t)'
                 PROVE  x = y
        BY <1>2 DEF Pricing!OneActivePerTerm, Active
    <2>1. CASE t # term[s]
        BY <1>7, <2>1 DEF IndInv, Pricing!OneActivePerTerm, Active
    <2>2. CASE t = term[s]
        <3>1. Active(t) \subseteq {a}
            BY <1>3, <2>2 DEF Holds, Pricing!ActivateCommit
        <3>2. \A z \in Active(t)' : z = s
            BY <1>1, <1>5, <3>1 DEF Active, Pricing!ActiveIn
        <3> QED BY <3>2
    <2> QED BY <2>1, <2>2
<1>11. Pricing!ActivatedHasLines'
    <2> SUFFICES ASSUME NEW x \in Drafts, term[x] \notin crossed, status'[x] \in {"active", "archived"}
                 PROVE  Pricing!HasLines(x)
        BY <1>1, <1>2, <1>8 DEF Pricing!ActivatedHasLines, Pricing!Alone
    <2>1. CASE x = s
        BY <1>3, <2>1 DEF Holds, Pricing!ActivateCommit
    <2>2. CASE x # s /\ x = a
        <3>1. status[a] = "active"
            BY <1>3, <1>4, <2>2, FinanceAssumption DEF Holds, Pricing!ActivateCommit, FinanceAssumption
        <3> QED BY <2>2, <3>1 DEF IndInv, Pricing!ActivatedHasLines, Pricing!Alone
    <2>3. CASE x # s /\ x # a
        BY <1>5, <2>3 DEF IndInv, Pricing!ActivatedHasLines, Pricing!Alone
    <2> QED BY <2>1, <2>2, <2>3
<1> QED BY <1>1, <1>6, <1>9, <1>10, <1>11, EndStep

-----------------------------------------------------------------------------
(* Creating, and every step                                                *)

LEMMA CreateStep ==
    ASSUME IndInv, NEW s \in Drafts, NEW t \in DraftTerms, NEW h \in Heads, Pricing!Create(s, t, h)
    PROVE  IndInv'
<1>1. UNCHANGED <<content, edit, crossed>>
    BY DEF Pricing!Create
<1>2. /\ status[s] = "none" /\ status'[s] = "draft" /\ term'[s] = t
      /\ \A x \in Drafts \ {s} : status'[x] = status[x] /\ term'[x] = term[x]
    BY DEF Pricing!Create, IndInv, Shapes
<1>3. Shapes' /\ TermsKnown'
    <2>1. status' \in [Drafts -> Statuses] /\ term' \in [Drafts -> DraftTerms \cup {None}]
        BY DEF Pricing!Create, IndInv, Shapes, Statuses
    <2> QED BY <1>1, <1>2, <2>1 DEF IndInv, Shapes, TermsKnown
<1>4. \A u : Active(u)' = Active(u)
    BY <1>2 DEF Active, Pricing!ActiveIn
<1>5. \A x \in Drafts : Pricing!HasLines(x)' = Pricing!HasLines(x)
    BY <1>1 DEF Pricing!HasLines
<1>6. \A r \in Reqs : edit[r] # Pricing!Idle => edit[r].s \in Drafts \ {s}
    BY <1>2 DEF IndInv, HandlersHold, Holds
<1>7. HandlersHold'
    <2> SUFFICES ASSUME NEW r \in Reqs, edit[r] # Pricing!Idle PROVE Holds(edit[r])'
        BY <1>1 DEF IndInv, HandlersHold
    <2>1. Holds(edit[r])
        BY DEF IndInv, HandlersHold
    <2> QED BY <1>1, <1>2, <1>4, <1>5, <1>6, <2>1 DEF Holds
<1>8. Apart'
    BY <1>1, <1>2, <1>6 DEF IndInv, Apart
<1>9. Pricing!OneActivePerTerm'
    BY <1>1, <1>4 DEF IndInv, Pricing!OneActivePerTerm, Active
<1>10. Pricing!ActivatedHasLines'
    BY <1>1, <1>2, <1>5 DEF IndInv, Pricing!ActivatedHasLines, Pricing!Alone
<1> QED BY <1>3, <1>7, <1>8, <1>9, <1>10 DEF IndInv

LEMMA PricingStep == ASSUME IndInv, Pricing!Next PROVE IndInv'
<1>1. ASSUME NEW s \in Drafts, NEW t \in DraftTerms, NEW h \in Heads, Pricing!Create(s, t, h) PROVE IndInv'
    BY <1>1, CreateStep
<1>2. ASSUME NEW r \in Reqs, NEW s \in Drafts, NEW h \in Heads, Pricing!HeadRead(r, s, h) PROVE IndInv'
    BY <1>2, HeadReadStep
<1>3. ASSUME NEW r \in Reqs, NEW s \in Drafts, NEW i \in Slots, NEW op \in {"add", "edit"}, NEW f \in Fees,
             Pricing!LineRead(r, op, s, i, f)
      PROVE  IndInv'
    BY <1>3, LineReadStep DEF Pricing!LineOps
<1>4. ASSUME NEW r \in Reqs, NEW s \in Drafts, NEW i \in Slots, Pricing!LineRead(r, "delete", s, i, None)
      PROVE  IndInv'
    BY <1>4, LineReadStep DEF Pricing!LineOps
<1>5. ASSUME NEW r \in Reqs, NEW s \in Drafts, Pricing!ActivateRead(r, s) PROVE IndInv'
    BY <1>5, ActivateReadStep
<1>6. ASSUME NEW r \in Reqs, Pricing!HeadCommit(r) PROVE IndInv'
    BY <1>6, QuietEndStep DEF Pricing!HeadCommit, Pricing!Idle
<1>7. ASSUME NEW r \in Reqs, Pricing!LineCommit(r) PROVE IndInv'
    BY <1>7, LineCommitStep
<1>8. ASSUME NEW r \in Reqs, Pricing!ActivateCommit(r) PROVE IndInv'
    BY <1>8, ActivateCommitStep
<1>9. ASSUME NEW r \in Reqs, Pricing!Rollback(r) PROVE IndInv'
    BY <1>9, QuietEndStep DEF Pricing!Rollback
<1> QED BY <1>1, <1>2, <1>3, <1>4, <1>5, <1>6, <1>7, <1>8, <1>9 DEF Pricing!Next

LEMMA StutterStep == ASSUME IndInv, UNCHANGED pricing PROVE IndInv'
<1> USE DEF pricing
<1>1. Shapes' /\ TermsKnown' /\ Apart'
    BY DEF IndInv, Shapes, TermsKnown, Apart
<1>2. HandlersHold'
    BY DEF IndInv, HandlersHold, Holds, Active, Pricing!ActiveIn, Pricing!HasLines
<1>3. Pricing!OneActivePerTerm' /\ Pricing!ActivatedHasLines'
    BY DEF IndInv, Pricing!OneActivePerTerm, Pricing!ActivatedHasLines, Pricing!Alone, Pricing!ActiveIn,
           Pricing!HasLines
<1> QED BY <1>1, <1>2, <1>3 DEF IndInv

LEMMA NextInv == ASSUME IndInv, [FinanceNext]_<<part, vars, pricing>> PROVE IndInv'
BY PricingStep, StutterStep DEF FinanceNext

LEMMA StructuresInv == FinanceSpec => []IndInv
<1> USE DEF FinanceSpec
<1> QED BY InitInv, NextInv, PTL

\* A term has one active fee structure at most, and what was activated has a line,
\* for any requests that do not cross on it (activate_structure).
THEOREM StructuresStaySound == FinanceSpec => []StructuresAreSound
<1>1. IndInv => StructuresAreSound
    BY DEF IndInv, StructuresAreSound
<1> QED BY <1>1, StructuresInv, PTL

-----------------------------------------------------------------------------
(* What a step may not do                                                  *)

\* Reading writes nothing but what the handler holds.
LEMMA Writers ==
    ASSUME Pricing!Next
    PROVE  \/ \E s \in Drafts, t \in DraftTerms, h \in Heads : Pricing!Create(s, t, h)
           \/ \E r \in Reqs : Pricing!HeadCommit(r) \/ Pricing!LineCommit(r) \/ Pricing!ActivateCommit(r)
           \/ UNCHANGED <<status, term, head, content>>
<1>1. ASSUME NEW r \in Reqs, NEW s \in Drafts, NEW h \in Heads, Pricing!HeadRead(r, s, h)
      PROVE  UNCHANGED <<status, term, head, content>>
    BY <1>1 DEF Pricing!HeadRead, Pricing!Hold
<1>2. ASSUME NEW r \in Reqs, NEW s \in Drafts, NEW i \in Slots, NEW op, NEW f, Pricing!LineRead(r, op, s, i, f)
      PROVE  UNCHANGED <<status, term, head, content>>
    BY <1>2 DEF Pricing!LineRead, Pricing!Hold
<1>3. ASSUME NEW r \in Reqs, NEW s \in Drafts, Pricing!ActivateRead(r, s)
      PROVE  UNCHANGED <<status, term, head, content>>
    BY <1>3 DEF Pricing!ActivateRead, Pricing!Hold
<1>4. ASSUME NEW r \in Reqs, Pricing!Rollback(r)
      PROVE  UNCHANGED <<status, term, head, content>>
    BY <1>4 DEF Pricing!Rollback
<1> QED BY <1>1, <1>2, <1>3, <1>4 DEF Pricing!Next

\* Whatever was active in a term, an activation there leaves one active.
LEMMA PricedStep == ASSUME IndInv, [FinanceNext]_<<part, vars, pricing>> PROVE [Pricing!PricedStays]_pricing
<1> SUFFICES ASSUME Pricing!Next, NEW t \in DraftTerms, NEW x \in Active(t)
             PROVE  \E y \in Drafts : status'[y] = "active" /\ term'[y] = t
    BY DEF FinanceNext, Pricing!PricedStays, Active, Pricing!ActiveIn, pricing
<1> USE DEF Active, Pricing!ActiveIn
<1>1. ASSUME NEW s \in Drafts, NEW u \in DraftTerms, NEW h \in Heads, Pricing!Create(s, u, h)
      PROVE  status'[x] = "active" /\ term'[x] = t
    BY <1>1 DEF Pricing!Create, IndInv, Shapes
<1>2. ASSUME NEW r \in Reqs, Pricing!ActivateCommit(r)
      PROVE  \E y \in Drafts : status'[y] = "active" /\ term'[y] = t
    <2>1. PICK s \in Drafts : s = edit[r].s
        BY <1>2, ActivateWrites DEF Holds
    <2>2. UNCHANGED term /\ status'[s] = "active"
        BY <1>2, <2>1, ActivateWrites DEF Pricing!ActivateCommit
    <2>3. CASE t # term[s]
        BY <1>2, <2>1, <2>2, <2>3, ActivateWrites, FinanceAssumption DEF FinanceAssumption
    <2> QED BY <2>2, <2>3
<1>3. CASE UNCHANGED <<status, term>>
    BY <1>3
<1> QED BY <1>1, <1>2, <1>3, Writers DEF Pricing!HeadCommit, Pricing!LineCommit

\* A handler that was not crossed writes to a draft.
LEMMA FrozenStep == ASSUME IndInv, [FinanceNext]_<<part, vars, pricing>> PROVE [Pricing!FrozenStays]_pricing
<1> SUFFICES ASSUME Pricing!Next, NEW x \in Pricing!Alone, status[x] \in {"active", "archived"}
             PROVE  content'[x] = content[x] /\ head'[x] = head[x]
    BY DEF FinanceNext, Pricing!FrozenStays, pricing
<1>1. x \in Drafts /\ term[x] \notin crossed
    BY DEF Pricing!Alone
<1>2. ASSUME NEW s \in Drafts, NEW u \in DraftTerms, NEW h \in Heads, Pricing!Create(s, u, h)
      PROVE  content'[x] = content[x] /\ head'[x] = head[x]
    BY <1>1, <1>2 DEF Pricing!Create, Pricing!Alone
<1>3. ASSUME NEW r \in Reqs, edit[r].op = "head" \/ edit[r].op \in Pricing!LineOps
      PROVE  edit[r].s # x
    BY <1>1, <1>3 DEF IndInv, HandlersHold, Holds, Pricing!Idle, Pricing!LineOps
<1>4. ASSUME NEW r \in Reqs, Pricing!HeadCommit(r)
      PROVE  content'[x] = content[x] /\ head'[x] = head[x]
    BY <1>1, <1>3, <1>4 DEF Pricing!HeadCommit
<1>5. ASSUME NEW r \in Reqs, Pricing!LineCommit(r)
      PROVE  content'[x] = content[x] /\ head'[x] = head[x]
    BY <1>1, <1>3, <1>5 DEF Pricing!LineCommit, Pricing!LineOps
<1>6. CASE UNCHANGED <<content, head>>
    BY <1>6
<1> QED BY <1>2, <1>4, <1>5, <1>6, Writers DEF Pricing!ActivateCommit

\* A priced term stays priced whatever overlaps, and what was activated stays as it
\* is for any requests that do not cross on its term.
THEOREM PricesStayPut == FinanceSpec => PricesHold
<1>1. IndInv /\ [FinanceNext]_<<part, vars, pricing>> => [Pricing!PricedStays /\ Pricing!FrozenStays]_pricing
    BY PricedStep, FrozenStep
<1> QED BY <1>1, StructuresInv, PTL DEF FinanceSpec, PricesHold

-----------------------------------------------------------------------------
(* Sums                                                                    *)

LinesAmount(ls) == MapThenSumSet(LAMBDA l : l[1].amount, ls)

LEMMA AmountSum ==
    ASSUME NEW F, IsFiniteSet(F)
    PROVE  \E it : IsSum(it, [f \in F |-> f.amount], F) /\ Amount(F) = it[F]
<1> DEFINE w == [f \in F |-> f.amount]
<1> DEFINE D(it) == it = [s \in SUBSET F |-> IF s = {} THEN 0
                             ELSE LET x == CHOOSE y \in s : TRUE IN x.amount + it[s \ {x}]]
<1>1. PICK g : IsSum(g, w, F)
    BY SumExists
<1>2. \A it : IsSum(it, w, F) <=> D(it)
    BY DEF IsSum, One
<1>3. D(CHOOSE it : D(it))
    <2> HIDE DEF w, D
    <2>1. \E it : D(it)
        BY <1>1, <1>2
    <2> QED BY <2>1
<1>4. Amount(F) = (CHOOSE it : D(it))[F]
    BY DEF Amount, MapThenSumSet, MapThenFoldSet
<1> QED BY <1>2, <1>3, <1>4

LEMMA LinesSum ==
    ASSUME NEW L, IsFiniteSet(L)
    PROVE  \E it : IsSum(it, [l \in L |-> l[1].amount], L) /\ LinesAmount(L) = it[L]
<1> DEFINE w == [l \in L |-> l[1].amount]
<1> DEFINE D(it) == it = [s \in SUBSET L |-> IF s = {} THEN 0
                             ELSE LET x == CHOOSE y \in s : TRUE IN x[1].amount + it[s \ {x}]]
<1>1. PICK g : IsSum(g, w, L)
    BY SumExists
<1>2. \A it : IsSum(it, w, L) <=> D(it)
    BY DEF IsSum, One
<1>3. D(CHOOSE it : D(it))
    <2> HIDE DEF w, D
    <2>1. \E it : D(it)
        BY <1>1, <1>2
    <2> QED BY <2>1
<1>4. LinesAmount(L) = (CHOOSE it : D(it))[L]
    BY DEF LinesAmount, MapThenSumSet, MapThenFoldSet
<1> QED BY <1>2, <1>3, <1>4

LEMMA SumOfStamped ==
    ASSUME NEW F, IsFiniteSet(F), \A f \in F : f.amount \in Nat, NEW k
    PROVE  LinesAmount({<<f, k>> : f \in F}) = Amount(F)
<1> DEFINE Stamped(s) == {<<f, k>> : f \in s}
<1> DEFINE L == Stamped(F)
<1> DEFINE v == [f \in F |-> f.amount]
<1> DEFINE w == [l \in L |-> l[1].amount]
<1>0. IsFiniteSet(L)
    <2> DEFINE h == [f \in F |-> <<f, k>>]
    <2>1. h \in Surjection(F, L)
        BY DEF Surjection
    <2> HIDE DEF h, L
    <2> QED BY <2>1, FS_Surjection
<1>1. PICK a : IsSum(a, v, F) /\ Amount(F) = a[F]
    BY AmountSum
<1>2. PICK b : IsSum(b, w, L) /\ LinesAmount(L) = b[L]
    <2> HIDE DEF L
    <2> QED BY <1>0, LinesSum
<1>3. v \in [F -> Nat] /\ w \in [L -> Nat] /\ \A f \in F : <<f, k>> \in L /\ w[<<f, k>>] = v[f]
    OBVIOUS
<1> DEFINE T == {s \in SUBSET F : b[Stamped(s)] = a[s]}
<1>4. ASSUME NEW s \in SUBSET F, \A u \in SUBSET s : u # s => u \in T PROVE s \in T
    <2>1. CASE s = {}
        BY <1>1, <1>2, <2>1 DEF IsSum
    <2>2. CASE s # {}
        <3>1. PICK x \in s : TRUE
            BY <2>2
        <3>2. s \ {x} \in T
            BY <1>4, <3>1
        <3>3. Stamped(s) \in SUBSET L /\ <<x, k>> \in Stamped(s)
            OBVIOUS
        <3>4. Stamped(s) \ {<<x, k>>} = Stamped(s \ {x})
            OBVIOUS
        <3> HIDE DEF Stamped, L, v, w
        <3>5. a[s] = v[x] + a[s \ {x}]
            BY <1>1, <1>3, SumAnyOrder
        <3>6. b[Stamped(s)] = w[<<x, k>>] + b[Stamped(s) \ {<<x, k>>}]
            BY <1>0, <1>2, <1>3, <3>3, SumAnyOrder
        <3> QED BY <1>3, <3>2, <3>4, <3>5, <3>6
    <2> QED BY <2>1, <2>2
<1> HIDE DEF T
<1>5. T \in SUBSET (SUBSET F)
    BY DEF T
<1>6. T = SUBSET F
    BY <1>4, <1>5, SubsetInduction
<1> QED BY <1>1, <1>2, <1>6 DEF T

LEMMA AmountIsNat ==
    ASSUME NEW F, IsFiniteSet(F), \A f \in F : f.amount \in Nat
    PROVE  Amount(F) \in Nat
<1> DEFINE v == [f \in F |-> f.amount]
<1>1. PICK it : IsSum(it, v, F) /\ Amount(F) = it[F]
    BY AmountSum
<1>2. v \in [F -> Nat]
    OBVIOUS
<1> HIDE DEF v
<1> QED BY <1>1, <1>2, SumIsNat

-----------------------------------------------------------------------------
(* Billing: the invariant                                                  *)

FeeRows == UNION {FeesOf[s] : s \in Structs}
Count(t) == Cardinality(Issued \cap Of(t))

Works ==
    [at : {"idle", "structure", "read", "deleting", "deleted", "issued", "paying"},
     term : Terms \cup {None}, refresh : BOOLEAN, struct : Structs \cup {None},
     create : SUBSET Bills, renew : SUBSET Bills, loaded : [Bills -> Invoices \cup {None}],
     target : SUBSET (Bills \X FeeRows \X Stamps), numbers : SUBSET (Bills \X (Nat \X Nat)),
     bill : Bills \cup {None}, amount : Nat]

LedgerShapes ==
    /\ active \in [Terms -> Structs \cup {None}] /\ roster \in [Terms -> SUBSET Students]
    /\ invoice \in [Bills -> Invoices \cup {None}]
    /\ lines \in [Bills -> SUBSET (FeeRows \X Stamps)]
    /\ received \in [Bills -> Nat]
    /\ raced \in SUBSET Bills
    /\ req \in [Reqs -> Works]

\* Where a generation has something to create or renew.
Generating == {"read", "deleting", "deleted", "issued"}

\* What a handler q remembers holds whatever the others do.
WorkHolds(q) ==
    /\ q.at \notin Generating => q.create = {} /\ q.renew = {}
    /\ q.at # "paying" => q.bill = None
    /\ q.at \in Generating \cup {"structure"} => q.term \in Terms /\ q.struct \in Structs
    /\ q.at \in Generating =>
          /\ q.create \cup q.renew \subseteq Of(q.term) /\ q.create \cap q.renew = {}
          /\ \A b \in q.renew : invoice[b] # None /\ q.loaded[b] # None
    /\ q.at = "paying" =>
          /\ q.bill \in Bills /\ invoice[q.bill] # None /\ q.loaded[q.bill] # None
          /\ q.amount >= 1 /\ q.amount <= q.loaded[q.bill].total - q.loaded[q.bill].paid
          /\ q.loaded[q.bill].paid <= received[q.bill]

\* The numbers of an issued generation are free: its own by the locks of the insert.
NumbersReserved(q) ==
    q.at = "issued" =>
        /\ \A b \in q.create : invoice[b] = None /\ \E x \in q.numbers : x[1] = b
        /\ \A x \in q.numbers :
              /\ x[1] \in q.create /\ x[2] \notin NumbersInUse
              /\ \E k \in 1..(Count(q.term) + Cardinality(q.create)) : x[2] = Number(q.term, k)
        /\ \A x, y \in q.numbers : (x[1] = y[1] \/ x[2] = y[2]) => x = y

\* The lines the DELETE of q saw of invoice b.
Gone(q, b) == {<<x[2], x[3]>> : x \in {y \in q.target : y[1] = b}}

\* What q read of an invoice still is so, if nobody else worked on it.
StillSo(q) ==
    /\ \A b \in q.create \ raced : invoice[b] = None
    /\ \A b \in q.renew \ raced :
          /\ q.loaded[b] = invoice[b] /\ invoice[b].paid = 0 /\ invoice[b].status = "unpaid"
          /\ q.at \in {"deleting", "deleted", "issued"} => Gone(q, b) = lines[b]
    /\ (q.at = "paying" /\ q.bill \notin raced) => q.loaded[q.bill] = invoice[q.bill]

WorkApart ==
    \A r, q \in Reqs : r # q =>
        /\ Touched(r) \cap Touched(q) \subseteq raced
        /\ (req[r].at = "issued" /\ req[q].at = "issued") =>
              \A x \in req[r].numbers, y \in req[q].numbers : x[1] # y[1] /\ x[2] # y[2]

\* Lines written by one generation add up to the total.
LinesAreOneWrite ==
    \A b \in Alone : \E fees \in SUBSET FeeRows : \E k \in Stamps :
        /\ IsFiniteSet(fees)
        /\ lines[b] = {<<f, k>> : f \in fees} /\ invoice[b].total = Amount(fees)

NumbersCounted ==
    \A b \in Issued : \E k \in 1..Count(b[2]) : invoice[b].number = Number(b[2], k)

BlankUntilIssued == \A b \in Bills \ Issued : lines[b] = {} /\ received[b] = 0

BooksHold ==
    /\ BlankUntilIssued /\ NumbersCounted /\ LinesAreOneWrite
    /\ PaidWasReceived /\ NumbersUnique
    /\ PaymentsAddUp /\ OverpaidOnlyByOverlap /\ StatusTellsBalance

OneYear == \A t, u \in Terms : TermNumber[t] = TermNumber[u] => t = u

LedgerInv ==
    /\ LedgerShapes /\ BooksHold /\ WorkApart
    /\ \A r \in Reqs : WorkHolds(req[r]) /\ NumbersReserved(req[r]) /\ StillSo(req[r])
    /\ OneYear => ~clashed

-----------------------------------------------------------------------------
(* Counting                                                                *)

LEMMA BillsFinite ==
    /\ IsFiniteSet(Bills)
    /\ \A t \in Terms : IsFiniteSet(Of(t)) /\ IsFiniteSet(Issued \cap Of(t))
    /\ None \notin Bills /\ None \notin Invoices
<1>1. IsFiniteSet(Bills)
    BY FinanceAssumption, FS_Product DEF Bills
<1>2. \A t \in Terms : Of(t) \in SUBSET Bills /\ (Issued \cap Of(t)) \in SUBSET Bills
    BY DEF Of
<1> QED BY <1>1, <1>2, FS_Subset, FinanceAssumption

\* Invoices only become more.
LEMMA CountGrows ==
    ASSUME NEW t \in Terms, Issued \subseteq Issued'
    PROVE  Count(t) \in Nat /\ Count(t)' \in Nat /\ Count(t) <= Count(t)'
<1>1. (Issued' \cap Of(t)) \in SUBSET Bills /\ (Issued \cap Of(t)) \in SUBSET (Issued' \cap Of(t))
    BY DEF Issued, Of
<1>2. IsFiniteSet(Issued' \cap Of(t))
    BY <1>1, BillsFinite, FS_Subset
<1> QED BY <1>1, <1>2, FS_Subset, FS_CardinalityType DEF Count

\* The numbers _next_invoice_number hands out: above those of the term, and distinct.
LEMMA NumbersForCreated ==
    ASSUME LedgerShapes, NEW r \in Reqs, req[r].term \in Terms, req[r].create \subseteq Of(req[r].term)
    PROVE  /\ \A b \in req[r].create :
                  \E k \in (Count(req[r].term) + 1)..(Count(req[r].term) + Cardinality(req[r].create)) :
                      NumberFor(r, b) = Number(req[r].term, k)
           /\ \A b, c \in req[r].create : NumberFor(r, b) = NumberFor(r, c) => b = c
           /\ Count(req[r].term) \in Nat /\ Cardinality(req[r].create) \in Nat
<1> DEFINE t == req[r].term
           create == req[r].create
           Upto(b) == {c \in create : c[1] <= b[1]}
<1>1. IsFiniteSet(create) /\ Count(t) \in Nat
    BY BillsFinite, FS_Subset, FS_CardinalityType DEF Count
<1>2. \A b \in create : /\ Upto(b) \in SUBSET create /\ b \in Upto(b)
                        /\ b[1] \in Nat /\ b = <<b[1], t>>
    BY FinanceAssumption DEF Of, Bills
<1>3. \A b \in create : NumberFor(r, b) = Number(t, Count(t) + Cardinality(Upto(b)))
    <2>1. {c \in Of(t) : invoice[c] # None} = Issued \cap Of(t)
        BY DEF Issued, Of
    <2> QED BY <2>1 DEF NumberFor, Count
<1>4. \A b \in create : Cardinality(Upto(b)) \in 1..Cardinality(create)
    <2> SUFFICES ASSUME NEW b \in create PROVE Cardinality(Upto(b)) \in 1..Cardinality(create)
        OBVIOUS
    <2> HIDE DEF create, Upto
    <2>1. IsFiniteSet(Upto(b)) /\ Cardinality(Upto(b)) \in Nat /\ Cardinality(create) \in Nat
          /\ Cardinality(Upto(b)) <= Cardinality(create)
        BY <1>1, <1>2, FS_Subset, FS_CardinalityType
    <2>2. Cardinality(Upto(b)) # 0
        BY <1>2, <2>1, FS_EmptySet
    <2> QED BY <2>1, <2>2
<1>5. \A b, c \in create : b # c => Cardinality(Upto(b)) # Cardinality(Upto(c))
    <2>1. \A b, c \in create : b[1] < c[1] => Upto(b) \in SUBSET Upto(c) /\ Upto(b) # Upto(c)
        BY <1>2
    <2>2. \A b, c \in create : b # c => b[1] < c[1] \/ c[1] < b[1]
        BY <1>2
    <2>3. \A b \in create : IsFiniteSet(Upto(b))
        BY <1>1, <1>2, FS_Subset
    <2> HIDE DEF create, Upto
    <2> QED BY <2>1, <2>2, <2>3, FS_Subset
<1>6. Cardinality(create) \in Nat
    BY <1>1, FS_CardinalityType
<1> HIDE DEF create, Upto, t
<1>7. \A b \in create : \E k \in (Count(t) + 1)..(Count(t) + Cardinality(create)) : NumberFor(r, b) = Number(t, k)
    <2> SUFFICES ASSUME NEW b \in create
                 PROVE  \E k \in (Count(t) + 1)..(Count(t) + Cardinality(create)) : NumberFor(r, b) = Number(t, k)
        OBVIOUS
    <2>1. Count(t) + Cardinality(Upto(b)) \in (Count(t) + 1)..(Count(t) + Cardinality(create))
        BY <1>1, <1>4, <1>6
    <2> QED BY <1>3, <2>1
<1>8. \A b, c \in create : NumberFor(r, b) = NumberFor(r, c) => b = c
    <2> SUFFICES ASSUME NEW b \in create, NEW c \in create, NumberFor(r, b) = NumberFor(r, c) PROVE b = c
        OBVIOUS
    <2>1. Count(t) + Cardinality(Upto(b)) = Count(t) + Cardinality(Upto(c))
        BY <1>3 DEF Number
    <2> QED BY <1>1, <1>4, <1>5, <2>1
<1> QED BY <1>1, <1>6, <1>7, <1>8 DEF t, create

-----------------------------------------------------------------------------
(* Steps that leave the books alone                                        *)

LEMMA IdleWorks ==
    ASSUME LedgerShapes
    PROVE  Idle \in Works /\ WorkHolds(Idle) /\ NumbersReserved(Idle) /\ StillSo(Idle)
<1>1. Idle \in Works
    BY DEF Idle, Works, NoSnapshot
<1> QED BY <1>1 DEF WorkHolds, NumbersReserved, StillSo, Generating, Idle

LEMMA LedgerInit == ASSUME Init PROVE LedgerInv
<1> USE DEF Init
<1>1. LedgerShapes
    <2>1. Idle \in Works
        BY DEF Idle, Works, NoSnapshot
    <2> QED BY <2>1 DEF LedgerShapes
<1>2. Issued = {} /\ Alone = {}
    BY DEF Issued, Alone
<1>3. BooksHold
    BY <1>2 DEF BooksHold, BlankUntilIssued, NumbersCounted, LinesAreOneWrite, PaidWasReceived, NumbersUnique,
                PaymentsAddUp, OverpaidOnlyByOverlap, StatusTellsBalance
<1>4. WorkApart
    BY DEF WorkApart, Touched, Idle
<1>5. \A r \in Reqs : WorkHolds(req[r]) /\ NumbersReserved(req[r]) /\ StillSo(req[r])
    BY <1>1, IdleWorks
<1> QED BY <1>1, <1>3, <1>4, <1>5 DEF LedgerInv

\* What holds of the invoices is kept while they, their lines and payments stay.
LEMMA BooksStay ==
    ASSUME BooksHold, UNCHANGED <<invoice, lines, received>>, raced \subseteq raced'
    PROVE  /\ BooksHold' /\ Issued' = Issued /\ NumbersInUse' = NumbersInUse
           /\ \A t : Count(t)' = Count(t)
           /\ \A q : (WorkHolds(q) => WorkHolds(q)') /\ (NumbersReserved(q) => NumbersReserved(q)')
                     /\ (StillSo(q) => StillSo(q)')
<1>1. Issued' = Issued /\ NumbersInUse' = NumbersInUse /\ Alone' \subseteq Alone
    BY DEF Issued, NumbersInUse, Alone
<1>2. \A t : Count(t)' = Count(t)
    BY <1>1 DEF Count
<1>3. \A q : WorkHolds(q) => WorkHolds(q)'
    BY DEF WorkHolds
<1>4. \A q : NumbersReserved(q) => NumbersReserved(q)'
    BY <1>1, <1>2 DEF NumbersReserved
<1>5. \A q : StillSo(q) => StillSo(q)'
    BY DEF StillSo, Gone
<1>6. (BlankUntilIssued /\ NumbersCounted /\ PaidWasReceived /\ NumbersUnique)'
    BY <1>1, <1>2 DEF BooksHold, BlankUntilIssued, NumbersCounted, PaidWasReceived, NumbersUnique
<1>7. (PaymentsAddUp /\ OverpaidOnlyByOverlap /\ StatusTellsBalance)'
    BY <1>1 DEF BooksHold, PaymentsAddUp, OverpaidOnlyByOverlap, StatusTellsBalance
<1>8. LinesAreOneWrite'
    BY <1>1 DEF BooksHold, LinesAreOneWrite
<1> QED BY <1>1, <1>2, <1>3, <1>4, <1>5, <1>6, <1>7, <1>8 DEF BooksHold

\* What q works on, of a request record q.
TouchedBy(q) == q.create \cup q.renew \cup ({q.bill} \ {None})

\* A handler that goes on with what it read, or gives up.
LEMMA TakeStep ==
    ASSUME LedgerInv, NEW r \in Reqs, NEW w \in Works, req' = [req EXCEPT ![r] = w],
           UNCHANGED <<setting, invoice, lines, received>>, raced' \in SUBSET Bills, raced \subseteq raced',
           WorkHolds(w), NumbersReserved(w), StillSo(w),
           \A q \in Reqs \ {r} : TouchedBy(w) \cap Touched(q) \subseteq raced',
           w.at = "issued" => \A q \in Reqs \ {r} : req[q].at = "issued" =>
               \A x \in w.numbers, y \in req[q].numbers : x[1] # y[1] /\ x[2] # y[2],
           OneYear => ~clashed'
    PROVE  LedgerInv'
<1>1. LedgerShapes'
    BY DEF LedgerInv, LedgerShapes, setting
<1>2. /\ BooksHold'
      /\ \A q : (WorkHolds(q) => WorkHolds(q)') /\ (NumbersReserved(q) => NumbersReserved(q)')
                /\ (StillSo(q) => StillSo(q)')
    BY BooksStay DEF LedgerInv
<1>3. req'[r] = w /\ \A q \in Reqs \ {r} : req'[q] = req[q]
    BY DEF LedgerInv, LedgerShapes
<1>4. WorkHolds(w)' /\ NumbersReserved(w)' /\ StillSo(w)'
    BY <1>2
<1>5. \A q \in Reqs : (WorkHolds(req[q]) /\ NumbersReserved(req[q]) /\ StillSo(req[q]))'
    <2> SUFFICES ASSUME NEW q \in Reqs
                 PROVE  (WorkHolds(req[q]) /\ NumbersReserved(req[q]) /\ StillSo(req[q]))'
        OBVIOUS
    <2>1. CASE q = r
        BY <1>3, <1>4, <2>1
    <2>2. CASE q # r
        <3>1. WorkHolds(req[q]) /\ NumbersReserved(req[q]) /\ StillSo(req[q]) /\ req'[q] = req[q]
            BY <1>3, <2>2 DEF LedgerInv
        <3> QED BY <1>2, <3>1
    <2> QED BY <2>1, <2>2
<1>6. WorkApart'
    <2>1. \A q \in Reqs \ {r} : Touched(q)' = Touched(q)
        BY <1>3 DEF Touched
    <2>2. Touched(r)' = TouchedBy(w)
        BY <1>3 DEF Touched, TouchedBy
    <2>3. \A p, q \in Reqs : p # q => Touched(p)' \cap Touched(q)' \subseteq raced'
        BY <2>1, <2>2 DEF LedgerInv, WorkApart
    <2>4. \A p, q \in Reqs : (p # q /\ req'[p].at = "issued" /\ req'[q].at = "issued") =>
               \A x \in req'[p].numbers, y \in req'[q].numbers : x[1] # y[1] /\ x[2] # y[2]
        BY <1>3 DEF LedgerInv, WorkApart
    <2> QED BY <2>3, <2>4 DEF WorkApart
<1> QED BY <1>1, <1>2, <1>5, <1>6 DEF LedgerInv

LEMMA SettingStep ==
    ASSUME LedgerInv, UNCHANGED <<ledger, history, req>>,
           active' \in [Terms -> Structs \cup {None}], roster' \in [Terms -> SUBSET Students]
    PROVE  LedgerInv'
<1> USE DEF ledger, history
<1>1. LedgerShapes'
    BY DEF LedgerInv, LedgerShapes
<1>2. BooksHold' /\ \A q : (WorkHolds(q) => WorkHolds(q)') /\ (NumbersReserved(q) => NumbersReserved(q)')
                         /\ (StillSo(q) => StillSo(q)')
    BY BooksStay DEF LedgerInv
<1>3. WorkApart'
    <2>1. \A q \in Reqs : Touched(q)' = Touched(q)
        BY DEF Touched
    <2> QED BY <2>1 DEF LedgerInv, WorkApart
<1>4. \A q \in Reqs : (WorkHolds(req[q]) /\ NumbersReserved(req[q]) /\ StillSo(req[q]))'
    <2>1. \A q \in Reqs : WorkHolds(req[q]) /\ NumbersReserved(req[q]) /\ StillSo(req[q]) /\ req'[q] = req[q]
        BY DEF LedgerInv
    <2> QED BY <1>2, <2>1
<1> QED BY <1>1, <1>2, <1>3, <1>4 DEF LedgerInv

LEMMA RollbackStep == ASSUME LedgerInv, NEW r \in Reqs, Rollback(r) PROVE LedgerInv'
<1>1. /\ Idle \in Works /\ WorkHolds(Idle) /\ NumbersReserved(Idle) /\ StillSo(Idle)
      /\ TouchedBy(Idle) = {} /\ Idle.at # "issued"
    BY IdleWorks DEF LedgerInv, TouchedBy, Idle
<1>2. /\ req' = [req EXCEPT ![r] = Idle] /\ UNCHANGED <<setting, invoice, lines, received>>
      /\ raced' \in SUBSET Bills /\ raced \subseteq raced' /\ clashed' = clashed
    BY DEF Rollback, ledger, history, LedgerInv, LedgerShapes
<1>3. OneYear => ~clashed'
    BY <1>2 DEF LedgerInv
<1> HIDE DEF Idle
<1> QED BY <1>1, <1>2, <1>3, TakeStep

LEMMA ReadStructureStep ==
    ASSUME LedgerInv, NEW r \in Reqs, NEW t \in Terms, NEW refresh \in BOOLEAN, ReadStructure(r, t, refresh)
    PROVE  LedgerInv'
<1> DEFINE w == [Idle EXCEPT !.at = "structure", !.term = t, !.refresh = refresh, !.struct = active[t]]
<1>1. w \in Works /\ active[t] \in Structs
    BY IdleWorks DEF LedgerInv, LedgerShapes, ReadStructure, Works
<1>2. WorkHolds(w) /\ NumbersReserved(w) /\ StillSo(w) /\ TouchedBy(w) = {} /\ w.at # "issued"
    BY <1>1 DEF WorkHolds, NumbersReserved, StillSo, Generating, TouchedBy, Idle
<1>3. /\ req' = [req EXCEPT ![r] = w] /\ UNCHANGED <<setting, invoice, lines, received>>
      /\ raced' \in SUBSET Bills /\ raced \subseteq raced' /\ clashed' = clashed
    BY DEF ReadStructure, ledger, history, LedgerInv, LedgerShapes
<1>4. OneYear => ~clashed'
    BY <1>3 DEF LedgerInv
<1> HIDE DEF w
<1> QED BY <1>1, <1>2, <1>3, <1>4, TakeStep

LEMMA ReadInvoicesStep == ASSUME LedgerInv, NEW r \in Reqs, ReadInvoices(r) PROVE LedgerInv'
<1> DEFINE t == req[r].term
           due == {b \in Of(t) : b[1] \in roster[t]}
           renew == {b \in due : /\ req[r].refresh /\ invoice[b] # None
                                 /\ invoice[b].paid = 0 /\ invoice[b].status = "unpaid"}
           create == {b \in due : invoice[b] = None}
           w == [req[r] EXCEPT !.at = "read", !.renew = renew, !.create = create,
                    !.loaded = [b \in Bills |-> IF b \in renew THEN invoice[b] ELSE None]]
<1>1. req[r] \in Works /\ req[r].at = "structure" /\ t \in Terms /\ req[r].struct \in Structs /\ req[r].bill = None
    BY DEF LedgerInv, LedgerShapes, ReadInvoices, WorkHolds, Generating
<1>2. due \subseteq Of(t) /\ renew \subseteq due /\ create \subseteq due /\ Of(t) \subseteq Bills
      /\ renew \cap create = {}
    BY DEF Of
<1>3. w \in Works
    <2>1. [b \in Bills |-> IF b \in renew THEN invoice[b] ELSE None] \in [Bills -> Invoices \cup {None}]
        BY DEF LedgerInv, LedgerShapes
    <2> HIDE DEF due, renew, create, t
    <2> QED BY <1>1, <1>2, <2>1 DEF Works
<1>4. /\ req' = [req EXCEPT ![r] = IF due = {} THEN Idle ELSE w]
      /\ UNCHANGED <<setting, invoice, lines, received>> /\ clashed' = clashed
      /\ raced' = raced \cup ((create \cup renew) \cap UNION {Touched(q) : q \in Reqs \ {r}})
    BY DEF ReadInvoices, Touch, ledger, LedgerInv, LedgerShapes
<1>5. raced' \in SUBSET Bills /\ raced \subseteq raced' /\ (OneYear => ~clashed')
    <2> HIDE DEF create, renew, due
    <2> QED BY <1>2, <1>4 DEF LedgerInv, LedgerShapes
<1>6. CASE due = {}
    <2>1. /\ Idle \in Works /\ WorkHolds(Idle) /\ NumbersReserved(Idle) /\ StillSo(Idle)
          /\ TouchedBy(Idle) = {} /\ Idle.at # "issued"
        BY IdleWorks DEF LedgerInv, TouchedBy, Idle
    <2>2. req' = [req EXCEPT ![r] = Idle]
        BY <1>4, <1>6
    <2> HIDE DEF due, renew, create, t, w
    <2> QED BY <1>4, <1>5, <2>1, <2>2, TakeStep
<1>7. CASE due # {}
    <2>1. /\ w.at = "read" /\ w.renew = renew /\ w.create = create /\ w.bill = None /\ w.term = t
          /\ w.struct = req[r].struct
          /\ w.loaded = [b \in Bills |-> IF b \in renew THEN invoice[b] ELSE None]
        BY <1>1 DEF Works
    <2>2. \A b \in renew : b \in Bills /\ invoice[b] # None /\ invoice[b].paid = 0 /\ invoice[b].status = "unpaid"
        BY <1>2
    <2>3. \A b \in create : invoice[b] = None
        OBVIOUS
    <2>4. req' = [req EXCEPT ![r] = w]
        BY <1>4, <1>7
    <2> HIDE DEF due, renew, create, t, w
    <2>5. WorkHolds(w) /\ NumbersReserved(w) /\ StillSo(w) /\ w.at # "issued"
        BY <1>1, <1>2, <2>1, <2>2, <2>3 DEF WorkHolds, NumbersReserved, StillSo, Generating
    <2>6. \A q \in Reqs \ {r} : TouchedBy(w) \cap Touched(q) \subseteq raced'
        BY <1>4, <2>1 DEF TouchedBy
    <2> QED BY <1>3, <1>4, <1>5, <2>4, <2>5, <2>6, TakeStep
<1> QED BY <1>6, <1>7

LEMMA PayReadStep ==
    ASSUME LedgerInv, NEW r \in Reqs, NEW b \in Bills, NEW amount \in 1..MaxTotal, PayRead(r, b, amount)
    PROVE  LedgerInv'
<1> DEFINE snapshot == [NoSnapshot EXCEPT ![b] = invoice[b]]
           w == [Idle EXCEPT !.at = "paying", !.bill = b, !.amount = amount, !.loaded = snapshot]
<1>1. amount \in Nat /\ amount >= 1 /\ invoice[b] # None /\ invoice[b] \in Invoices
    BY DEF PayRead, LedgerInv, LedgerShapes
<1>2. snapshot \in [Bills -> Invoices \cup {None}] /\ snapshot[b] = invoice[b]
    BY <1>1 DEF NoSnapshot
<1>3. w \in Works
    BY <1>1, <1>2, IdleWorks DEF LedgerInv, Works
<1>4. /\ w.at = "paying" /\ w.renew = {} /\ w.create = {} /\ w.bill = b /\ w.amount = amount
      /\ w.loaded = snapshot
    BY DEF Idle
<1>5. /\ req' = [req EXCEPT ![r] = w]
      /\ UNCHANGED <<setting, invoice, lines, received>> /\ clashed' = clashed
      /\ raced' = raced \cup ({b} \cap UNION {Touched(q) : q \in Reqs \ {r}})
    BY DEF PayRead, Touch, ledger
<1>6. amount <= invoice[b].total - invoice[b].paid /\ invoice[b].paid <= received[b]
    BY <1>1 DEF PayRead, LedgerInv, BooksHold, PaidWasReceived, Issued
<1> HIDE DEF w, snapshot
<1>7. WorkHolds(w) /\ NumbersReserved(w) /\ StillSo(w) /\ w.at # "issued"
    BY <1>1, <1>2, <1>4, <1>6 DEF WorkHolds, NumbersReserved, StillSo, Generating
<1>8. \A q \in Reqs \ {r} : TouchedBy(w) \cap Touched(q) \subseteq raced'
    BY <1>4, <1>5 DEF TouchedBy
<1>9. raced' \in SUBSET Bills /\ raced \subseteq raced' /\ (OneYear => ~clashed')
    BY <1>5 DEF LedgerInv, LedgerShapes
<1> QED BY <1>3, <1>5, <1>7, <1>8, <1>9, TakeStep

\* A generation that goes on works on the same invoices.
LEMMA GoOnStep ==
    ASSUME LedgerInv, NEW r \in Reqs, NEW w \in Works, req' = [req EXCEPT ![r] = w],
           UNCHANGED <<setting, ledger, raced>>, OneYear => ~clashed',
           req[r].at \in Generating, w.at \in Generating,
           w.create = req[r].create, w.renew = req[r].renew, w.bill = None, w.loaded = req[r].loaded,
           w.term = req[r].term, w.struct = req[r].struct,
           NumbersReserved(w),
           w.at # "read" => \A b \in w.renew \ raced : Gone(w, b) = lines[b],
           w.at = "issued" => \A q \in Reqs \ {r} : req[q].at = "issued" =>
               \A x \in w.numbers, y \in req[q].numbers : x[1] # y[1] /\ x[2] # y[2]
    PROVE  LedgerInv'
<1>1. WorkHolds(req[r]) /\ StillSo(req[r])
    BY DEF LedgerInv
<1>2. WorkHolds(w) /\ StillSo(w)
    BY <1>1 DEF WorkHolds, StillSo, Generating
<1>3. TouchedBy(w) = Touched(r)
    BY <1>1 DEF TouchedBy, Touched, WorkHolds, Generating
<1>4. \A q \in Reqs \ {r} : TouchedBy(w) \cap Touched(q) \subseteq raced'
    BY <1>3 DEF LedgerInv, WorkApart
<1>5. UNCHANGED <<setting, invoice, lines, received>> /\ raced' \in SUBSET Bills /\ raced \subseteq raced'
    BY DEF ledger, LedgerInv, LedgerShapes
<1> QED BY <1>2, <1>4, <1>5, TakeStep

LEMMA DeleteStep == ASSUME LedgerInv, NEW r \in Reqs, Delete(r) PROVE LedgerInv'
<1> DEFINE target == UNION {{<<b, l[1], l[2]>> : l \in lines[b]} : b \in req[r].renew}
           w == [req[r] EXCEPT !.at = "deleting", !.target = target]
<1>1. req[r] \in Works /\ req[r].at = "read" /\ WorkHolds(req[r])
    BY DEF LedgerInv, LedgerShapes, Delete
<1>2. \A b \in req[r].renew : b \in Bills /\ lines[b] \in SUBSET (FeeRows \X Stamps)
    BY <1>1 DEF LedgerInv, LedgerShapes, Works
<1>3. target \in SUBSET (Bills \X FeeRows \X Stamps)
    BY <1>2
<1>4. \A b \in req[r].renew : {<<x[2], x[3]>> : x \in {y \in target : y[1] = b}} = lines[b]
    <2> SUFFICES ASSUME NEW b \in req[r].renew
                 PROVE  {<<x[2], x[3]>> : x \in {y \in target : y[1] = b}} = lines[b]
        OBVIOUS
    <2>1. {y \in target : y[1] = b} = {<<b, l[1], l[2]>> : l \in lines[b]}
        OBVIOUS
    <2>2. \A l \in lines[b] : l = <<l[1], l[2]>>
        BY <1>2
    <2> HIDE DEF target
    <2>3. {<<x[2], x[3]>> : x \in {<<b, l[1], l[2]>> : l \in lines[b]}} = {<<l[1], l[2]>> : l \in lines[b]}
        <3> DEFINE rows == {<<b, l[1], l[2]>> : l \in lines[b]}
        <3>1. \A x \in rows : \E l \in lines[b] : <<x[2], x[3]>> = <<l[1], l[2]>>
            OBVIOUS
        <3>2. \A l \in lines[b] : \E x \in rows : <<x[2], x[3]>> = <<l[1], l[2]>>
            <4> SUFFICES ASSUME NEW l \in lines[b] PROVE \E x \in rows : <<x[2], x[3]>> = <<l[1], l[2]>>
                OBVIOUS
            <4>1. <<b, l[1], l[2]>> \in rows
                OBVIOUS
            <4> HIDE DEF rows
            <4> QED BY <4>1
        <3> HIDE DEF rows
        <3>3. {<<x[2], x[3]>> : x \in rows} = {<<l[1], l[2]>> : l \in lines[b]}
            BY <3>1, <3>2
        <3> QED BY <3>3 DEF rows
    <2>4. {<<l[1], l[2]>> : l \in lines[b]} = lines[b]
        BY <2>2
    <2> QED BY <2>1, <2>3, <2>4
<1>5. /\ w \in Works /\ w.at = "deleting" /\ w.target = target /\ w.create = req[r].create
      /\ w.renew = req[r].renew /\ w.bill = None /\ w.loaded = req[r].loaded
      /\ w.term = req[r].term /\ w.struct = req[r].struct
    <2> HIDE DEF target
    <2> QED BY <1>1, <1>3 DEF Works, WorkHolds
<1>6. /\ req' = [req EXCEPT ![r] = w] /\ UNCHANGED <<setting, ledger, raced>> /\ clashed' = clashed
    BY DEF Delete, history
<1> HIDE DEF w, target
<1>7. NumbersReserved(w) /\ \A b \in w.renew \ raced : Gone(w, b) = lines[b]
    BY <1>4, <1>5 DEF NumbersReserved, Gone
<1>8. (OneYear => ~clashed') /\ req[r].at \in Generating /\ w.at \in Generating
    BY <1>1, <1>5, <1>6 DEF LedgerInv, Generating
<1> QED BY <1>5, <1>6, <1>7, <1>8, GoOnStep

LEMMA DeleteLocksStep == ASSUME LedgerInv, NEW r \in Reqs, DeleteLocks(r) PROVE LedgerInv'
<1> DEFINE w == [req[r] EXCEPT !.at = "deleted"]
<1>1. req[r] \in Works /\ req[r].at = "deleting" /\ WorkHolds(req[r]) /\ StillSo(req[r])
    BY DEF LedgerInv, LedgerShapes, DeleteLocks
<1>2. /\ w \in Works /\ w.at = "deleted" /\ w.target = req[r].target /\ w.create = req[r].create
      /\ w.renew = req[r].renew /\ w.bill = None /\ w.loaded = req[r].loaded
      /\ w.term = req[r].term /\ w.struct = req[r].struct
    BY <1>1 DEF Works, WorkHolds
<1>3. req' = [req EXCEPT ![r] = w] /\ UNCHANGED <<setting, ledger, raced>> /\ clashed' = clashed
    BY DEF DeleteLocks, history
<1> HIDE DEF w
<1>4. NumbersReserved(w) /\ \A b \in w.renew \ raced : Gone(w, b) = lines[b]
    BY <1>1, <1>2 DEF NumbersReserved, StillSo, Gone
<1>5. (OneYear => ~clashed') /\ req[r].at \in Generating /\ w.at \in Generating
    BY <1>1, <1>2, <1>3 DEF LedgerInv, Generating
<1> QED BY <1>2, <1>3, <1>4, <1>5, GoOnStep

\* Within a year an insert is refused only because another created the invoice.
LEMMA IssueFindsNumbers ==
    ASSUME LedgerInv, OneYear, NEW r \in Reqs, req[r].at = "deleted", req[r].create \cap raced = {}
    PROVE  \A b \in req[r].create : invoice[b] = None /\ NumberFor(r, b) \notin NumbersInUse
<1> DEFINE t == req[r].term
<1>1. /\ t \in Terms /\ req[r].create \subseteq Of(t) /\ LedgerShapes
      /\ \A b \in req[r].create : invoice[b] = None
    BY DEF LedgerInv, WorkHolds, StillSo, Generating
<1>2. \A b \in req[r].create : \E k \in Nat : k > Count(t) /\ NumberFor(r, b) = Number(t, k)
    BY <1>1, NumbersForCreated
<1>3. ASSUME NEW b \in req[r].create, NumberFor(r, b) \in NumbersInUse PROVE FALSE
    <2>1. PICK k \in Nat : k > Count(t) /\ NumberFor(r, b) = Number(t, k)
        BY <1>2
    <2>2. PICK c \in Issued : invoice[c].number = NumberFor(r, b)
        BY <1>3 DEF NumbersInUse, Issued
    <2>3. PICK j \in 1..Count(c[2]) : invoice[c].number = Number(c[2], j)
        BY DEF LedgerInv, BooksHold, NumbersCounted
    <2>4. TermNumber[c[2]] = TermNumber[t] /\ j = k
        BY <2>1, <2>2, <2>3 DEF Number
    <2>5. c[2] \in Terms
        BY DEF Issued, Bills
    <2>6. c[2] = t
        BY <1>1, <2>4, <2>5 DEF OneYear
    <2>7. Count(t) \in Nat
        BY <1>1, BillsFinite, FS_CardinalityType DEF Count
    <2> QED BY <2>1, <2>3, <2>4, <2>6, <2>7
<1> QED BY <1>1, <1>3

LEMMA IssueStep == ASSUME LedgerInv, NEW r \in Reqs, Issue(r) PROVE LedgerInv'
<1> DEFINE t == req[r].term
           create == req[r].create
           mine == {<<b, NumberFor(r, b)>> : b \in create}
           refused == \E x \in mine : invoice[x[1]] # None \/ x[2] \in NumbersInUse
           w == [req[r] EXCEPT !.at = "issued", !.numbers = mine]
<1>1. /\ req[r] \in Works /\ req[r].at = "deleted" /\ WorkHolds(req[r]) /\ StillSo(req[r])
      /\ t \in Terms /\ create \subseteq Of(t) /\ create \subseteq Bills
    BY DEF LedgerInv, LedgerShapes, Issue, WorkHolds, Generating, Of
<1>2. /\ req' = [req EXCEPT ![r] = IF refused THEN Idle ELSE w]
      /\ UNCHANGED <<setting, ledger, raced>>
      /\ clashed' = (clashed \/ (refused /\ create \cap raced = {}))
    BY DEF Issue
<1>3. \A q \in Reqs \ {r} : req[q].at = "issued" =>
          \A x \in mine, y \in req[q].numbers : x[1] # y[1] /\ x[2] # y[2]
    BY DEF Issue
<1>4. OneYear => ~clashed'
    <2> SUFFICES ASSUME OneYear, refused, create \cap raced = {} PROVE FALSE
        BY <1>2 DEF LedgerInv
    <2>1. \A b \in create : invoice[b] = None /\ NumberFor(r, b) \notin NumbersInUse
        BY <1>1, IssueFindsNumbers
    <2> QED BY <2>1
<1>5. CASE refused
    <2>1. /\ Idle \in Works /\ WorkHolds(Idle) /\ NumbersReserved(Idle) /\ StillSo(Idle)
          /\ TouchedBy(Idle) = {} /\ Idle.at # "issued"
        BY IdleWorks DEF LedgerInv, TouchedBy, Idle
    <2>2. req' = [req EXCEPT ![r] = Idle]
        BY <1>2, <1>5
    <2>3. UNCHANGED <<setting, invoice, lines, received>> /\ raced' \in SUBSET Bills /\ raced \subseteq raced'
        BY <1>2 DEF ledger, LedgerInv, LedgerShapes
    <2> HIDE DEF t, create, mine, refused, w
    <2> QED BY <1>4, <2>1, <2>2, <2>3, TakeStep
<1>6. CASE ~refused
    <2>1. /\ \A b \in create : \E k \in (Count(t) + 1)..(Count(t) + Cardinality(create)) :
                 NumberFor(r, b) = Number(t, k)
          /\ \A b, c \in create : NumberFor(r, b) = NumberFor(r, c) => b = c
          /\ Count(t) \in Nat /\ Cardinality(create) \in Nat
        BY <1>1, NumbersForCreated DEF LedgerInv
    <2>2. \A b \in create : NumberFor(r, b) \in Nat \X Nat
        BY <1>1, <2>1, FinanceAssumption DEF Number
    <2>3. mine \in SUBSET (Bills \X (Nat \X Nat))
        BY <1>1, <2>2
    <2>4. /\ w \in Works /\ w.at = "issued" /\ w.numbers = mine /\ w.create = create /\ w.target = req[r].target
          /\ w.renew = req[r].renew /\ w.bill = None /\ w.loaded = req[r].loaded
          /\ w.term = t /\ w.struct = req[r].struct
        <3> HIDE DEF mine
        <3> QED BY <1>1, <2>3 DEF Works, WorkHolds
    <2>a. \A b \in create : <<b, NumberFor(r, b)>> \in mine
        OBVIOUS
    <2>b. \A x \in mine : \E b \in create : x = <<b, NumberFor(r, b)>>
        OBVIOUS
    <2>c. \A x \in mine : invoice[x[1]] = None /\ x[2] \notin NumbersInUse
        BY <1>6
    <2>5. \A b \in create : invoice[b] = None /\ NumberFor(r, b) \notin NumbersInUse
        <3> HIDE DEF mine
        <3> QED BY <2>a, <2>c
    <2>6. /\ \A b \in create : \E x \in mine : x[1] = b
          /\ \A x \in mine : \E b \in create : x[1] = b /\ x[2] = NumberFor(r, b) /\ x = <<b, NumberFor(r, b)>>
        <3> HIDE DEF mine
        <3>1. \A b \in create : \E x \in mine : x[1] = b
            <4> SUFFICES ASSUME NEW b \in create PROVE \E x \in mine : x[1] = b
                OBVIOUS
            <4>1. <<b, NumberFor(r, b)>> \in mine /\ <<b, NumberFor(r, b)>>[1] = b
                BY <2>a
            <4> QED BY <4>1
        <3>2. \A x \in mine : \E b \in create : x[1] = b /\ x[2] = NumberFor(r, b) /\ x = <<b, NumberFor(r, b)>>
            BY <2>b
        <3> QED BY <3>1, <3>2
    <2>7. req' = [req EXCEPT ![r] = w]
        BY <1>2, <1>6
    <2> HIDE DEF t, create, mine, refused, w
    <2>8. \A b \in create : \E k \in 1..(Count(t) + Cardinality(create)) : NumberFor(r, b) = Number(t, k)
        BY <2>1
    <2>9. NumbersReserved(w)
        <3>1. \A b \in create : invoice[b] = None /\ \E x \in mine : x[1] = b
            BY <2>5, <2>6
        <3>2. \A x \in mine : /\ x[1] \in create /\ x[2] \notin NumbersInUse
                              /\ \E k \in 1..(Count(t) + Cardinality(create)) : x[2] = Number(t, k)
            BY <2>5, <2>6, <2>8
        <3>3. \A x, y \in mine : (x[1] = y[1] \/ x[2] = y[2]) => x = y
            BY <2>1, <2>6
        <3> QED BY <2>4, <3>1, <3>2, <3>3 DEF NumbersReserved
    <2>10. \A b \in w.renew \ raced : Gone(w, b) = lines[b]
        BY <1>1, <2>4 DEF StillSo, Gone
    <2>11. req[r].at \in Generating /\ w.at \in Generating
        BY <1>1, <2>4 DEF Generating
    <2>12. w.at = "issued" => \A q \in Reqs \ {r} : req[q].at = "issued" =>
               \A x \in w.numbers, y \in req[q].numbers : x[1] # y[1] /\ x[2] # y[2]
        BY <1>3, <2>4
    <2> QED BY <1>2, <1>4, <2>4, <2>7, <2>9, <2>10, <2>11, <2>12, GoOnStep DEF create, t
<1> QED BY <1>5, <1>6

-----------------------------------------------------------------------------
(* Commits                                                                 *)

\* What the other handlers remember survives the commit of r.
LEMMA OthersHold ==
    ASSUME LedgerInv, LedgerShapes', NEW r \in Reqs, req' = [req EXCEPT ![r] = Idle], raced' = raced,
           \A b \in Bills \ Touched(r) : invoice'[b] = invoice[b] /\ lines'[b] = lines[b],
           Issued \subseteq Issued', \A b \in Bills : received[b] <= received'[b],
           \A b \in Issued' \ Issued : req[r].at = "issued" /\ b \in req[r].create,
           \A n \in NumbersInUse' \ NumbersInUse : req[r].at = "issued" /\ \E x \in req[r].numbers : n = x[2]
    PROVE  WorkApart' /\ \A q \in Reqs : (WorkHolds(req[q]) /\ NumbersReserved(req[q]) /\ StillSo(req[q]))'
<1>1. req'[r] = Idle /\ \A q \in Reqs \ {r} : req'[q] = req[q]
    BY DEF LedgerInv, LedgerShapes
<1>2. WorkApart'
    <2>1. \A q \in Reqs \ {r} : Touched(q)' = Touched(q)
        BY <1>1 DEF Touched
    <2>2. Touched(r)' = {} /\ req'[r].at = "idle"
        BY <1>1 DEF Touched, Idle
    <2>3. \A p, q \in Reqs : p # q => Touched(p)' \cap Touched(q)' \subseteq raced'
        BY <2>1, <2>2 DEF LedgerInv, WorkApart
    <2>4. \A p, q \in Reqs : (p # q /\ req'[p].at = "issued" /\ req'[q].at = "issued") =>
               \A x \in req'[p].numbers, y \in req'[q].numbers : x[1] # y[1] /\ x[2] # y[2]
        BY <1>1, <2>2 DEF LedgerInv, WorkApart
    <2> QED BY <2>3, <2>4 DEF WorkApart
<1>3. ASSUME NEW q \in Reqs \ {r}
      PROVE  (WorkHolds(req[q]) /\ NumbersReserved(req[q]) /\ StillSo(req[q]))'
    <2> DEFINE w == req[q]
    <2>1. w \in Works /\ WorkHolds(w) /\ NumbersReserved(w) /\ StillSo(w) /\ req'[q] = w
        BY <1>1 DEF LedgerInv, LedgerShapes
    <2>2. \A b \in Bills : invoice[b] # None => invoice'[b] # None
        BY DEF Issued
    <2>3. \A b \in (w.create \cup w.renew \cup ({w.bill} \ {None})) \ raced :
              b \in Bills /\ invoice'[b] = invoice[b] /\ lines'[b] = lines[b]
        <3>1. \A b \in Touched(q) \ raced : b \in Bills /\ b \notin Touched(r)
            BY <2>1 DEF LedgerInv, WorkApart, Touched, Works
        <3> QED BY <3>1 DEF Touched
    <2>4. w.create \subseteq Bills /\ w.renew \subseteq Bills
        BY <2>1 DEF Works
    <2>5. (w.at = "issued") => \A b \in w.create : invoice'[b] = None
        <3> SUFFICES ASSUME w.at = "issued", NEW b \in w.create, invoice'[b] # None PROVE FALSE
            OBVIOUS
        <3>1. invoice[b] = None /\ b \in Bills
            BY <2>1, <2>4 DEF NumbersReserved
        <3>2. req[r].at = "issued" /\ b \in req[r].create
            BY <3>1 DEF Issued
        <3>3. (\E x \in req[r].numbers : x[1] = b) /\ (\E y \in w.numbers : y[1] = b)
            BY <2>1, <3>2 DEF LedgerInv, NumbersReserved
        <3> QED BY <3>2, <3>3 DEF LedgerInv, WorkApart
    <2>6. (w.at = "issued") => \A x \in w.numbers : x[2] \notin NumbersInUse'
        BY <2>1 DEF LedgerInv, WorkApart, NumbersReserved
    <2>7. w.at = "issued" => Count(w.term) \in Nat /\ Count(w.term)' \in Nat /\ Count(w.term) <= Count(w.term)'
        <3>1. w.at = "issued" => w.term \in Terms
            BY <2>1 DEF WorkHolds, Generating
        <3>2. \A t \in Terms : Count(t) \in Nat /\ Count(t)' \in Nat /\ Count(t) <= Count(t)'
            BY CountGrows
        <3> QED BY <2>1, <3>1, <3>2 DEF Count
    <2>8. Cardinality(w.create) \in Nat
        BY <2>4, BillsFinite, FS_Subset, FS_CardinalityType
    <2>9. WorkHolds(req[q])'
        <3>1. w.at = "paying" => received[w.bill] <= received'[w.bill] /\ received[w.bill] \in Nat
                                 /\ received'[w.bill] \in Nat /\ w.loaded[w.bill].paid \in Nat
            BY <2>1 DEF WorkHolds, LedgerInv, LedgerShapes, Works, Invoices
        <3> HIDE DEF w
        <3>2. \A b \in w.renew : w.at \in Generating => invoice'[b] # None /\ w.loaded[b] # None
            BY <2>1, <2>2, <2>4 DEF WorkHolds
        <3>3. w.at = "paying" => /\ w.bill \in Bills /\ invoice'[w.bill] # None /\ w.loaded[w.bill] # None
                                 /\ w.amount >= 1 /\ w.amount <= w.loaded[w.bill].total - w.loaded[w.bill].paid
                                 /\ w.loaded[w.bill].paid <= received'[w.bill]
            BY <2>1, <2>2, <3>1 DEF WorkHolds
        <3> QED BY <2>1, <3>2, <3>3 DEF WorkHolds
    <2>10. NumbersReserved(req[q])'
        <3> SUFFICES ASSUME w.at = "issued" PROVE NumbersReserved(req[q])'
            BY <2>1 DEF NumbersReserved
        <3>1. \A x \in w.numbers : \E k \in 1..(Count(w.term)' + Cardinality(w.create)) : x[2] = Number(w.term, k)
            BY <2>1, <2>7, <2>8 DEF NumbersReserved
        <3>2. (\A b \in w.create : \E x \in w.numbers : x[1] = b) /\ (\A x \in w.numbers : x[1] \in w.create)
              /\ \A x, y \in w.numbers : (x[1] = y[1] \/ x[2] = y[2]) => x = y
            BY <2>1 DEF NumbersReserved
        <3>3. Count(req[q].term)' = Cardinality(Issued' \cap Of(w.term)) /\ Count(w.term)' = Cardinality(Issued' \cap Of(w.term))
            BY <2>1 DEF Count
        <3> HIDE DEF w
        <3> QED BY <2>1, <2>5, <2>6, <3>1, <3>2, <3>3 DEF NumbersReserved
    <2>11. StillSo(req[q])'
        <3> HIDE DEF w
        <3>1. \A b \in w.create \ raced : invoice'[b] = None
            BY <2>1, <2>3 DEF StillSo
        <3>2. \A b \in w.renew \ raced :
                 /\ w.loaded[b] = invoice'[b] /\ invoice'[b].paid = 0 /\ invoice'[b].status = "unpaid"
                 /\ w.at \in {"deleting", "deleted", "issued"} => Gone(w, b) = lines'[b]
            BY <2>1, <2>3 DEF StillSo
        <3>3. (w.at = "paying" /\ w.bill \notin raced) => w.loaded[w.bill] = invoice'[w.bill]
            BY <2>1, <2>3, BillsFinite DEF StillSo, WorkHolds
        <3> QED BY <2>1, <3>1, <3>2, <3>3 DEF StillSo, Gone
    <2> QED BY <2>9, <2>10, <2>11
<1>4. (WorkHolds(req[r]) /\ NumbersReserved(req[r]) /\ StillSo(req[r]))'
    BY <1>1 DEF WorkHolds, NumbersReserved, StillSo, Generating, Idle
<1> QED BY <1>2, <1>3, <1>4

LEMMA PayCommitStep == ASSUME LedgerInv, NEW r \in Reqs, PayCommit(r) PROVE LedgerInv'
<1> DEFINE b == req[r].bill
           old == req[r].loaded[b]
           paid == old.paid + req[r].amount
           row == [invoice[b] EXCEPT !.paid = paid,
                      !.status = Written(old.status, InvoiceStatus(old.total, paid), @)]
<1>1. /\ req[r] \in Works /\ WorkHolds(req[r]) /\ StillSo(req[r]) /\ req[r].at = "paying"
      /\ LedgerShapes /\ BooksHold
    BY DEF PayCommit, LedgerInv, LedgerShapes
<1>2. /\ b \in Bills /\ invoice[b] \in Invoices /\ invoice[b] # None /\ old \in Invoices
      /\ req[r].amount \in Nat /\ req[r].amount >= 1 /\ req[r].amount <= old.total - old.paid
      /\ old.paid <= received[b] /\ received[b] \in Nat
    BY <1>1 DEF WorkHolds, LedgerShapes, Works
<1>3. /\ req' = [req EXCEPT ![r] = Idle] /\ lines' = lines /\ raced' = raced /\ clashed' = clashed
      /\ received' = [received EXCEPT ![b] = @ + req[r].amount]
      /\ UNCHANGED setting
    BY DEF PayCommit, history
<1>4. invoice' = [invoice EXCEPT ![b] = row]
    <2>1. invoice' = [invoice EXCEPT ![b].paid = paid,
                             ![b].status = Written(old.status, InvoiceStatus(old.total, paid), @)]
        BY DEF PayCommit
    <2>2. invoice \in [Bills -> Invoices \cup {None}] /\ b \in Bills
        BY <1>1, <1>2 DEF LedgerShapes
    <2> HIDE DEF b, paid, old
    <2> QED BY <2>1, <2>2
<1>5. paid \in Nat /\ paid >= 1 /\ old.total \in Nat /\ paid <= old.total
      /\ InvoiceStatus(old.total, paid) = IF paid >= old.total THEN "paid" ELSE "partial"
    BY <1>2 DEF InvoiceStatus, Invoices
<1> DEFINE st == Written(old.status, InvoiceStatus(old.total, paid), invoice[b].status)
<1>6. /\ row \in Invoices /\ row.paid = paid /\ row.total = invoice[b].total /\ row.number = invoice[b].number
      /\ row.status = st /\ st \in {"unpaid", "partial", "paid"}
    <2>1. st \in {"unpaid", "partial", "paid"}
        BY <1>2, <1>5 DEF Written, Invoices
    <2> HIDE DEF b, paid, old, st
    <2>2. row = [invoice[b] EXCEPT !.paid = paid, !.status = st]
        BY <1>2 DEF st, Invoices
    <2> QED BY <1>2, <1>5, <2>1, <2>2 DEF Invoices
<1>7. st = invoice[b].status \/ st \in {"paid", "partial"}
    BY <1>5 DEF Written
<1>8. b \notin raced => st = IF paid >= invoice[b].total THEN "paid" ELSE "partial"
    BY <1>1, <1>5 DEF Written, StillSo
<1>9. b \notin raced => old = invoice[b] /\ invoice[b].paid = received[b]
    BY <1>1, <1>2 DEF StillSo, BooksHold, PaymentsAddUp, Alone, Issued
<1> HIDE DEF b, row, paid, old, st
<1>10. \A c \in Bills : invoice'[c] = IF c = b THEN row ELSE invoice[c]
    BY <1>1, <1>4 DEF LedgerShapes
<1>11. \A c \in Bills : received'[c] = IF c = b THEN received[c] + req[r].amount ELSE received[c]
    BY <1>1, <1>3 DEF LedgerShapes
<1>12. Issued' = Issued /\ \A c \in Issued : invoice'[c].number = invoice[c].number
    BY <1>2, <1>6, <1>10, BillsFinite DEF Issued
<1>13. LedgerShapes'
    <2>1. invoice' \in [Bills -> Invoices \cup {None}]
        BY <1>1, <1>4, <1>6 DEF LedgerShapes
    <2>2. received' \in [Bills -> Nat]
        BY <1>1, <1>2, <1>3 DEF LedgerShapes
    <2>3. req' \in [Reqs -> Works]
        BY <1>1, <1>3, IdleWorks DEF LedgerShapes
    <2> QED BY <1>1, <1>3, <2>1, <2>2, <2>3 DEF LedgerShapes, setting
<1>14. NumbersInUse' = NumbersInUse
    <2>1. NumbersInUse = {invoice[c].number : c \in Issued} /\ NumbersInUse' = {invoice'[c].number : c \in Issued}
        BY <1>12 DEF NumbersInUse, Issued
    <2> QED BY <1>12, <2>1
<1>15. WorkApart' /\ \A q \in Reqs : (WorkHolds(req[q]) /\ NumbersReserved(req[q]) /\ StillSo(req[q]))'
    <2>1. \A c \in Bills \ Touched(r) : invoice'[c] = invoice[c] /\ lines'[c] = lines[c]
        BY <1>2, <1>3, <1>10, BillsFinite DEF Touched, b
    <2>2. \A c \in Bills : received[c] <= received'[c]
        BY <1>1, <1>2, <1>11 DEF LedgerShapes
    <2> QED BY <1>3, <1>12, <1>13, <1>14, <2>1, <2>2, OthersHold
<1>16. BooksHold'
    <2>1. BlankUntilIssued'
        BY <1>1, <1>2, <1>3, <1>11, <1>12 DEF BooksHold, BlankUntilIssued, Issued
    <2>2. NumbersCounted' /\ NumbersUnique'
        <3>1. \A t : Count(t)' = Count(t)
            BY <1>12 DEF Count
        <3> QED BY <1>1, <1>12, <3>1 DEF BooksHold, NumbersCounted, NumbersUnique
    <2>3. LinesAreOneWrite'
        <3>1. Alone' = Alone /\ \A c \in Alone : invoice'[c].total = invoice[c].total
            BY <1>3, <1>6, <1>10, <1>12 DEF Alone, Issued
        <3> QED BY <1>1, <1>3, <3>1 DEF BooksHold, LinesAreOneWrite
    <2>4. PaidWasReceived'
        <3>1. row.paid <= received'[b]
            BY <1>2, <1>6, <1>11 DEF paid, Invoices
        <3> QED BY <1>1, <1>10, <1>11, <1>12, <3>1 DEF BooksHold, PaidWasReceived, Issued
    <2>5. \A c \in Alone' : c # b => c \in Alone /\ invoice'[c] = invoice[c] /\ received'[c] = received[c]
        BY <1>3, <1>10, <1>11, <1>12 DEF Alone, Issued
    <2>6. b \in Alone' => row.paid = received'[b] /\ received'[b] <= row.total
        BY <1>2, <1>3, <1>5, <1>6, <1>9, <1>11 DEF Alone, paid
    <2>7. PaymentsAddUp' /\ OverpaidOnlyByOverlap'
        BY <1>1, <1>2, <1>10, <2>5, <2>6 DEF BooksHold, PaymentsAddUp, OverpaidOnlyByOverlap
    <2>8. StatusTellsBalance'
        <3>1. b \in Alone' => /\ row.status = "paid" <=> row.paid >= row.total
                              /\ row.status = "unpaid" => row.paid = 0
                              /\ row.status = "partial" => row.paid > 0
            BY <1>3, <1>5, <1>6, <1>8 DEF Alone
        <3> QED BY <1>1, <1>2, <1>10, <2>5, <3>1 DEF BooksHold, StatusTellsBalance
    <2> QED BY <2>1, <2>2, <2>3, <2>4, <2>7, <2>8 DEF BooksHold
<1>17. OneYear => ~clashed'
    BY <1>3 DEF LedgerInv
<1> QED BY <1>13, <1>15, <1>16, <1>17 DEF LedgerInv

LEMMA FeesDue ==
    ASSUME NEW struct \in Structs, NEW s
    PROVE  LET due == Applicable(struct, s) IN
           /\ due \in SUBSET FeeRows /\ IsFiniteSet(due) /\ Amount(due) \in Nat
           /\ \A f \in due : f.amount \in Nat
<1>1. Applicable(struct, s) \in SUBSET FeesOf[struct] /\ FeesOf[struct] \subseteq FeeRows
    BY DEF Applicable, FeeRows
<1>2. IsFiniteSet(Applicable(struct, s)) /\ \A f \in Applicable(struct, s) : f.amount \in Nat
    BY <1>1, FinanceAssumption, FS_Subset
<1> QED BY <1>1, <1>2, AmountIsNat

\* What the commit of a generation leaves of each invoice.
LEMMA GenerateWrites ==
    ASSUME LedgerInv, NEW r \in Reqs, GenerateCommit(r)
    PROVE  LET create == req[r].create
               renew == req[r].renew
               Due(c) == Applicable(req[r].struct, c[1])
           IN  /\ req[r].at = "issued"
               /\ req' = [req EXCEPT ![r] = Idle] /\ UNCHANGED <<setting, received, history>>
               /\ \A c \in create :
                     /\ invoice[c] = None /\ invoice'[c] \in Invoices
                     /\ invoice'[c].paid = 0 /\ invoice'[c].total = Amount(Due(c))
                     /\ invoice'[c].status = FreshStatus(Amount(Due(c)))
                     /\ \E x \in req[r].numbers : x[1] = c /\ x[2] = invoice'[c].number
               /\ \A c \in renew :
                     /\ invoice[c] \in Invoices /\ invoice'[c] \in Invoices
                     /\ invoice'[c].paid = invoice[c].paid /\ invoice'[c].number = invoice[c].number
                     /\ c \notin raced => /\ invoice'[c].total = Amount(Due(c)) /\ invoice[c].paid = 0
                                          /\ invoice'[c].status = FreshStatus(Amount(Due(c)))
               /\ \A c \in Bills \ (create \cup renew) : invoice'[c] = invoice[c] /\ lines'[c] = lines[c]
               /\ \E stamp \in Stamps : \A c \in create \cup renew :
                     /\ lines'[c] \in SUBSET (FeeRows \X Stamps)
                     /\ c \notin raced => lines'[c] = {<<f, stamp>> : f \in Due(c)}
               /\ invoice' \in [Bills -> Invoices \cup {None}] /\ lines' \in [Bills -> SUBSET (FeeRows \X Stamps)]
<1> DEFINE create == req[r].create
           renew == req[r].renew
           Due(c) == Applicable(req[r].struct, c[1])
           Total(c) == Amount(Due(c))
           NumberOf(c) == (CHOOSE x \in req[r].numbers : x[1] = c)[2]
           New(c) == [total |-> Total(c), paid |-> 0, status |-> FreshStatus(Total(c)), number |-> NumberOf(c)]
           Renewed(c) ==
               [invoice[c] EXCEPT
                   !.total = Written(req[r].loaded[c].total, Total(c), @),
                   !.status = Written(req[r].loaded[c].status, FreshStatus(Total(c)), @)]
<1>1. PICK stamp \in Stamps :
          /\ invoice' = [c \in Bills |-> IF c \in create THEN New(c)
                                         ELSE IF c \in renew THEN Renewed(c) ELSE invoice[c]]
          /\ lines' = [c \in Bills |-> IF c \in create \cup renew
                                       THEN (lines[c] \ Gone(req[r], c)) \cup {<<f, stamp>> : f \in Due(c)}
                                       ELSE lines[c]]
    BY DEF GenerateCommit, Gone, FreeStamps
<1>2. /\ req[r] \in Works /\ req[r].at = "issued" /\ LedgerShapes /\ BooksHold
      /\ WorkHolds(req[r]) /\ NumbersReserved(req[r]) /\ StillSo(req[r])
      /\ req' = [req EXCEPT ![r] = Idle] /\ UNCHANGED <<setting, received, history>>
    BY DEF GenerateCommit, LedgerInv, LedgerShapes
<1>3. /\ req[r].struct \in Structs /\ create \subseteq Bills /\ renew \subseteq Bills /\ create \cap renew = {}
      /\ \A c \in create : invoice[c] = None
    BY <1>2 DEF WorkHolds, NumbersReserved, Generating, Works
<1>4. \A c : /\ Due(c) \in SUBSET FeeRows /\ IsFiniteSet(Due(c)) /\ Total(c) \in Nat
             /\ FreshStatus(Total(c)) \in {"unpaid", "partial", "paid"}
    BY <1>3, FeesDue DEF FreshStatus
<1>5. ASSUME NEW c \in create
      PROVE  New(c) \in Invoices /\ \E x \in req[r].numbers : x[1] = c /\ x[2] = NumberOf(c)
    <2>1. \E x \in req[r].numbers : x[1] = c
        BY <1>2 DEF NumbersReserved
    <2>2. (CHOOSE x \in req[r].numbers : x[1] = c) \in req[r].numbers
          /\ (CHOOSE x \in req[r].numbers : x[1] = c)[1] = c
        BY <2>1
    <2>3. req[r].numbers \subseteq Bills \X (Nat \X Nat)
        BY <1>2 DEF Works
    <2>4. NumberOf(c) \in Nat \X Nat
        BY <2>2, <2>3
    <2>5. New(c) \in Invoices
        <3> HIDE DEF NumberOf, Total
        <3> QED BY <1>4, <2>4 DEF Invoices
    <2> QED BY <2>2, <2>5
<1>6. ASSUME NEW c \in renew
      PROVE  /\ invoice[c] \in Invoices /\ Renewed(c) \in Invoices
             /\ Renewed(c).paid = invoice[c].paid /\ Renewed(c).number = invoice[c].number
             /\ c \notin raced => /\ Renewed(c).total = Total(c) /\ invoice[c].paid = 0
                                  /\ Renewed(c).status = FreshStatus(Total(c))
    <2>1. invoice[c] \in Invoices /\ req[r].loaded[c] \in Invoices
        BY <1>2, <1>3 DEF WorkHolds, LedgerShapes, Works, Generating
    <2>2. c \notin raced => req[r].loaded[c] = invoice[c] /\ invoice[c].paid = 0
        BY <1>2 DEF StillSo
    <2>3. Total(c) \in Nat /\ FreshStatus(Total(c)) \in {"unpaid", "partial", "paid"}
        BY <1>4
    <2> HIDE DEF Total, renew
    <2> QED BY <2>1, <2>2, <2>3 DEF Written, Invoices
<1>7. \A c \in create : invoice'[c] = New(c)
    <2> HIDE DEF create, renew, New, Renewed, Due
    <2> QED BY <1>1, <1>3
<1>8. \A c \in renew : invoice'[c] = Renewed(c)
    <2> HIDE DEF create, renew, New, Renewed, Due
    <2> QED BY <1>1, <1>3
<1>9. \A c \in Bills \ (create \cup renew) : invoice'[c] = invoice[c] /\ lines'[c] = lines[c]
    <2> HIDE DEF create, renew, New, Renewed, Due
    <2> QED BY <1>1
<1>10. invoice' \in [Bills -> Invoices \cup {None}]
    <2>1. \A c \in Bills : invoice'[c] \in Invoices \cup {None}
        <3> HIDE DEF create, renew, New, Renewed, Due
        <3> QED BY <1>2, <1>5, <1>6, <1>7, <1>8, <1>9 DEF LedgerShapes
    <2>2. invoice' = [c \in Bills |-> invoice'[c]]
        BY <1>1
    <2> QED BY <2>1, <2>2
<1>11. \A c \in Bills : lines'[c] \in SUBSET (FeeRows \X Stamps)
    <2> SUFFICES ASSUME NEW c \in Bills PROVE lines'[c] \in SUBSET (FeeRows \X Stamps)
        OBVIOUS
    <2>1. lines[c] \in SUBSET (FeeRows \X Stamps)
        BY <1>2 DEF LedgerShapes
    <2>2. lines'[c] = lines[c] \/ lines'[c] = (lines[c] \ Gone(req[r], c)) \cup {<<f, stamp>> : f \in Due(c)}
        <3> HIDE DEF create, renew, New, Renewed, Due
        <3> QED BY <1>1
    <2>3. Due(c) \in SUBSET FeeRows
        BY <1>4
    <2> HIDE DEF Due
    <2> QED BY <2>1, <2>2, <2>3
<1>12. lines' \in [Bills -> SUBSET (FeeRows \X Stamps)]
    <2>1. lines' = [c \in Bills |-> lines'[c]]
        BY <1>1
    <2> QED BY <1>11, <2>1
<1>13. ASSUME NEW c \in create \cup renew, c \notin raced
       PROVE  lines'[c] = {<<f, stamp>> : f \in Due(c)}
    <2>1. lines'[c] = (lines[c] \ Gone(req[r], c)) \cup {<<f, stamp>> : f \in Due(c)}
        <3> HIDE DEF New, Renewed, Due
        <3> QED BY <1>1, <1>3
    <2>2. CASE c \in create
        <3>1. lines[c] = {}
            BY <1>2, <1>3, <2>2 DEF BooksHold, BlankUntilIssued, Issued
        <3> QED BY <2>1, <3>1
    <2>3. CASE c \in renew
        <3>1. Gone(req[r], c) = lines[c]
            BY <1>2, <1>13, <2>3 DEF StillSo
        <3> QED BY <2>1, <3>1
    <2> QED BY <2>2, <2>3
<1>14. \A c \in create : /\ New(c).paid = 0 /\ New(c).total = Total(c) /\ New(c).number = NumberOf(c)
                         /\ New(c).status = FreshStatus(Total(c))
    OBVIOUS
<1>15. \A c \in create \cup renew : lines'[c] \in SUBSET (FeeRows \X Stamps)
    BY <1>3, <1>11
<1> HIDE DEF New, Renewed, Due, NumberOf
<1>16. \A c \in create :
           /\ invoice'[c] \in Invoices /\ invoice'[c].paid = 0 /\ invoice'[c].total = Total(c)
           /\ invoice'[c].status = FreshStatus(Total(c))
           /\ \E x \in req[r].numbers : x[1] = c /\ x[2] = invoice'[c].number
    BY <1>5, <1>7, <1>14
<1>17. \A c \in renew :
           /\ invoice[c] \in Invoices /\ invoice'[c] \in Invoices
           /\ invoice'[c].paid = invoice[c].paid /\ invoice'[c].number = invoice[c].number
           /\ c \notin raced => /\ invoice'[c].total = Total(c) /\ invoice[c].paid = 0
                                /\ invoice'[c].status = FreshStatus(Total(c))
    BY <1>6, <1>8
<1>18. \E k \in Stamps : \A c \in create \cup renew :
           /\ lines'[c] \in SUBSET (FeeRows \X Stamps)
           /\ c \notin raced => lines'[c] = {<<f, k>> : f \in Due(c)}
    BY <1>13, <1>15
<1> QED BY <1>2, <1>3, <1>9, <1>10, <1>12, <1>16, <1>17, <1>18 DEF Due

LEMMA GenerateCommitStep == ASSUME LedgerInv, NEW r \in Reqs, GenerateCommit(r) PROVE LedgerInv'
<1> DEFINE create == req[r].create
           renew == req[r].renew
           Due(c) == Applicable(req[r].struct, c[1])
<1>1. /\ req[r] \in Works /\ req[r].at = "issued" /\ LedgerShapes /\ BooksHold
      /\ WorkHolds(req[r]) /\ NumbersReserved(req[r])
      /\ req' = [req EXCEPT ![r] = Idle] /\ UNCHANGED <<setting, received, history>>
    BY GenerateWrites DEF LedgerInv, LedgerShapes
<1>2. /\ req[r].term \in Terms /\ req[r].struct \in Structs /\ create \subseteq Of(req[r].term) /\ create \subseteq Bills
      /\ renew \subseteq Bills /\ create \cap renew = {}
    BY <1>1 DEF WorkHolds, Generating, Works
<1>3. \A c : /\ Due(c) \in SUBSET FeeRows /\ IsFiniteSet(Due(c)) /\ Amount(Due(c)) \in Nat
    BY <1>2, FeesDue
<1>4. /\ \A c \in create :
            /\ invoice[c] = None /\ invoice'[c] \in Invoices
            /\ invoice'[c].paid = 0 /\ invoice'[c].total = Amount(Due(c))
            /\ invoice'[c].status = FreshStatus(Amount(Due(c)))
            /\ \E x \in req[r].numbers : x[1] = c /\ x[2] = invoice'[c].number
      /\ \A c \in renew :
            /\ invoice[c] \in Invoices /\ invoice'[c] \in Invoices
            /\ invoice'[c].paid = invoice[c].paid /\ invoice'[c].number = invoice[c].number
            /\ c \notin raced => /\ invoice'[c].total = Amount(Due(c)) /\ invoice[c].paid = 0
                                 /\ invoice'[c].status = FreshStatus(Amount(Due(c)))
      /\ \A c \in Bills \ (create \cup renew) : invoice'[c] = invoice[c] /\ lines'[c] = lines[c]
      /\ \E stamp \in Stamps : \A c \in create \cup renew :
            /\ lines'[c] \in SUBSET (FeeRows \X Stamps)
            /\ c \notin raced => lines'[c] = {<<f, stamp>> : f \in Due(c)}
      /\ invoice' \in [Bills -> Invoices \cup {None}] /\ lines' \in [Bills -> SUBSET (FeeRows \X Stamps)]
    BY GenerateWrites
<1> HIDE DEF Due, create, renew
<1> PICK t \in Terms : t = req[r].term
    BY <1>2
<1>5. /\ Issued' = Issued \cup create /\ Issued \cap create = {} /\ Issued \subseteq Issued'
      /\ renew \subseteq Issued /\ Issued \subseteq Bills
      /\ \A c \in Issued : invoice'[c].number = invoice[c].number /\ invoice'[c].paid = invoice[c].paid
    <2>1. Issued \subseteq Bills /\ Issued' \subseteq Bills
        BY DEF Issued
    <2>2. \A c \in create : invoice'[c] # None /\ invoice[c] = None
        BY <1>4, BillsFinite
    <2>3. \A c \in renew : invoice'[c] # None /\ invoice[c] # None
        BY <1>4, BillsFinite
    <2>4. \A c \in Bills : c \in Issued <=> invoice[c] # None
        BY DEF Issued
    <2>5. \A c \in Bills : c \in Issued' <=> invoice'[c] # None
        BY DEF Issued
    <2>6. \A c \in Bills \ (create \cup renew) : invoice'[c] = invoice[c]
        BY <1>4
    <2>7. Issued' = Issued \cup create /\ Issued \cap create = {} /\ renew \subseteq Issued
        BY <1>2, <2>1, <2>2, <2>3, <2>4, <2>5, <2>6
    <2>8. \A c \in Issued : invoice'[c].number = invoice[c].number /\ invoice'[c].paid = invoice[c].paid
        BY <1>4, <2>1, <2>6, <2>7
    <2> QED BY <2>1, <2>7, <2>8
<1>6. LedgerShapes'
    <2>1. req' \in [Reqs -> Works]
        BY <1>1, IdleWorks DEF LedgerShapes
    <2> QED BY <1>1, <1>4, <2>1 DEF LedgerShapes, setting, history
<1>7. \A n \in NumbersInUse' \ NumbersInUse : req[r].at = "issued" /\ \E x \in req[r].numbers : n = x[2]
    <2>1. NumbersInUse = {invoice[c].number : c \in Issued} /\ NumbersInUse' = {invoice'[c].number : c \in Issued'}
        BY DEF NumbersInUse, Issued
    <2> QED BY <1>1, <1>4, <1>5, <2>1
<1>8. WorkApart' /\ \A q \in Reqs : (WorkHolds(req[q]) /\ NumbersReserved(req[q]) /\ StillSo(req[q]))'
    <2>1. \A c \in Bills \ Touched(r) : invoice'[c] = invoice[c] /\ lines'[c] = lines[c]
        BY <1>4 DEF Touched, create, renew
    <2>2. \A c \in Bills : received[c] <= received'[c]
        BY <1>1 DEF LedgerShapes
    <2>3. \A c \in Issued' \ Issued : req[r].at = "issued" /\ c \in req[r].create
        BY <1>1, <1>5 DEF create
    <2>4. raced' = raced
        BY <1>1 DEF history
    <2> QED BY <1>1, <1>5, <1>6, <1>7, <2>1, <2>2, <2>3, <2>4, OthersHold
<1>9. raced' = raced /\ received' = received /\ clashed' = clashed
    BY <1>1 DEF history
<1>10. \A c \in create : received[c] = 0 /\ invoice'[c].paid = 0
    BY <1>1, <1>2, <1>4, <1>5 DEF BooksHold, BlankUntilIssued
<1>11. BlankUntilIssued'
    BY <1>1, <1>4, <1>5, <1>9 DEF BooksHold, BlankUntilIssued
<1>12. NumbersCounted'
    <2>1. \A u \in Terms : Count(u) \in Nat /\ Count(u)' \in Nat /\ Count(u) <= Count(u)'
        BY <1>5, CountGrows
    <2>2. ASSUME NEW c \in Issued PROVE \E k \in 1..Count(c[2])' : invoice'[c].number = Number(c[2], k)
        <3>1. PICK k \in 1..Count(c[2]) : invoice[c].number = Number(c[2], k)
            BY <1>1 DEF BooksHold, NumbersCounted
        <3>2. c[2] \in Terms
            BY DEF Issued, Bills
        <3>3. k \in 1..Count(c[2])'
            BY <2>1, <3>1, <3>2
        <3> QED BY <1>5, <3>1, <3>3
    <2>3. Count(t)' = Count(t) + Cardinality(create) /\ Cardinality(create) \in Nat
        <3>1. Issued' \cap Of(t) = (Issued \cap Of(t)) \cup create /\ (Issued \cap Of(t)) \cap create = {}
            BY <1>2, <1>5
        <3>2. IsFiniteSet(Issued \cap Of(t)) /\ IsFiniteSet(create)
            BY <1>2, BillsFinite, FS_Subset
        <3>3. Cardinality((Issued \cap Of(t)) \cup create) = Cardinality(Issued \cap Of(t)) + Cardinality(create)
              /\ Cardinality(create) \in Nat
            <4> DEFINE before == Issued \cap Of(t)
            <4>1. Cardinality(before) \in Nat /\ Cardinality(create) \in Nat
                BY <3>2, FS_CardinalityType
            <4>2. Cardinality(before \cap create) = 0
                BY <3>1, FS_EmptySet
            <4> HIDE DEF before
            <4>3. Cardinality(before \cup create) = Cardinality(before) + Cardinality(create) - Cardinality(before \cap create)
                BY <3>2, FS_Union DEF before
            <4> QED BY <4>1, <4>2, <4>3 DEF before
        <3>4. Count(t)' = Cardinality(Issued' \cap Of(t))
            BY DEF Count
        <3> QED BY <3>1, <3>3, <3>4 DEF Count
    <2>4. ASSUME NEW c \in create PROVE \E k \in 1..Count(c[2])' : invoice'[c].number = Number(c[2], k)
        <3>1. c[2] = t
            BY <1>2 DEF Of
        <3>2. PICK x \in req[r].numbers : x[1] = c /\ x[2] = invoice'[c].number
            BY <1>4
        <3>3. PICK k \in 1..(Count(t) + Cardinality(create)) : x[2] = Number(t, k)
            BY <1>1 DEF NumbersReserved, create
        <3>4. k \in 1..Count(t)'
            BY <2>3, <3>3
        <3> QED BY <3>1, <3>2, <3>3, <3>4
    <2> QED BY <1>5, <2>2, <2>4 DEF NumbersCounted
<1>13. NumbersUnique'
    <2>1. \A c \in create : invoice'[c].number \notin NumbersInUse
        BY <1>1, <1>4 DEF NumbersReserved
    <2>2. \A c \in Issued : invoice'[c].number \in NumbersInUse
        BY <1>5 DEF NumbersInUse, Issued
    <2>3. \A c, d \in create : invoice'[c].number = invoice'[d].number => c = d
        BY <1>1, <1>4 DEF NumbersReserved
    <2>4. \A c, d \in Issued : invoice'[c].number = invoice'[d].number => c = d
        BY <1>1, <1>5 DEF BooksHold, NumbersUnique
    <2> QED BY <1>5, <2>1, <2>2, <2>3, <2>4 DEF NumbersUnique
<1>14. PaidWasReceived' /\ PaymentsAddUp'
    <2>1. \A c \in Alone' : c \in Alone \/ c \in create
        BY <1>5, <1>9 DEF Alone
    <2>2. \A c \in Alone : c \in Issued
        BY DEF Alone
    <2> QED BY <1>1, <1>5, <1>9, <1>10, <2>1, <2>2 DEF BooksHold, PaidWasReceived, PaymentsAddUp
<1>15. \A c \in Alone' : \/ c \in create \cup renew
                         \/ c \in Alone /\ invoice'[c] = invoice[c] /\ lines'[c] = lines[c]
    BY <1>4, <1>5, <1>9 DEF Alone
<1>16. \A c \in Alone' : c \in create \cup renew =>
           /\ invoice'[c].total = Amount(Due(c)) /\ invoice'[c].paid = 0 /\ c \notin raced
           /\ invoice'[c].status = FreshStatus(Amount(Due(c)))
    BY <1>4, <1>9 DEF Alone
<1>17. OverpaidOnlyByOverlap'
    <2>1. \A c \in Alone' : c \in create \cup renew => received'[c] = 0 /\ invoice'[c].total \in Nat
        BY <1>3, <1>14, <1>16 DEF PaymentsAddUp
    <2> QED BY <1>1, <1>9, <1>15, <2>1 DEF BooksHold, OverpaidOnlyByOverlap
<1>18. StatusTellsBalance'
    <2>1. \A c \in Alone' : c \in create \cup renew =>
              /\ invoice'[c].status = "paid" <=> invoice'[c].paid >= invoice'[c].total
              /\ invoice'[c].status = "unpaid" => invoice'[c].paid = 0
              /\ invoice'[c].status = "partial" => invoice'[c].paid > 0
        BY <1>3, <1>16 DEF FreshStatus
    <2> QED BY <1>1, <1>15, <2>1 DEF BooksHold, StatusTellsBalance
<1>19. LinesAreOneWrite'
    <2> SUFFICES ASSUME NEW c \in Alone'
                 PROVE  \E fees \in SUBSET FeeRows : \E k \in Stamps :
                            /\ IsFiniteSet(fees) /\ lines'[c] = {<<f, k>> : f \in fees}
                            /\ invoice'[c].total = Amount(fees)
        BY DEF LinesAreOneWrite
    <2>1. CASE c \in create \cup renew
        <3>1. PICK stamp \in Stamps : lines'[c] = {<<f, stamp>> : f \in Due(c)}
            BY <1>4, <1>16, <2>1
        <3> QED BY <1>3, <1>16, <2>1, <3>1
    <2>2. CASE c \in Alone /\ invoice'[c] = invoice[c] /\ lines'[c] = lines[c]
        BY <1>1, <2>2 DEF BooksHold, LinesAreOneWrite
    <2> QED BY <1>15, <2>1, <2>2
<1>20. BooksHold'
    BY <1>11, <1>12, <1>13, <1>14, <1>17, <1>18, <1>19 DEF BooksHold
<1>21. OneYear => ~clashed'
    BY <1>9 DEF LedgerInv
<1> QED BY <1>6, <1>8, <1>20, <1>21 DEF LedgerInv

LEMMA LedgerNext == ASSUME LedgerInv, [Next]_vars PROVE LedgerInv'
<1>1. CASE UNCHANGED vars
    <2>1. UNCHANGED <<ledger, history, req>> /\ active' \in [Terms -> Structs \cup {None}]
          /\ roster' \in [Terms -> SUBSET Students]
        BY <1>1 DEF vars, ledger, history, LedgerInv, LedgerShapes
    <2> QED BY <2>1, SettingStep
<1>2. ASSUME NEW t \in Terms, NEW s \in Structs, Activate(t, s) PROVE LedgerInv'
    <2>1. UNCHANGED <<ledger, history, req>> /\ active' \in [Terms -> Structs \cup {None}]
          /\ roster' \in [Terms -> SUBSET Students]
        BY <1>2 DEF Activate, LedgerInv, LedgerShapes
    <2> QED BY <2>1, SettingStep
<1>3. ASSUME NEW t \in Terms, NEW s \in Students, Register(t, s) PROVE LedgerInv'
    <2>1. UNCHANGED <<ledger, history, req>> /\ active' \in [Terms -> Structs \cup {None}]
          /\ roster' \in [Terms -> SUBSET Students]
        BY <1>3 DEF Register, LedgerInv, LedgerShapes
    <2> QED BY <2>1, SettingStep
<1>4. ASSUME NEW r \in Reqs,
             \/ \E t \in Terms, refresh \in BOOLEAN : ReadStructure(r, t, refresh)
             \/ ReadInvoices(r) \/ Delete(r) \/ DeleteLocks(r) \/ Issue(r) \/ GenerateCommit(r)
             \/ \E b \in Bills, amount \in 1..MaxTotal : PayRead(r, b, amount)
             \/ PayCommit(r) \/ Rollback(r)
      PROVE  LedgerInv'
    BY <1>4, ReadStructureStep, ReadInvoicesStep, DeleteStep, DeleteLocksStep, IssueStep, GenerateCommitStep,
       PayReadStep, PayCommitStep, RollbackStep
<1> QED BY <1>1, <1>2, <1>3, <1>4 DEF Next

-----------------------------------------------------------------------------
(* What the books promise                                                  *)

LEMMA LedgerAlways == FinanceSpec => []LedgerInv
<1>1. FinanceInit => LedgerInv
    BY LedgerInit DEF FinanceInit
<1>2. LedgerInv /\ [FinanceNext]_<<part, vars, pricing>> => LedgerInv'
    <2> SUFFICES ASSUME LedgerInv, [FinanceNext]_<<part, vars, pricing>> PROVE LedgerInv'
        OBVIOUS
    <2>1. [Next]_vars
        BY DEF FinanceNext
    <2> QED BY <2>1, LedgerNext
<1> QED BY <1>1, <1>2, PTL DEF FinanceSpec

\* However payments, refreshes and generations overlap, an invoice never shows more
\* paid than was received (record_payment, generate_invoices).
THEOREM PaidIsCovered == FinanceSpec => []PaidWasReceived
<1>1. LedgerInv => PaidWasReceived
    BY DEF LedgerInv, BooksHold
<1> QED BY <1>1, LedgerAlways, PTL

\* Within an academic year no number is given twice and every generation finds free
\* ones (_next_invoice_number, uq_fee_invoice_number); the next year it need not.
THEOREM NumbersStayFree == OneYear => (FinanceSpec => []NumbersHold)
<1> SUFFICES ASSUME OneYear PROVE FinanceSpec => []NumbersHold
    OBVIOUS
<1>1. LedgerInv => NumbersHold
    BY DEF LedgerInv, BooksHold, NumbersHold, GenerationFindsNumbers
<1> QED BY <1>1, LedgerAlways, PTL

\* The lines, the payments and the status of an invoice agree unless two requests
\* worked on it at once (_write_invoice_lines, record_payment, _invoice_status).
THEOREM BooksAddUp == FinanceSpec => []InvoicesAddUp
<1>1. ASSUME LedgerInv PROVE LinesAddUp
    <2> SUFFICES ASSUME NEW b \in Alone
                 PROVE  MapThenSumSet(LAMBDA l : l[1].amount, lines[b]) = invoice[b].total
        BY DEF LinesAddUp
    <2>1. PICK fees \in SUBSET FeeRows, k \in Stamps :
              /\ IsFiniteSet(fees)
              /\ lines[b] = {<<f, k>> : f \in fees} /\ invoice[b].total = Amount(fees)
        BY <1>1 DEF LedgerInv, BooksHold, LinesAreOneWrite
    <2>2. \A f \in fees : f.amount \in Nat
        BY <2>1, FinanceAssumption DEF FeeRows
    <2>3. LinesAmount({<<f, k>> : f \in fees}) = Amount(fees)
        BY <2>1, <2>2, SumOfStamped
    <2> QED BY <2>1, <2>3 DEF LinesAmount
<1>2. LedgerInv => InvoicesAddUp
    BY <1>1 DEF LedgerInv, BooksHold, InvoicesAddUp
<1> QED BY <1>2, LedgerAlways, PTL

-----------------------------------------------------------------------------
(* Shapes                                                                  *)

\* A structure that exists has the columns it was created or edited with.
HeadsKept ==
    /\ head \in [Drafts -> Heads \cup {None}]
    /\ \A s \in Drafts : status[s] # "none" => head[s] \in Heads
    /\ \A r \in Reqs : edit[r].op = "head" => edit[r].value \in Heads

LEMMA HeadsStep ==
    ASSUME IndInv, HeadsKept, [FinanceNext]_<<part, vars, pricing>> PROVE HeadsKept'
<1> SUFFICES ASSUME Pricing!Next PROVE HeadsKept'
    BY DEF FinanceNext, HeadsKept, pricing
<1> USE DEF HeadsKept, IndInv, Shapes
<1>1. ASSUME NEW s \in Drafts, NEW u \in DraftTerms, NEW h \in Heads, Pricing!Create(s, u, h)
      PROVE  HeadsKept'
    BY <1>1 DEF Pricing!Create
<1>2. ASSUME NEW r \in Reqs, NEW s \in Drafts, NEW h \in Heads, Pricing!HeadRead(r, s, h)
      PROVE  HeadsKept'
    BY <1>2 DEF Pricing!HeadRead, Pricing!Hold, Pricing!Idle
<1>3. ASSUME NEW r \in Reqs, NEW s \in Drafts, NEW i \in Slots, NEW op \in {"add", "edit", "delete"}, NEW f,
             Pricing!LineRead(r, op, s, i, f)
      PROVE  HeadsKept'
    BY <1>3 DEF Pricing!LineRead, Pricing!Hold, Pricing!Idle
<1>4. ASSUME NEW r \in Reqs, NEW s \in Drafts, Pricing!ActivateRead(r, s)
      PROVE  HeadsKept'
    BY <1>4 DEF Pricing!ActivateRead, Pricing!Hold, Pricing!Idle
<1>5. ASSUME NEW r \in Reqs, Pricing!Done(r), UNCHANGED <<status, head>>
      PROVE  HeadsKept'
    BY <1>5 DEF Pricing!Done, Pricing!Idle
<1>6. ASSUME NEW r \in Reqs, Pricing!HeadCommit(r)
      PROVE  HeadsKept'
    BY <1>6 DEF Pricing!HeadCommit, Pricing!Done, Pricing!Idle
<1>7. ASSUME NEW r \in Reqs, Pricing!ActivateCommit(r)
      PROVE  HeadsKept'
    <2>1. Holds(edit[r])
        BY <1>7 DEF HandlersHold, Pricing!ActivateCommit, Pricing!Idle
    <2>2. \A x \in Drafts : status'[x] # "none" => status[x] # "none"
        <3>1. \A x \in Drafts : status'[x] = IF x = edit[r].s THEN "active"
                                             ELSE IF x = edit[r].archives THEN "archived" ELSE status[x]
            BY <1>7, ActivateWrites
        <3>2. /\ status[edit[r].s] # "none"
              /\ edit[r].archives \in Drafts => status[edit[r].archives] # "none"
            BY <1>7, ActivateWrites, FinanceAssumption DEF Holds, FinanceAssumption
        <3> QED BY <3>1, <3>2
    <2>3. \A q \in Reqs : edit'[q].op = "head" => edit[q].op = "head" /\ edit'[q] = edit[q]
        BY <1>7 DEF Pricing!ActivateCommit, Pricing!Done, Pricing!Idle
    <2>4. head' = head
        BY <1>7 DEF Pricing!ActivateCommit
    <2>5. \A x \in Drafts : status'[x] # "none" => head'[x] \in Heads
        BY <2>2, <2>4
    <2>6. \A q \in Reqs : edit'[q].op = "head" => edit'[q].value \in Heads
        BY <2>3
    <2> QED BY <2>4, <2>5, <2>6
<1> HIDE DEF HeadsKept, IndInv, Shapes
<1>8. ASSUME NEW r \in Reqs, Pricing!LineCommit(r) \/ Pricing!Rollback(r)
      PROVE  HeadsKept'
    BY <1>5, <1>8 DEF Pricing!LineCommit, Pricing!Rollback
<1> QED BY <1>1, <1>2, <1>3, <1>4, <1>6, <1>7, <1>8 DEF Pricing!Next

\* Structures, invoices, lines and payments keep the shape of their tables; an invoice's
\* number is of its own term, and only invoices have lines or payments.
THEOREM FinanceTyped == FinanceSpec => []FinanceTypeOK
<1>1. FinanceInit => HeadsKept
    BY FinanceAssumption DEF FinanceInit, Pricing!Init, Pricing!Idle, HeadsKept
<1>2. IndInv /\ HeadsKept /\ [FinanceNext]_<<part, vars, pricing>> => HeadsKept'
    BY HeadsStep
<1>3. ASSUME LedgerInv PROVE TypeOK
    <2>1. \A b \in Issued : invoice[b] \in Invoices
        BY <1>3 DEF LedgerInv, LedgerShapes, Issued
    <2>2. ASSUME NEW b \in Issued PROVE invoice[b].number \in {Number(b[2], k) : k \in 1..Cardinality(Bills)}
        <3>1. PICK k \in 1..Count(b[2]) : invoice[b].number = Number(b[2], k)
            BY <1>3 DEF LedgerInv, BooksHold, NumbersCounted
        <3>2. (Issued \cap Of(b[2])) \in SUBSET Bills
            BY DEF Issued
        <3>3. Count(b[2]) \in Nat /\ Count(b[2]) <= Cardinality(Bills) /\ Cardinality(Bills) \in Nat
            BY <3>2, BillsFinite, FS_Subset, FS_CardinalityType DEF Count
        <3> QED BY <3>1, <3>3
    <2>3. \A b \in Bills \ Issued : lines[b] = {} /\ received[b] = 0
        BY <1>3 DEF LedgerInv, BooksHold, BlankUntilIssued
    <2>4. active \in [Terms -> Structs \cup {None}] /\ roster \in [Terms -> SUBSET Students]
        BY <1>3 DEF LedgerInv, LedgerShapes
    <2> QED BY <2>1, <2>2, <2>3, <2>4 DEF TypeOK, Invoices
<1>4. IndInv /\ HeadsKept => Pricing!TypeOK
    BY DEF IndInv, Shapes, Statuses, TermsKnown, HeadsKept, Pricing!TypeOK
<1>5. LedgerInv /\ IndInv /\ HeadsKept => FinanceTypeOK
    BY <1>3, <1>4 DEF FinanceTypeOK
<1>6. FinanceSpec => []HeadsKept
    BY <1>1, <1>2, StructuresInv, PTL DEF FinanceSpec
<1> QED BY <1>5, <1>6, LedgerAlways, StructuresInv, PTL

=============================================================================
