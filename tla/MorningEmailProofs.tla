------------------------- MODULE MorningEmailProofs -------------------------
(***************************************************************************)
(* Proofs about the morning email of one account, for every finite set of  *)
(* evidence, any number of workers, memories, mornings, changes, briefs    *)
(* per digest and attempts.                                                *)
(*                                                                         *)
(* The invariant has two layers.  TopologyInv is about the memories alone: *)
(* ids are given out in order, evidence has at most one memory.  MailInv   *)
(* is about the mail tables, the workers and what the provider did with    *)
(* the requests; its parts are predicates of the tables, so that each      *)
(* statement of a transaction is shown to keep them.                       *)
(***************************************************************************)
EXTENDS MorningEmail, FiniteSetTheorems, NaturalsInduction, WellFoundedInduction, TLAPS

-----------------------------------------------------------------------------
(* Memories.                                                               *)

TopologyTyped ==
    /\ mem \in [Memories -> MemoryState] /\ members \in [Memories -> SUBSET Sources]
    /\ revision \in [Memories -> Nat] /\ changes \in 0..MaxChange
    /\ heir \in [Memories -> BOOLEAN] /\ asked \in [Memories -> Consent]
    /\ lineage \in [Memories -> SUBSET Memories]

\* Ids are given out in order.
IdsInOrder == \A m \in Used : 1..m \subseteq Used

\* Only active memories have evidence, and no two of them share any.
OwnersAreActive == \A m \in Memories : members[m] # {} => mem[m] \in Active
OneMemory == \A m, n \in Memories : m # n => members[m] \cap members[n] = {}

\* The ancestors of a memory are no longer in use.
Retired == {"superseded", "deleted"}
AncestorsRetired == \A m \in Memories : \A p \in lineage[m] : mem[p] \in Retired

\* Every brief after the first was paid for by a change.
RevisionsAreChanges ==
    \A m \in Memories : /\ revision[m] <= changes + 1
                        /\ mem[m] = "rewriting" => revision[m] <= changes

TopologyInv ==
    /\ TopologyTyped /\ IdsInOrder /\ OwnersAreActive /\ OneMemory /\ RevisionsAreChanges
    /\ AncestorsRetired

-----------------------------------------------------------------------------
(* The mail tables t.                                                      *)

SourceRows == [state : SourceState, content : BOOLEAN, delivery : Days \cup {0}]
Digests == [state : DeliveryState, consent : 0..MaxChange, to : 0..MaxChange,
            content : BOOLEAN, snapshot : SUBSET Briefs, considered : SUBSET Sources,
            attempts : 0..MAX_ATTEMPTS, timer : Timer, token : TokenOrNone]
Tables == [src : [Sources -> SourceRows], dlv : [Days -> Digests],
           fence : SUBSET Token, lane : TokenOrNone, cooling : BOOLEAN]
Candidates == [date : Days, attempts : 0..MAX_ATTEMPTS, snapshot : SUBSET Briefs,
               content : BOOLEAN, to : 0..MaxChange]

\* A digest that is open: unsent, or in flight.
Open == Unsent \cup {"processing"}
\* A digest the provider was never asked for, or definitely rejected.
NotMailed == Unsent \cup {"none", "empty", "cancelled", "failed"}

\* A date without a row; attempts below the cap before a claim; a token that
\* names the date and the attempt.
RowShape(t) ==
    \A d \in Days :
        LET row == t.dlv[d]
        IN /\ row.state = "none" => row.snapshot = {}
           /\ row.state \in {"none", "assembling", "pending"} => row.attempts = 0
           /\ row.state = "retry_wait" => row.attempts < MAX_ATTEMPTS
           /\ row.state = "processing" => row.token = <<d, row.attempts>> /\ row.attempts # 0

\* The one digest in flight owns the one fence and the lane.
LaneShape(t) ==
    /\ \A d \in InState(t, {"processing"}) :
          t.fence = {t.dlv[d].token} /\ t.lane = t.dlv[d].token
    /\ t.fence # {} => InState(t, {"processing"}) # {}

\* ConsentInFlight and InFlightIsOrganized, of tables.
Consented(t) ==
    \A d \in InState(t, {"processing"}) :
        /\ pref.consent # "off" /\ t.dlv[d].consent = pref.at
        /\ t.dlv[d].to = recipient
        /\ t.dlv[d].content => pref.consent = "content"
Organized(t) ==
    \A d \in InState(t, {"processing"}) : \A b \in t.dlv[d].snapshot :
        mem[b.id] \in Finalized /\ members[b.id] = b.members

\* The evidence a snapshot names.
Named(snapshot) == UNION {b.members : b \in snapshot}

\* Evidence that belongs to a digest is named by it, and the digest is open.
Joined(t) ==
    \A s \in Sources : t.src[s].state = "pending" /\ t.src[s].delivery # 0 =>
        /\ t.dlv[t.src[s].delivery].state \in Open
        /\ s \in Named(t.dlv[t.src[s].delivery].snapshot)

\* Evidence named by an open digest belongs to it, or has no coverage row.
BelongsTo(t, s, d) ==
    \/ t.src[s].state \in {"none", "erased"}
    \/ t.src[s].state = "pending" /\ t.src[s].delivery = d
Covered(t) ==
    \A d \in InState(t, Open) : \A s \in Named(t.dlv[d].snapshot) : BelongsTo(t, s, d)

\* Two briefs of an open digest share no evidence that has a coverage row.
Apart(t) ==
    \A d \in InState(t, Open) : \A b, c \in t.dlv[d].snapshot : b # c =>
        \A s \in b.members \cap c.members : t.src[s].state \in {"none", "erased"}

\* Evidence that was in a brief belongs to a memory with a brief, or to an
\* heir of one, until it is erased; so it never gets a coverage row again.
HasBrief(t, s) ==
    /\ Owned(s) \/ t.src[s].state = "erased"
    /\ \A m \in Memories : s \in members[m] => mem[m] \in Finalized \/ heir[m]
Inherited(t) ==
    /\ \A d \in Days : \A s \in Named(t.dlv[d].snapshot) : HasBrief(t, s)
    /\ \A w \in Workers : pc[w] # "idle" =>
          \A s \in Named(cand[w].snapshot) : HasBrief(t, s)
    /\ \A p \in mailed : HasBrief(t, p[2])
ErasedIsGone(t) == \A s \in Sources : t.src[s].state = "erased" => ~Owned(s)

\* Evidence that is withheld or has no coverage row has no digest.
Unassigned(t) ==
    \A s \in Sources : t.src[s].state \in {"none", "withheld_update"} => t.src[s].delivery = 0

\* A worker past its claim holds a digest that no other worker holds: in
\* flight under its token with the snapshot it read, or given up as ambiguous.
Holding(w) == pc[w] \in {"send", "settle"}
Held(t, w) ==
    LET d == cand[w].date
    IN \/ /\ t.dlv[d].state = "processing" /\ t.dlv[d].token = wtoken[w]
          /\ t.dlv[d].snapshot = cand[w].snapshot
       \/ /\ t.dlv[d].state = "ambiguous"
          /\ \A s \in Named(cand[w].snapshot) :
                \/ t.src[s].state \in {"none", "erased"}
                \/ t.src[s].state = "ambiguous" /\ t.src[s].delivery = d
Holders(t) ==
    /\ \A w \in Workers : Holding(w) => Held(t, w)
    /\ \A v, w \in Workers : Holding(v) /\ Holding(w) /\ cand[v].date = cand[w].date => v = w

\* What the provider did: at most one request per date was acted on, none
\* before or after which another could be sent.
Acted(t) ==
    \A d \in Days :
        /\ acted[d] \in {0, 1}
        /\ t.dlv[d].state \in NotMailed => acted[d] = 0
        /\ t.dlv[d].state = "delivered" => acted[d] = 1
        /\ acted[d] = 0 => \A s \in Sources : <<d, s>> \notin mailed
Answered ==
    \A w \in Workers : Holding(w) =>
        LET d == cand[w].date
        IN /\ pc[w] = "send" \/ wresult[w] \in {"transient", "rejected"} => acted[d] = 0
           /\ pc[w] = "settle" /\ wresult[w] = "accepted" =>
                 acted[d] = 1 /\ \A s \in Named(cand[w].snapshot) : <<d, s>> \in mailed

\* CoverageIsTrue and ReceiptIsTrue, of tables; and what DeletedStaysOut rests
\* on: the evidence of a stored brief belongs to its memory or to a descendant.
CoverageTrue(t) ==
    \A p \in mailed : t.src[p[2]].state \in {"none", "erased"}
                      \/ /\ t.src[p[2]].delivery = p[1]
                         /\ t.src[p[2]].state \in {"pending", "delivered", "ambiguous"}
ReceiptTrue(t) ==
    \A s \in Sources : t.src[s].state = "delivered" => <<t.src[s].delivery, s>> \in mailed
Traceable(b) ==
    /\ mem[b.id] # "deleted"
    /\ \A s \in b.members : \E m \in Memories : s \in members[m] /\ b.id \in Line(m)
DeletedOut(t) == \A d \in Days : \A b \in t.dlv[d].snapshot : Traceable(b)

SettingsTyped ==
    /\ account \in BOOLEAN /\ pref \in [consent : Consent, at : 0..MaxChange]
    /\ recipient \in 0..MaxChange /\ pref.at <= changes /\ recipient <= changes
WorkersTyped ==
    /\ pc \in [Workers -> PC] /\ wtoken \in [Workers -> TokenOrNone]
    /\ wresult \in [Workers -> SendResult]
    /\ cand \in [Workers -> Candidates \cup {NoCandidate}]
    /\ \A w \in Workers : pc[w] # "idle" => cand[w] \in Candidates
    /\ mailed \subseteq Days \X Sources /\ acted \in [Days -> Nat]

MailInv(t) ==
    /\ t \in Tables
    /\ RowShape(t) /\ LaneShape(t) /\ Consented(t) /\ Organized(t)
    /\ Joined(t) /\ Covered(t) /\ Apart(t) /\ Inherited(t) /\ ErasedIsGone(t) /\ Unassigned(t)
    /\ Holders(t) /\ Acted(t) /\ CoverageTrue(t) /\ ReceiptTrue(t) /\ DeletedOut(t)

-----------------------------------------------------------------------------
(* What the statements do, row by row.                                     *)

\* Evidence and digests outside the statement keep their rows.
LEMMA TablesFacts ==
    ASSUME NEW t \in Tables
    PROVE  /\ t.src \in [Sources -> SourceRows] /\ t.dlv \in [Days -> Digests]
           /\ t.fence \in SUBSET Token /\ t.lane \in TokenOrNone /\ t.cooling \in BOOLEAN
           /\ \A s \in Sources : t.src[s] \in SourceRows
           /\ \A d \in Days : t.dlv[d] \in Digests
BY DEF Tables

\* The statement that covers the evidence of some digests with an outcome.
LEMMA CoverFacts ==
    ASSUME NEW t \in Tables, NEW ds, NEW st \in SourceState
    PROVE  LET u == Cover(t, ds, st)
           IN /\ u \in Tables /\ u.dlv = t.dlv /\ u.fence = t.fence /\ u.lane = t.lane
              /\ u.cooling = t.cooling
              /\ \A s \in Sources :
                    /\ u.src[s].delivery = t.src[s].delivery
                    /\ u.src[s].content = t.src[s].content
                    /\ u.src[s].state = IF t.src[s].state = "pending" /\ t.src[s].delivery \in ds
                                        THEN st ELSE t.src[s].state
<1> DEFINE row(s) == IF t.src[s].state = "pending" /\ t.src[s].delivery \in ds
                     THEN [t.src[s] EXCEPT !.state = st] ELSE t.src[s]
           src == [s \in Sources |-> row(s)]
<1>1. Cover(t, ds, st) = [t EXCEPT !.src = src]
    BY DEF Cover, ForEvidence
<1>2. ASSUME NEW s \in Sources
      PROVE  /\ row(s) \in SourceRows
             /\ row(s).delivery = t.src[s].delivery /\ row(s).content = t.src[s].content
             /\ row(s).state = IF t.src[s].state = "pending" /\ t.src[s].delivery \in ds
                               THEN st ELSE t.src[s].state
  <2>1. t.src[s] \in SourceRows
      BY TablesFacts
  <2> QED BY <2>1 DEF SourceRows
<1>3. src \in [Sources -> SourceRows] /\ \A s \in Sources : src[s] = row(s)
    BY <1>2
<1> HIDE DEF row, src
<1> QED BY <1>1, <1>2, <1>3 DEF Tables

-----------------------------------------------------------------------------
(* Statements that close digests.                                          *)

\* The digests ds are given up: unsent ones fail or are cancelled and let go
\* of their evidence, one in flight becomes ambiguous with its evidence.
Closes(t, u, ds) ==
    /\ u \in Tables /\ ds \subseteq Days
    /\ \A d \in Days : d \notin ds => u.dlv[d] = t.dlv[d]
    /\ \A d \in ds :
          /\ u.dlv[d].snapshot \subseteq t.dlv[d].snapshot
          /\ \/ t.dlv[d].state \in Unsent /\ u.dlv[d].state \in {"failed", "cancelled"}
             \/ t.dlv[d].state = "processing" /\ u.dlv[d].state = "ambiguous"
    /\ \A s \in Sources :
          /\ t.src[s].state # "pending" \/ t.src[s].delivery \notin ds \cup {0}
                => u.src[s] = t.src[s]
          /\ t.src[s].state = "pending" /\ t.src[s].delivery = 0
                => u.src[s] = t.src[s] \/ u.src[s].state = "cancelled"
          /\ t.src[s].state = "pending" /\ t.src[s].delivery \in ds =>
                IF t.dlv[t.src[s].delivery].state = "processing"
                THEN u.src[s].state = "ambiguous" /\ u.src[s].delivery = t.src[s].delivery
                ELSE \/ u.src[s].state = "pending" /\ u.src[s].delivery = 0
                     \/ u.src[s].state \in {"cancelled", "failed"}

\* The states of a digest that is not open.
LEMMA OpenFacts ==
    /\ "failed" \notin Open /\ "cancelled" \notin Open /\ "ambiguous" \notin Open
    /\ "delivered" \notin Open /\ "none" \notin Open /\ "empty" \notin Open
    /\ "processing" \in Open /\ "processing" \notin Unsent /\ "processing" \notin NotMailed
    /\ "ambiguous" \notin NotMailed /\ "delivered" \notin NotMailed
    /\ "pending" \in Unsent /\ "assembling" \in Unsent /\ "retry_wait" \in Unsent
    /\ Unsent \subseteq Open /\ Unsent \subseteq NotMailed
    /\ \A x \in Open : x \in Unsent \/ x = "processing"
    /\ \A x \in Unsent : x \in {"assembling", "pending", "retry_wait"}
    /\ Open \subseteq DeliveryState
BY DEF Open, Unsent, Waiting, NotMailed, DeliveryState

\* The tables after a close satisfy the invariant again.
LEMMA CloseKeeps ==
    ASSUME NEW t, NEW u, NEW ds, WorkersTyped, MailInv(t), Closes(t, u, ds), LaneShape(u)
    PROVE  MailInv(u)
<1> USE OpenFacts
<1>0. /\ u \in Tables /\ ds \subseteq Days
      /\ \A d \in Days : d \notin ds => u.dlv[d] = t.dlv[d]
      /\ \A d \in ds :
          /\ u.dlv[d].snapshot \subseteq t.dlv[d].snapshot
          /\ \/ t.dlv[d].state \in Unsent /\ u.dlv[d].state \in {"failed", "cancelled"}
             \/ t.dlv[d].state = "processing" /\ u.dlv[d].state = "ambiguous"
    BY DEF Closes
<1>1. \A d \in Days : u.dlv[d].state \in Open => d \notin ds /\ u.dlv[d] = t.dlv[d]
    BY <1>0
<1>2. \A s \in Sources : t.src[s].state # "pending" => u.src[s] = t.src[s]
    BY DEF Closes
<1>3. \A s \in Sources : t.src[s].state = "pending" /\ t.src[s].delivery \in Days
                         /\ t.src[s].delivery \notin ds => u.src[s] = t.src[s]
    BY DEF Closes, Days
<1>4. \A s \in Sources : u.src[s].state \in {"none", "erased", "delivered", "withheld_update"}
                         => u.src[s] = t.src[s]
    BY DEF Closes
<1>5. /\ t \in Tables
      /\ RowShape(t) /\ LaneShape(t) /\ Consented(t) /\ Organized(t)
      /\ Joined(t) /\ Covered(t) /\ Apart(t) /\ Inherited(t) /\ ErasedIsGone(t) /\ Unassigned(t)
      /\ Holders(t) /\ Acted(t) /\ CoverageTrue(t) /\ ReceiptTrue(t) /\ DeletedOut(t)
    BY DEF MailInv
<1>6. RowShape(u)
    BY <1>0, <1>5 DEF RowShape
<1>7. Consented(u) /\ Organized(u)
    BY <1>1, <1>5 DEF Consented, Organized, InState
<1>8. Joined(u)
  <2>1. ASSUME NEW s \in Sources, u.src[s].state = "pending", u.src[s].delivery # 0
        PROVE  /\ u.dlv[u.src[s].delivery].state \in Open
               /\ s \in Named(u.dlv[u.src[s].delivery].snapshot)
    <3>1. u.src[s] = t.src[s] /\ u.src[s].delivery \notin ds
        BY <2>1, <1>2 DEF Closes
    <3>2. u.src[s].delivery \in Days
        BY <2>1, <1>0, TablesFacts DEF SourceRows
    <3> QED BY <1>0, <1>5, <2>1, <3>1, <3>2 DEF Joined
  <2> QED BY <2>1 DEF Joined
<1>9. Covered(u)
  <2>1. ASSUME NEW d \in Days, u.dlv[d].state \in Open, NEW s \in Named(u.dlv[d].snapshot)
        PROVE  BelongsTo(u, s, d)
    <3>1. BelongsTo(t, s, d) /\ s \in Sources
      <4>1. d \in InState(t, Open) /\ s \in Named(t.dlv[d].snapshot)
          BY <1>1, <2>1 DEF InState
      <4>2. s \in Sources
          BY <1>5, <4>1, TablesFacts DEF Digests, Briefs, Named
      <4> QED BY <1>5, <4>1, <4>2 DEF Covered
    <3> QED BY <1>1, <1>2, <1>3, <2>1, <3>1 DEF BelongsTo
  <2> QED BY <2>1 DEF Covered, InState
<1>10. Apart(u)
  <2>1. ASSUME NEW d \in Days, u.dlv[d].state \in Open,
               NEW b \in u.dlv[d].snapshot, NEW c \in u.dlv[d].snapshot, b # c,
               NEW s \in b.members \cap c.members
        PROVE  u.src[s].state \in {"none", "erased"}
    <3>1. t.src[s].state \in {"none", "erased"}
        BY <1>1, <1>5, <2>1 DEF Apart, InState
    <3>2. s \in Sources
        BY <1>0, <2>1, TablesFacts DEF Digests, Briefs
    <3> QED BY <1>2, <3>1, <3>2
  <2> QED BY <2>1 DEF Apart, InState
<1>11. \A s \in Sources : HasBrief(t, s) => HasBrief(u, s)
    BY <1>2 DEF HasBrief
<1>12. Inherited(u)
  <2>1. ASSUME NEW d \in Days, NEW s \in Named(u.dlv[d].snapshot) PROVE HasBrief(u, s)
    <3>1. s \in Named(t.dlv[d].snapshot)
        BY <1>0, <2>1 DEF Named
    <3>2. s \in Sources
        BY <1>0, <2>1, TablesFacts DEF Digests, Briefs, Named
    <3> QED BY <1>5, <1>11, <3>1, <3>2 DEF Inherited
  <2>2. ASSUME NEW w \in Workers, pc[w] # "idle", NEW s \in Named(cand[w].snapshot)
        PROVE  HasBrief(u, s)
    <3>1. s \in Sources
        BY <2>2 DEF WorkersTyped, Candidates, Briefs, Named
    <3> QED BY <1>5, <1>11, <2>2, <3>1 DEF Inherited
  <2>3. ASSUME NEW p \in mailed PROVE HasBrief(u, p[2])
    <3>1. p[2] \in Sources
        BY <2>3 DEF WorkersTyped
    <3> QED BY <1>5, <1>11, <2>3, <3>1 DEF Inherited
  <2> QED BY <2>1, <2>2, <2>3 DEF Inherited
<1>13. ErasedIsGone(u) /\ Unassigned(u)
    BY <1>4, <1>5 DEF ErasedIsGone, Unassigned
<1>14. Holders(u)
  <2>1. ASSUME NEW w \in Workers, Holding(w) PROVE Held(u, w)
    <3> DEFINE d == cand[w].date
    <3>1. cand[w] \in Candidates
        BY <2>1 DEF WorkersTyped, Holding
    <3>2. d \in Days /\ Named(cand[w].snapshot) \subseteq Sources
        BY <3>1 DEF Candidates, Briefs, Named
    <3>3. Held(t, w)
        BY <1>5, <2>1 DEF Holders
    <3>4. CASE d \notin ds
      <4>1. u.dlv[d] = t.dlv[d]
          BY <1>0, <3>2, <3>4
      <4> QED BY <1>2, <3>2, <3>3, <4>1 DEF Held
    <3>5. CASE d \in ds
      <4>1. t.dlv[d].state = "processing" /\ t.dlv[d].snapshot = cand[w].snapshot
          BY <1>0, <3>3, <3>5 DEF Held
      <4>2. u.dlv[d].state = "ambiguous"
          BY <1>0, <3>5, <4>1
      <4>3. ASSUME NEW s \in Named(cand[w].snapshot)
            PROVE  \/ u.src[s].state \in {"none", "erased"}
                   \/ u.src[s].state = "ambiguous" /\ u.src[s].delivery = d
        <5>1. BelongsTo(t, s, d) /\ s \in Sources
            BY <1>5, <3>2, <4>1 DEF Covered, InState
        <5> QED BY <3>5, <4>1, <5>1 DEF BelongsTo, Closes
      <4> QED BY <4>2, <4>3 DEF Held
    <3> QED BY <3>4, <3>5
  <2> QED BY <1>5, <2>1 DEF Holders
<1>15. Acted(u)
  <2>1. ASSUME NEW d \in Days
        PROVE  /\ u.dlv[d].state \in NotMailed => acted[d] = 0
               /\ u.dlv[d].state = "delivered" => acted[d] = 1
      BY <1>0, <1>5 DEF Acted
  <2> QED BY <1>5, <2>1 DEF Acted
<1>16. CoverageTrue(u)
  <2>1. ASSUME NEW p \in mailed
        PROVE  u.src[p[2]].state \in {"none", "erased"}
                      \/ /\ u.src[p[2]].delivery = p[1]
                         /\ u.src[p[2]].state \in {"pending", "delivered", "ambiguous"}
    <3>1. p[1] \in Days /\ p[2] \in Sources /\ p = <<p[1], p[2]>>
        BY <2>1 DEF WorkersTyped
    <3>2. t.src[p[2]].state \in {"none", "erased"}
                      \/ /\ t.src[p[2]].delivery = p[1]
                         /\ t.src[p[2]].state \in {"pending", "delivered", "ambiguous"}
        BY <1>5, <2>1 DEF CoverageTrue
    <3>3. CASE t.src[p[2]].state # "pending"
        BY <1>2, <3>1, <3>2, <3>3
    <3>4. CASE t.src[p[2]].state = "pending" /\ p[1] \notin ds
        BY <1>3, <3>1, <3>2, <3>4
    <3>5. CASE t.src[p[2]].state = "pending" /\ p[1] \in ds
      <4>1. acted[p[1]] # 0
          BY <1>5, <2>1, <3>1 DEF Acted
      <4>2. t.dlv[p[1]].state = "processing"
          BY <1>0, <1>5, <3>1, <3>5, <4>1 DEF Acted
      <4> QED BY <3>1, <3>2, <3>5, <4>2 DEF Closes
    <3> QED BY <3>3, <3>4, <3>5
  <2> QED BY <2>1 DEF CoverageTrue
<1>17. ReceiptTrue(u)
    BY <1>4, <1>5 DEF ReceiptTrue
<1>18. DeletedOut(u)
    BY <1>0, <1>5 DEF DeletedOut
<1> QED BY <1>0, <1>6, <1>7, <1>8, <1>9, <1>10, <1>12, <1>13, <1>14, <1>15, <1>16, <1>17, <1>18
        DEF MailInv

\* What a transaction of the sweep may do to a digest that exists.
Moves(x, y) ==
    \/ y = x
    \/ x = "processing" /\ y = "ambiguous"
    \/ x \in Unsent /\ y \in Unsent \cup {"empty", "failed", "cancelled"}
Moved(t, u) == \A d \in Days : Moves(t.dlv[d].state, u.dlv[d].state)

\* Two such moves make one.
LEMMA MovedTwice ==
    ASSUME NEW t, NEW u, NEW v, Moved(t, u), Moved(u, v)
    PROVE  Moved(t, v)
BY OpenFacts DEF Moved, Moves

\* Closing is a move.
LEMMA CloseMoves ==
    ASSUME NEW t, NEW u, NEW ds, Closes(t, u, ds)
    PROVE  Moved(t, u)
BY DEF Closes, Moved, Moves

\* Evidence is taken from the digests ds.
LEMMA DetachFacts ==
    ASSUME NEW t \in Tables, NEW ds
    PROVE  LET u == Detach(t, ds)
           IN /\ u \in Tables /\ u.dlv = t.dlv /\ u.fence = t.fence /\ u.lane = t.lane
              /\ u.cooling = t.cooling
              /\ \A s \in Sources :
                    IF t.src[s].state = "pending" /\ t.src[s].delivery \in ds
                    THEN u.src[s].state = "pending" /\ u.src[s].delivery = 0
                    ELSE u.src[s] = t.src[s]
<1> DEFINE row(s) == IF t.src[s].state = "pending" /\ t.src[s].delivery \in ds
                     THEN [t.src[s] EXCEPT !.delivery = 0] ELSE t.src[s]
           src == [s \in Sources |-> row(s)]
<1>1. Detach(t, ds) = [t EXCEPT !.src = src]
    BY DEF Detach, ForEvidence, Detached
<1>2. ASSUME NEW s \in Sources
      PROVE  /\ row(s) \in SourceRows
             /\ IF t.src[s].state = "pending" /\ t.src[s].delivery \in ds
                THEN row(s).state = "pending" /\ row(s).delivery = 0
                ELSE row(s) = t.src[s]
  <2>1. t.src[s] \in SourceRows
      BY TablesFacts
  <2> QED BY <2>1 DEF SourceRows
<1>3. src \in [Sources -> SourceRows] /\ \A s \in Sources : src[s] = row(s)
    BY <1>2
<1> HIDE DEF row, src
<1> QED BY <1>1, <1>2, <1>3 DEF Tables

\* The digests ds are cancelled.
LEMMA CancelledFacts ==
    ASSUME NEW t \in Tables, NEW ds
    PROVE  LET u == ForDigests(t, ds, Cancelled)
           IN /\ u \in Tables /\ u.src = t.src /\ u.fence = t.fence /\ u.lane = t.lane
              /\ u.cooling = t.cooling
              /\ \A d \in Days : IF d \in ds
                                 THEN u.dlv[d].state = "cancelled" /\ u.dlv[d].snapshot = {}
                                 ELSE u.dlv[d] = t.dlv[d]
<1> DEFINE row(d) == IF d \in ds
                     THEN [t.dlv[d] EXCEPT !.state = "cancelled", !.snapshot = {},
                              !.considered = {}, !.timer = "wait"]
                     ELSE t.dlv[d]
           dlv == [d \in Days |-> row(d)]
<1>1. ForDigests(t, ds, Cancelled) = [t EXCEPT !.dlv = dlv]
    BY DEF ForDigests, Cancelled
<1>2. ASSUME NEW d \in Days
      PROVE  /\ row(d) \in Digests
             /\ IF d \in ds THEN row(d).state = "cancelled" /\ row(d).snapshot = {}
                            ELSE row(d) = t.dlv[d]
  <2>1. t.dlv[d] \in Digests
      BY TablesFacts
  <2>2. "cancelled" \in DeliveryState /\ "wait" \in Timer
      BY DEF DeliveryState, Timer
  <2> QED BY <2>1, <2>2 DEF Digests
<1>3. dlv \in [Days -> Digests] /\ \A d \in Days : dlv[d] = row(d)
    BY <1>2
<1> HIDE DEF row, dlv
<1> QED BY <1>1, <1>2, <1>3 DEF Tables

\* Cancelling an unsent snapshot closes its digest.
LEMMA CancelCloses ==
    ASSUME NEW t \in Tables, NEW d \in Days, t.dlv[d].state \in Unsent
    PROVE  LET u == CancelSnapshot(t, {d})
           IN /\ Closes(t, u, {d}) /\ u.fence = t.fence /\ u.lane = t.lane
              /\ u.dlv[d].state = "cancelled"
<1> DEFINE v == ForDigests(t, {d}, Cancelled)
           u == Detach(v, {d})
<1>1. CancelSnapshot(t, {d}) = u
  <2>1. {d} \cap InState(t, Unsent) = {d}
      BY DEF InState
  <2> QED BY <2>1 DEF CancelSnapshot
<1>2. /\ v \in Tables /\ v.src = t.src /\ v.fence = t.fence /\ v.lane = t.lane
      /\ v.dlv[d].state = "cancelled" /\ v.dlv[d].snapshot = {}
      /\ \A e \in Days : e # d => v.dlv[e] = t.dlv[e]
    BY CancelledFacts
<1> HIDE DEF v
<1>3. /\ u \in Tables /\ u.dlv = v.dlv /\ u.fence = v.fence /\ u.lane = v.lane
      /\ \A s \in Sources :
            IF v.src[s].state = "pending" /\ v.src[s].delivery \in {d}
            THEN u.src[s].state = "pending" /\ u.src[s].delivery = 0
            ELSE u.src[s] = v.src[s]
    BY <1>2, DetachFacts
<1> HIDE DEF u
<1>4. Closes(t, u, {d})
  <2>1. d # 0
      BY DEF Days
  <2>2. /\ \A e \in Days : e \notin {d} => u.dlv[e] = t.dlv[e]
        /\ u.dlv[d].snapshot \subseteq t.dlv[d].snapshot
      BY <1>2, <1>3
  <2>3. ASSUME NEW s \in Sources
        PROVE  /\ t.src[s].state # "pending" \/ t.src[s].delivery # d => u.src[s] = t.src[s]
               /\ t.src[s].state = "pending" /\ t.src[s].delivery = d =>
                     u.src[s].state = "pending" /\ u.src[s].delivery = 0
      BY <1>2, <1>3
  <2> QED BY <1>2, <1>3, <2>1, <2>2, <2>3, OpenFacts DEF Closes
<1> QED BY <1>1, <1>2, <1>3, <1>4

\* Lanes that do not notice a close.
LEMMA SameLane ==
    ASSUME NEW t, NEW u, LaneShape(t), u.fence = t.fence, u.lane = t.lane,
           \A d \in Days : /\ u.dlv[d].state = "processing" <=> t.dlv[d].state = "processing"
                           /\ u.dlv[d].state = "processing" => u.dlv[d].token = t.dlv[d].token
    PROVE  LaneShape(u)
BY DEF LaneShape, InState

\* So cancelling keeps the invariant.
LEMMA CancelKeeps ==
    ASSUME WorkersTyped, NEW t, MailInv(t), NEW d \in Days, t.dlv[d].state \in Unsent
    PROVE  LET u == CancelSnapshot(t, {d})
           IN MailInv(u) /\ Moved(t, u) /\ u.dlv[d].state = "cancelled"
<1> DEFINE u == CancelSnapshot(t, {d})
<1>1. t \in Tables /\ LaneShape(t)
    BY DEF MailInv
<1>2. /\ Closes(t, u, {d}) /\ u.fence = t.fence /\ u.lane = t.lane
      /\ u.dlv[d].state = "cancelled"
    BY <1>1, CancelCloses
<1> HIDE DEF u
<1>3. LaneShape(u)
  <2>1. \A e \in Days : /\ u.dlv[e].state = "processing" <=> t.dlv[e].state = "processing"
                        /\ u.dlv[e].state = "processing" => u.dlv[e].token = t.dlv[e].token
      BY <1>2, OpenFacts DEF Closes
  <2> QED BY <1>1, <1>2, <2>1, SameLane
<1>4. MailInv(u) /\ Moved(t, u)
    BY <1>2, <1>3, CloseKeeps, CloseMoves
<1> QED BY <1>2, <1>4 DEF u

\* A recovered claim.
LEMMA RecoveredFacts ==
    ASSUME NEW t \in Tables, NEW ds
    PROVE  LET u == ForDigests(t, ds, RecoveredRow)
           IN /\ u \in Tables /\ u.src = t.src /\ u.fence = t.fence /\ u.lane = t.lane
              /\ u.cooling = t.cooling
              /\ \A d \in Days : IF d \in ds
                                 THEN /\ u.dlv[d].state = "ambiguous"
                                      /\ u.dlv[d].snapshot = t.dlv[d].snapshot
                                 ELSE u.dlv[d] = t.dlv[d]
<1> DEFINE row(d) == IF d \in ds
                     THEN [t.dlv[d] EXCEPT !.state = "ambiguous", !.token = NoToken,
                                           !.timer = "wait"]
                     ELSE t.dlv[d]
           dlv == [d \in Days |-> row(d)]
<1>1. ForDigests(t, ds, RecoveredRow) = [t EXCEPT !.dlv = dlv]
    BY DEF ForDigests, RecoveredRow
<1>2. ASSUME NEW d \in Days
      PROVE  /\ row(d) \in Digests
             /\ IF d \in ds THEN /\ row(d).state = "ambiguous"
                                 /\ row(d).snapshot = t.dlv[d].snapshot
                            ELSE row(d) = t.dlv[d]
  <2>1. t.dlv[d] \in Digests
      BY TablesFacts
  <2>2. "ambiguous" \in DeliveryState /\ "wait" \in Timer /\ NoToken \in TokenOrNone
      BY DEF DeliveryState, Timer, TokenOrNone
  <2> QED BY <2>1, <2>2 DEF Digests
<1>3. dlv \in [Days -> Digests] /\ \A d \in Days : dlv[d] = row(d)
    BY <1>2
<1> HIDE DEF row, dlv
<1> QED BY <1>1, <1>2, <1>3 DEF Tables

\* Fences are released with the lane.
LEMMA ReleaseFacts ==
    ASSUME NEW t \in Tables, NEW tokens
    PROVE  LET u == ReleaseFence(t, tokens)
           IN /\ u \in Tables /\ u.src = t.src /\ u.dlv = t.dlv
              /\ u.fence = t.fence \ tokens
              /\ u.lane = IF t.lane \in tokens THEN NoToken ELSE t.lane
<1>1. NoToken \in TokenOrNone
    BY DEF TokenOrNone
<1>2. (t.cooling \/ t.lane \in tokens) \in BOOLEAN
    OBVIOUS
<1>3. t.fence \ tokens \in SUBSET Token
    BY DEF Tables
<1> QED BY <1>1, <1>2, <1>3 DEF Tables, ReleaseFence

\* Recovery of expired claims keeps the invariant.
LEMMA RecoverKeeps ==
    ASSUME WorkersTyped, NEW t, MailInv(t)
    PROVE  LET u == RecoverExpired(t)
           IN MailInv(u) /\ Moved(t, u)
<1> DEFINE ds == {d \in InState(t, {"processing"}) : t.dlv[d].timer = "lapsed"}
           v == ForDigests(t, ds, RecoveredRow)
           x == Cover(v, ds, "ambiguous")
           tokens == {t.dlv[d].token : d \in ds}
           u == ReleaseFence(x, tokens)
<1>1. RecoverExpired(t) = u
    BY DEF RecoverExpired
<1>2. t \in Tables /\ LaneShape(t) /\ RowShape(t)
    BY DEF MailInv
<1>3. ds \subseteq Days /\ \A d \in ds : t.dlv[d].state = "processing"
    BY DEF InState
<1>4. \A d \in Days : d \in ds => t.fence = {t.dlv[d].token} /\ t.dlv[d].token \in tokens
    BY <1>2, <1>3 DEF LaneShape
<1>5. \A d, e \in Days : t.dlv[d].state = "processing" /\ t.dlv[e].state = "processing" => d = e
  <2>1. ASSUME NEW d \in Days, NEW e \in Days,
               t.dlv[d].state = "processing", t.dlv[e].state = "processing"
        PROVE  d = e
    <3>1. t.dlv[d].token = t.dlv[e].token
        BY <1>2, <2>1 DEF LaneShape, InState
    <3>2. /\ t.dlv[d].token = <<d, t.dlv[d].attempts>>
          /\ t.dlv[e].token = <<e, t.dlv[e].attempts>>
        BY <1>2, <2>1 DEF RowShape
    <3>3. <<d, t.dlv[d].attempts>> = <<e, t.dlv[e].attempts>>
        BY <3>1, <3>2
    <3>4. <<d, t.dlv[d].attempts>>[1] = <<e, t.dlv[e].attempts>>[1]
        BY <3>3, Zenon
    <3> QED BY <3>4
  <2> QED BY <2>1
<1>6. ds = {} => tokens = {}
    OBVIOUS
<1> HIDE DEF ds, tokens
<1>7. /\ v \in Tables /\ v.src = t.src /\ v.fence = t.fence /\ v.lane = t.lane
      /\ \A d \in Days : IF d \in ds
                         THEN /\ v.dlv[d].state = "ambiguous"
                              /\ v.dlv[d].snapshot = t.dlv[d].snapshot
                         ELSE v.dlv[d] = t.dlv[d]
    BY <1>2, RecoveredFacts
<1> HIDE DEF v
<1>8. /\ x \in Tables /\ x.dlv = v.dlv /\ x.fence = v.fence /\ x.lane = v.lane
      /\ \A s \in Sources :
            /\ x.src[s].delivery = v.src[s].delivery
            /\ x.src[s].content = v.src[s].content
            /\ x.src[s].state = IF v.src[s].state = "pending" /\ v.src[s].delivery \in ds
                                THEN "ambiguous" ELSE v.src[s].state
  <2>1. "ambiguous" \in SourceState
      BY DEF SourceState
  <2> QED BY <1>7, <2>1, CoverFacts
<1> HIDE DEF x
<1>9. /\ u \in Tables /\ u.src = x.src /\ u.dlv = x.dlv /\ u.fence = t.fence \ tokens
      /\ u.lane = IF t.lane \in tokens THEN NoToken ELSE t.lane
    BY <1>7, <1>8, ReleaseFacts
<1> HIDE DEF u
<1>10. \A s \in Sources : ~(t.src[s].state = "pending" /\ t.src[s].delivery \in ds)
                             => u.src[s] = t.src[s]
  <2>1. ASSUME NEW s \in Sources, ~(t.src[s].state = "pending" /\ t.src[s].delivery \in ds)
        PROVE  u.src[s] = t.src[s]
    <3>1. u.src[s] \in SourceRows /\ t.src[s] \in SourceRows
        BY <1>2, <1>9, TablesFacts
    <3>2. /\ u.src[s].state = t.src[s].state /\ u.src[s].content = t.src[s].content
          /\ u.src[s].delivery = t.src[s].delivery
        BY <1>7, <1>8, <1>9, <2>1
    <3> QED BY <3>1, <3>2 DEF SourceRows
  <2> QED BY <2>1
<1>11. Closes(t, u, ds)
  <2>1. 0 \notin ds
      BY <1>3 DEF Days
  <2>2. \A d \in Days : d \notin ds => u.dlv[d] = t.dlv[d]
      BY <1>7, <1>8, <1>9
  <2>3. \A d \in ds : u.dlv[d].snapshot = t.dlv[d].snapshot /\ u.dlv[d].state = "ambiguous"
      BY <1>3, <1>7, <1>8, <1>9
  <2>4. \A s \in Sources : t.src[s].state = "pending" /\ t.src[s].delivery \in ds =>
               u.src[s].state = "ambiguous" /\ u.src[s].delivery = t.src[s].delivery
      BY <1>7, <1>8, <1>9
  <2> QED BY <1>3, <1>9, <1>10, <2>1, <2>2, <2>3, <2>4 DEF Closes
<1>12. LaneShape(u)
  <2>1. CASE ds = {}
    <3>1. u.fence = t.fence /\ u.lane = t.lane
        BY <1>6, <1>9, <2>1
    <3>2. \A d \in Days : u.dlv[d] = t.dlv[d]
        BY <1>7, <1>8, <1>9, <2>1
    <3> QED BY <1>2, <3>1, <3>2, SameLane
  <2>2. CASE ds # {}
    <3>1. PICK d \in ds : TRUE
        BY <2>2
    <3>2. u.fence = {}
        BY <1>3, <1>4, <1>9, <3>1
    <3>3. \A e \in Days : u.dlv[e].state # "processing"
        BY <1>3, <1>5, <1>7, <1>8, <1>9, <3>1
    <3> QED BY <3>2, <3>3 DEF LaneShape, InState
  <2> QED BY <2>1, <2>2
<1>13. MailInv(u) /\ Moved(t, u)
    BY <1>11, <1>12, CloseKeeps, CloseMoves
<1> QED BY <1>1, <1>13

\* Retries that have left the idempotency window fail.
LEMMA ExpireKeeps ==
    ASSUME WorkersTyped, NEW t, MailInv(t)
    PROVE  LET u == ExpireRetries(t)
           IN MailInv(u) /\ Moved(t, u)
<1> DEFINE ds == {d \in InState(t, {"retry_wait"}) : t.dlv[d].timer = "stale"}
           row(r) == [r EXCEPT !.state = "failed", !.timer = "wait"]
           dlv == [d \in Days |-> IF d \in ds THEN row(t.dlv[d]) ELSE t.dlv[d]]
           v == [t EXCEPT !.dlv = dlv]
           u == Cover(v, ds, "failed")
<1>1. ExpireRetries(t) = u
    BY DEF ExpireRetries, ForDigests
<1>2. t \in Tables /\ LaneShape(t)
    BY DEF MailInv
<1>3. ds \subseteq Days /\ (\A d \in ds : t.dlv[d].state = "retry_wait") /\ 0 \notin ds
    BY DEF InState, Days
<1> HIDE DEF ds
<1>4. /\ dlv \in [Days -> Digests]
      /\ \A d \in Days : IF d \in ds
                         THEN /\ dlv[d].state = "failed"
                              /\ dlv[d].snapshot = t.dlv[d].snapshot
                         ELSE dlv[d] = t.dlv[d]
  <2>1. "failed" \in DeliveryState /\ "wait" \in Timer
      BY DEF DeliveryState, Timer
  <2>2. ASSUME NEW d \in Days
        PROVE  /\ row(t.dlv[d]) \in Digests /\ row(t.dlv[d]).state = "failed"
               /\ row(t.dlv[d]).snapshot = t.dlv[d].snapshot /\ t.dlv[d] \in Digests
    <3>1. t.dlv[d] \in Digests
        BY <1>2, TablesFacts
    <3> QED BY <2>1, <3>1 DEF Digests
  <2> HIDE DEF row
  <2> QED BY <2>2
<1> HIDE DEF dlv
<1>5. v \in Tables /\ v.dlv = dlv /\ v.src = t.src /\ v.fence = t.fence /\ v.lane = t.lane
    BY <1>2, <1>4 DEF Tables
<1> HIDE DEF v
<1>6. /\ u \in Tables /\ u.dlv = dlv /\ u.fence = t.fence /\ u.lane = t.lane
      /\ \A s \in Sources :
            /\ u.src[s].delivery = t.src[s].delivery
            /\ u.src[s].content = t.src[s].content
            /\ u.src[s].state = IF t.src[s].state = "pending" /\ t.src[s].delivery \in ds
                                THEN "failed" ELSE t.src[s].state
  <2>1. "failed" \in SourceState
      BY DEF SourceState
  <2> QED BY <1>5, <2>1, CoverFacts
<1> HIDE DEF u
<1>7. \A s \in Sources : ~(t.src[s].state = "pending" /\ t.src[s].delivery \in ds)
                             => u.src[s] = t.src[s]
  <2>1. ASSUME NEW s \in Sources, ~(t.src[s].state = "pending" /\ t.src[s].delivery \in ds)
        PROVE  u.src[s] = t.src[s]
    <3>1. u.src[s] \in SourceRows /\ t.src[s] \in SourceRows
        BY <1>2, <1>6, TablesFacts
    <3>2. /\ u.src[s].state = t.src[s].state /\ u.src[s].content = t.src[s].content
          /\ u.src[s].delivery = t.src[s].delivery
        BY <1>6, <2>1
    <3> QED BY <3>1, <3>2 DEF SourceRows
  <2> QED BY <2>1
<1>8. Closes(t, u, ds)
  <2>1. \A d \in ds : /\ u.dlv[d].snapshot = t.dlv[d].snapshot /\ u.dlv[d].state = "failed"
                      /\ t.dlv[d].state \in Unsent /\ t.dlv[d].state # "processing"
      BY <1>3, <1>4, <1>6, OpenFacts
  <2>2. \A s \in Sources : t.src[s].state = "pending" /\ t.src[s].delivery \in ds =>
                              u.src[s].state = "failed"
      BY <1>6
  <2>3. \A d \in Days : d \notin ds => u.dlv[d] = t.dlv[d]
      BY <1>4, <1>6
  <2> QED BY <1>3, <1>6, <1>7, <2>1, <2>2, <2>3 DEF Closes
<1>9. LaneShape(u)
  <2>1. \A d \in Days : /\ u.dlv[d].state = "processing" <=> t.dlv[d].state = "processing"
                        /\ u.dlv[d].state = "processing" => u.dlv[d].token = t.dlv[d].token
      BY <1>3, <1>4, <1>6
  <2> QED BY <1>2, <1>6, <2>1, SameLane
<1> QED BY <1>1, <1>8, <1>9, CloseKeeps, CloseMoves

-----------------------------------------------------------------------------
(* Reading a candidate.                                                    *)

\* Briefs are taken out of a digest together with their evidence.
LEMMA TrimFacts ==
    ASSUME NEW t \in Tables, NEW d \in Days, NEW stale
    PROVE  LET u == Trim(t, d, stale)
           IN /\ u \in Tables /\ u.fence = t.fence /\ u.lane = t.lane
              /\ u.dlv[d].snapshot = t.dlv[d].snapshot \ stale
              /\ u.dlv[d].state = t.dlv[d].state /\ u.dlv[d].attempts = t.dlv[d].attempts
              /\ u.dlv[d].consent = t.dlv[d].consent /\ u.dlv[d].to = t.dlv[d].to
              /\ u.dlv[d].content = t.dlv[d].content
              /\ \A e \in Days : e # d => u.dlv[e] = t.dlv[e]
              /\ \A s \in Sources :
                    /\ u.src[s].state = t.src[s].state
                    /\ IF s \in Named(stale) /\ t.src[s].state = "pending" /\ t.src[s].delivery = d
                       THEN u.src[s].delivery = 0 ELSE u.src[s] = t.src[s]
<1> DEFINE lost == Named(stale)
           kept(r) == [r EXCEPT !.snapshot = r.snapshot \ stale]
           row(s) == IF s \in lost /\ t.src[s].state = "pending" /\ t.src[s].delivery = d
                     THEN [t.src[s] EXCEPT !.delivery = 0] ELSE t.src[s]
           src == [s \in Sources |-> row(s)]
           v == [t EXCEPT !.src = src]
           dlv == [e \in Days |-> IF e \in {d} THEN kept(v.dlv[e]) ELSE v.dlv[e]]
<1>1. Trim(t, d, stale) = [v EXCEPT !.dlv = dlv]
    BY DEF Trim, ForDigests, Detached, Named
<1>2. ASSUME NEW s \in Sources
      PROVE  /\ row(s) \in SourceRows /\ row(s).state = t.src[s].state
             /\ IF s \in lost /\ t.src[s].state = "pending" /\ t.src[s].delivery = d
                THEN row(s).delivery = 0 ELSE row(s) = t.src[s]
  <2>1. t.src[s] \in SourceRows
      BY TablesFacts
  <2> QED BY <2>1 DEF SourceRows
<1>3. src \in [Sources -> SourceRows] /\ \A s \in Sources : src[s] = row(s)
    BY <1>2
<1> HIDE DEF row, src
<1>4. v \in Tables /\ v.src = src /\ v.dlv = t.dlv /\ v.fence = t.fence /\ v.lane = t.lane
    BY <1>3 DEF Tables
<1> HIDE DEF v
<1>5. ASSUME NEW e \in Days
      PROVE  /\ t.dlv[e] \in Digests /\ kept(t.dlv[e]) \in Digests
             /\ kept(t.dlv[e]).snapshot = t.dlv[e].snapshot \ stale
             /\ kept(t.dlv[e]).state = t.dlv[e].state
             /\ kept(t.dlv[e]).attempts = t.dlv[e].attempts
             /\ kept(t.dlv[e]).consent = t.dlv[e].consent /\ kept(t.dlv[e]).to = t.dlv[e].to
             /\ kept(t.dlv[e]).content = t.dlv[e].content
  <2>1. t.dlv[e] \in Digests
      BY TablesFacts
  <2>2. t.dlv[e].snapshot \ stale \in SUBSET Briefs
      BY <2>1 DEF Digests
  <2> QED BY <2>1, <2>2 DEF Digests
<1> HIDE DEF kept
<1>6. /\ dlv \in [Days -> Digests] /\ dlv[d] = kept(t.dlv[d])
      /\ \A e \in Days : e # d => dlv[e] = t.dlv[e]
    BY <1>4, <1>5
<1> HIDE DEF dlv
<1>7. LET u == [v EXCEPT !.dlv = dlv]
      IN u \in Tables /\ u.src = src /\ u.dlv = dlv /\ u.fence = t.fence /\ u.lane = t.lane
    BY <1>4, <1>6 DEF Tables
<1> QED BY <1>1, <1>2, <1>3, <1>5, <1>6, <1>7

\* A snapshot names evidence of the account.
LEMMA NamedFacts ==
    ASSUME NEW snapshot \in SUBSET Briefs
    PROVE  /\ Named(snapshot) \subseteq Sources
           /\ \A b \in snapshot : b.members \subseteq Named(snapshot)
           /\ \A s \in Named(snapshot) : \E b \in snapshot : s \in b.members
BY DEF Named, Briefs

\* Taking briefs out of a digest that waits keeps the invariant.
LEMMA TrimKeeps ==
    ASSUME WorkersTyped, NEW t, MailInv(t), NEW d \in Days, t.dlv[d].state \in Unsent,
           NEW stale, stale \subseteq t.dlv[d].snapshot
    PROVE  LET u == Trim(t, d, stale)
           IN MailInv(u) /\ Moved(t, u)
<1> USE OpenFacts
<1> DEFINE u == Trim(t, d, stale)
<1>1. /\ t \in Tables
      /\ RowShape(t) /\ LaneShape(t) /\ Consented(t) /\ Organized(t)
      /\ Joined(t) /\ Covered(t) /\ Apart(t) /\ Inherited(t) /\ ErasedIsGone(t) /\ Unassigned(t)
      /\ Holders(t) /\ Acted(t) /\ CoverageTrue(t) /\ ReceiptTrue(t) /\ DeletedOut(t)
    BY DEF MailInv
<1>2. /\ u \in Tables /\ u.fence = t.fence /\ u.lane = t.lane
      /\ u.dlv[d].snapshot = t.dlv[d].snapshot \ stale
      /\ u.dlv[d].state = t.dlv[d].state /\ u.dlv[d].attempts = t.dlv[d].attempts
      /\ \A e \in Days : e # d => u.dlv[e] = t.dlv[e]
      /\ \A s \in Sources :
            /\ u.src[s].state = t.src[s].state
            /\ IF s \in Named(stale) /\ t.src[s].state = "pending" /\ t.src[s].delivery = d
               THEN u.src[s].delivery = 0 ELSE u.src[s] = t.src[s]
    BY <1>1, TrimFacts
<1> HIDE DEF u
<1>3. /\ \A e \in Days : u.dlv[e].state = t.dlv[e].state /\ u.dlv[e].attempts = t.dlv[e].attempts
      /\ \A e \in Days : u.dlv[e].snapshot \subseteq t.dlv[e].snapshot
      /\ \A e \in Days : t.dlv[e].state \notin Unsent => u.dlv[e] = t.dlv[e]
    BY <1>2
<1>4. \A s \in Sources : t.src[s].state # "pending" \/ t.src[s].delivery # d => u.src[s] = t.src[s]
    BY <1>2
<1>5. RowShape(u)
    BY <1>1, <1>3 DEF RowShape
<1>6. LaneShape(u) /\ Consented(u) /\ Organized(u)
    BY <1>1, <1>2, <1>3 DEF LaneShape, Consented, Organized, InState
<1>7. Joined(u)
  <2>1. ASSUME NEW s \in Sources, u.src[s].state = "pending", u.src[s].delivery # 0
        PROVE  /\ u.dlv[u.src[s].delivery].state \in Open
               /\ s \in Named(u.dlv[u.src[s].delivery].snapshot)
    <3>1. u.src[s] = t.src[s] /\ ~(s \in Named(stale) /\ t.src[s].delivery = d)
        BY <1>2, <2>1
    <3>2. u.src[s].delivery \in Days
        BY <2>1, <1>2, TablesFacts DEF SourceRows
    <3>3. t.dlv[t.src[s].delivery].state \in Open /\ s \in Named(t.dlv[t.src[s].delivery].snapshot)
        BY <1>1, <2>1, <3>1 DEF Joined
    <3>4. CASE t.src[s].delivery # d
        BY <1>2, <3>1, <3>2, <3>3, <3>4
    <3>5. CASE t.src[s].delivery = d
      <4>1. s \in Named(t.dlv[d].snapshot \ stale)
          BY <3>1, <3>3, <3>5 DEF Named
      <4> QED BY <1>2, <1>3, <3>1, <3>2, <3>3, <3>5, <4>1
    <3> QED BY <3>4, <3>5
  <2> QED BY <2>1 DEF Joined
<1>8. Covered(u)
  <2>1. ASSUME NEW e \in Days, u.dlv[e].state \in Open, NEW s \in Named(u.dlv[e].snapshot)
        PROVE  BelongsTo(u, s, e)
    <3>1. PICK b \in u.dlv[e].snapshot : s \in b.members
        BY <2>1 DEF Named
    <3>2. b \in t.dlv[e].snapshot /\ s \in Named(t.dlv[e].snapshot)
        BY <1>3, <2>1, <3>1 DEF Named
    <3>3. s \in Sources
        BY <1>1, <3>2, TablesFacts, NamedFacts DEF Digests
    <3>4. BelongsTo(t, s, e)
        BY <1>1, <1>3, <2>1, <3>2 DEF Covered, InState
    <3>5. CASE t.src[s].state \in {"none", "erased"}
        BY <1>4, <3>3, <3>5 DEF BelongsTo
    <3>6. CASE t.src[s].state = "pending" /\ t.src[s].delivery = e
      <4>1. e = d => s \notin Named(stale)
        <5>1. SUFFICES ASSUME e = d, s \in Named(stale) PROVE FALSE
            OBVIOUS
        <5>2. PICK c \in stale : s \in c.members
            BY <5>1 DEF Named
        <5>3. b \in t.dlv[d].snapshot /\ c \in t.dlv[d].snapshot /\ b # c
            BY <1>2, <3>1, <3>2, <5>1, <5>2
        <5>4. t.src[s].state \in {"none", "erased"}
            BY <1>1, <3>1, <5>2, <5>3 DEF Apart, InState
        <5> QED BY <3>6, <5>4
      <4> QED BY <1>2, <3>3, <3>6, <4>1 DEF BelongsTo
    <3> QED BY <3>4, <3>5, <3>6 DEF BelongsTo
  <2> QED BY <2>1 DEF Covered, InState
<1>9. Apart(u)
  <2>1. ASSUME NEW e \in Days, u.dlv[e].state \in Open,
               NEW b \in u.dlv[e].snapshot, NEW c \in u.dlv[e].snapshot, b # c,
               NEW s \in b.members \cap c.members
        PROVE  u.src[s].state \in {"none", "erased"}
    <3>1. t.src[s].state \in {"none", "erased"}
        BY <1>1, <1>3, <2>1 DEF Apart, InState
    <3>2. s \in Sources
        BY <1>2, <2>1, TablesFacts DEF Digests, Briefs
    <3> QED BY <1>2, <3>1, <3>2
  <2> QED BY <2>1 DEF Apart, InState
<1>10. \A s \in Sources : HasBrief(t, s) => HasBrief(u, s)
    BY <1>2 DEF HasBrief
<1>11. Inherited(u)
  <2>1. ASSUME NEW e \in Days, NEW s \in Named(u.dlv[e].snapshot) PROVE HasBrief(u, s)
    <3>1. s \in Named(t.dlv[e].snapshot)
        BY <1>3, <2>1 DEF Named
    <3>2. s \in Sources
        BY <1>1, <3>1, TablesFacts, NamedFacts DEF Digests
    <3> QED BY <1>1, <1>10, <3>1, <3>2 DEF Inherited
  <2>2. ASSUME NEW w \in Workers, pc[w] # "idle", NEW s \in Named(cand[w].snapshot)
        PROVE  HasBrief(u, s)
    <3>1. s \in Sources
        BY <2>2, NamedFacts DEF WorkersTyped, Candidates
    <3> QED BY <1>1, <1>10, <2>2, <3>1 DEF Inherited
  <2>3. ASSUME NEW p \in mailed PROVE HasBrief(u, p[2])
    <3>1. p[2] \in Sources
        BY <2>3 DEF WorkersTyped
    <3> QED BY <1>1, <1>10, <2>3, <3>1 DEF Inherited
  <2> QED BY <2>1, <2>2, <2>3 DEF Inherited
<1>12. ErasedIsGone(u) /\ Unassigned(u)
    BY <1>1, <1>2 DEF ErasedIsGone, Unassigned
<1>13. Holders(u)
  <2>1. ASSUME NEW w \in Workers, Holding(w) PROVE Held(u, w)
    <3>1. cand[w] \in Candidates
        BY <2>1 DEF WorkersTyped, Holding
    <3>2. cand[w].date \in Days /\ Named(cand[w].snapshot) \subseteq Sources
        BY <3>1, NamedFacts DEF Candidates
    <3>3. Held(t, w)
        BY <1>1, <2>1 DEF Holders
    <3>4. u.dlv[cand[w].date] = t.dlv[cand[w].date]
        BY <1>3, <3>2, <3>3 DEF Held, Unsent, Waiting
    <3> QED BY <1>4, <3>2, <3>3, <3>4 DEF Held
  <2> QED BY <1>1, <2>1 DEF Holders
<1>14. Acted(u)
    BY <1>1, <1>3 DEF Acted
<1>15. CoverageTrue(u)
  <2>1. ASSUME NEW p \in mailed
        PROVE  u.src[p[2]].state \in {"none", "erased"}
                      \/ /\ u.src[p[2]].delivery = p[1]
                         /\ u.src[p[2]].state \in {"pending", "delivered", "ambiguous"}
    <3>1. p[1] \in Days /\ p[2] \in Sources /\ p = <<p[1], p[2]>>
        BY <2>1 DEF WorkersTyped
    <3>2. t.src[p[2]].state \in {"none", "erased"}
                      \/ /\ t.src[p[2]].delivery = p[1]
                         /\ t.src[p[2]].state \in {"pending", "delivered", "ambiguous"}
        BY <1>1, <2>1 DEF CoverageTrue
    <3>3. p[1] # d
        BY <1>1, <2>1, <3>1 DEF Acted
    <3> QED BY <1>2, <1>4, <3>1, <3>2, <3>3
  <2> QED BY <2>1 DEF CoverageTrue
<1>16. ReceiptTrue(u)
    BY <1>1, <1>2, <1>4 DEF ReceiptTrue
<1>17. DeletedOut(u)
    BY <1>1, <1>3 DEF DeletedOut
<1>18. Moved(t, u)
    BY <1>3 DEF Moved, Moves
<1> QED BY <1>2, <1>5, <1>6, <1>7, <1>8, <1>9, <1>11, <1>12, <1>13, <1>14, <1>15, <1>16, <1>17,
           <1>18 DEF MailInv, u

\* A set of naturals has a smallest element.
LEMMA SmallestFacts ==
    ASSUME NEW S \in SUBSET Nat, S # {}
    PROVE  Min(S) \in S /\ \A y \in S : Min(S) <= y
<1> DEFINE below == {ss \in Nat \X Nat : ss[1] < ss[2]}
<1>1. IsWellFoundedOn(below, Nat)
    BY NatLessThanWellFounded DEF OpToRel
<1>2. PICK x \in S : \A y \in S : ~(<<y, x>> \in below)
  <2> HIDE DEF below
  <2> QED BY <1>1, WFMin
<1>3. ASSUME NEW y \in S PROVE x <= y
  <2>1. x \in Nat /\ y \in Nat
      OBVIOUS
  <2>2. <<y, x>> \in below <=> y < x
      BY <2>1
  <2> QED BY <1>2, <2>1, <2>2
<1> QED BY <1>3 DEF Min

\* What a worker may be given: a digest that waits, that the owner's settings
\* allow, and whose briefs are all current.
Sendable(t, d) == Authorized(t, d) /\ \A b \in t.dlv[d].snapshot : Current(b)
Chosen(t, c) == \E d \in InState(t, Waiting) : c = Candidate(t, d) /\ Sendable(t, d)

\* What a transaction that reads a candidate leaves behind.
Sweeps(t, r) ==
    /\ MailInv(r.t) /\ Moved(t, r.t)
    /\ r.cand = NoCandidate \/ Chosen(r.t, r.cand)

\* The parts of a result.
LEMMA ResultFacts == \A t, c : Result(t, c).t = t /\ Result(t, c).cand = c
BY DEF Result

\* Reading one digest cancels it, or trims it to its current briefs; one that
\* can be sent as it is stays as it is.
LEMMA ReadDigestSweeps ==
    ASSUME WorkersTyped, NEW t, MailInv(t), NEW d \in Days, t.dlv[d].state \in Waiting
    PROVE  LET r == ReadDigest(t, d)
           IN /\ Sweeps(t, r)
              /\ \A e \in InState(t, Waiting) : Sendable(t, e) => r.t.dlv[e].state = t.dlv[e].state
<1> DEFINE stale == {b \in t.dlv[d].snapshot : ~Current(b)}
           trimmed == Trim(t, d, stale)
           gone == CancelSnapshot(t, {d})
           r == ReadDigest(t, d)
<1>1. t \in Tables /\ t.dlv[d].state \in Unsent
    BY DEF MailInv, Unsent
<1>2. CASE \/ ~Authorized(t, d)
           \/ stale # {} /\ (t.dlv[d].attempts > 0 \/ stale = t.dlv[d].snapshot)
  <2>1. r = Result(gone, NoCandidate)
      BY <1>2 DEF ReadDigest
  <2>2. MailInv(gone) /\ Moved(t, gone)
      BY <1>1, CancelKeeps
  <2>3. \A e \in Days : e # d => gone.dlv[e] = t.dlv[e]
    <3>1. Closes(t, gone, {d})
        BY <1>1, CancelCloses
    <3> QED BY <3>1 DEF Closes
  <2>4. ~Sendable(t, d)
      BY <1>2 DEF Sendable
  <2> HIDE DEF gone, r
  <2>5. r.t = gone /\ r.cand = NoCandidate
      BY <2>1, ResultFacts
  <2> QED BY <2>2, <2>3, <2>4, <2>5 DEF Sweeps, InState, r
<1>3. CASE ~(\/ ~Authorized(t, d)
             \/ stale # {} /\ (t.dlv[d].attempts > 0 \/ stale = t.dlv[d].snapshot))
  <2>1. r = Result(trimmed, Candidate(trimmed, d))
      BY <1>3 DEF ReadDigest
  <2>2. Authorized(t, d)
      BY <1>3
  <2>3. MailInv(trimmed) /\ Moved(t, trimmed)
      BY <1>1, TrimKeeps
  <2>4. /\ trimmed.dlv[d].snapshot = t.dlv[d].snapshot \ stale
        /\ trimmed.dlv[d].state = t.dlv[d].state
        /\ trimmed.dlv[d].consent = t.dlv[d].consent /\ trimmed.dlv[d].to = t.dlv[d].to
        /\ trimmed.dlv[d].content = t.dlv[d].content
        /\ \A e \in Days : e # d => trimmed.dlv[e] = t.dlv[e]
      BY <1>1, TrimFacts
  <2>5. \A b \in trimmed.dlv[d].snapshot : Current(b)
      BY <2>4
  <2> HIDE DEF trimmed, r, stale
  <2>6. Authorized(trimmed, d)
      BY <2>2, <2>4 DEF Authorized
  <2>7. r.t = trimmed /\ r.cand = Candidate(trimmed, d)
      BY <2>1, ResultFacts
  <2>8. Chosen(trimmed, Candidate(trimmed, d))
      BY <2>4, <2>5, <2>6 DEF Chosen, Sendable, InState
  <2>9. \A e \in Days : trimmed.dlv[e].state = t.dlv[e].state
      BY <2>4
  <2> QED BY <2>3, <2>7, <2>8, <2>9 DEF Sweeps, InState, r
<1> QED BY <1>2, <1>3

\* Nothing moves when nothing is done.
LEMMA MovedSame == \A t : Moved(t, t)
BY DEF Moved, Moves

\* So does reading the candidate.
LEMMA ReadSweeps ==
    ASSUME WorkersTyped, NEW t, MailInv(t)
    PROVE  LET r == ReadCandidate(t)
           IN /\ Sweeps(t, r)
              /\ \A e \in InState(t, Waiting) : Sendable(t, e) => r.t.dlv[e].state = t.dlv[e].state
<1> DEFINE ds == {d \in InState(t, Waiting) : t.dlv[d].timer \in {"ready", "stale"}}
           r == ReadCandidate(t)
<1>1. CASE ds = {}
  <2>1. r = Result(t, NoCandidate)
      BY <1>1 DEF ReadCandidate
  <2> HIDE DEF r
  <2>2. r.t = t /\ r.cand = NoCandidate
      BY <2>1, ResultFacts
  <2> QED BY <2>2, MovedSame DEF Sweeps, r
<1>2. CASE ds # {}
  <2>1. r = ReadDigest(t, Min(ds))
      BY <1>2 DEF ReadCandidate
  <2>2. Min(ds) \in ds
    <3>1. ds \in SUBSET Nat
        BY DEF InState, Days
    <3> HIDE DEF ds
    <3> QED BY <1>2, <3>1, SmallestFacts
  <2>3. Min(ds) \in Days /\ t.dlv[Min(ds)].state \in Waiting
      BY <2>2 DEF InState
  <2> HIDE DEF ds
  <2> QED BY <2>1, <2>3, ReadDigestSweeps
<1> QED BY <1>1, <1>2

-----------------------------------------------------------------------------
(* Scheduling and assembly.                                                *)

\* The brief of a memory.
LEMMA BriefFacts ==
    ASSUME TopologyInv, NEW m \in Memories
    PROVE  Brief(m) \in Briefs /\ Brief(m).id = m /\ Brief(m).members = members[m]
<1>1. members[m] \in SUBSET Sources /\ revision[m] \in Nat /\ changes \in 0..MaxChange
      /\ revision[m] <= changes + 1
    BY DEF TopologyInv, TopologyTyped, RevisionsAreChanges
<1>2. revision[m] \in 0..(MaxChange + 1)
    BY <1>1, MailAssumption
<1> QED BY <1>1, <1>2 DEF Brief, Briefs

\* The briefs that a page of the assembly adds.
Added(take) == {Brief(m) : m \in IF BriefsSettled THEN take ELSE {}}

\* One page of the assembly, row by row.
Assembles(t, u, d, take) ==
    LET snapshot == t.dlv[d].snapshot \cup Added(take)
    IN /\ u \in Tables /\ u.fence = t.fence /\ u.lane = t.lane
       /\ \A e \in Days : e # d => u.dlv[e] = t.dlv[e]
       /\ u.dlv[d].snapshot = snapshot
       /\ u.dlv[d].attempts = t.dlv[d].attempts
       /\ u.dlv[d].consent = t.dlv[d].consent /\ u.dlv[d].to = t.dlv[d].to
       /\ u.dlv[d].content => t.dlv[d].content
       /\ u.dlv[d].state \in {"assembling", "empty", "pending"}
       /\ u.dlv[d].state = "empty" => snapshot = {}
       /\ \A s \in Sources :
             /\ u.src[s].state = t.src[s].state
             /\ IF s \in Named(snapshot) /\ Free(t, s)
                THEN u.src[s].delivery = d ELSE u.src[s] = t.src[s]

\* That is what the page does.
LEMMA AssembledFacts ==
    ASSUME TopologyInv, NEW t \in Tables, NEW d \in Days,
           NEW page \in SUBSET Memories, NEW take \in SUBSET page
    PROVE  Assembles(t, Assembled(t, d, page, take), d, take)
<1> DEFINE considered == IF BriefsSettled THEN take ELSE page
           added == IF BriefsSettled THEN take ELSE {}
           snapshot == t.dlv[d].snapshot \cup {Brief(m) : m \in added}
           marked == UNION {members[m] : m \in considered}
           complete == Cardinality(snapshot) >= MAX_BRIEFS \/ Cardinality(page) < MAX_BRIEFS
           seen(r) == IF complete THEN {} ELSE r.considered \cup {s \in marked : Free(t, s)}
           full(r) == r.content /\ \A m \in added : \A s \in Recorded(t, m) : t.src[s].content
           state == IF ~complete THEN "assembling"
                    ELSE IF snapshot = {} THEN "empty" ELSE "pending"
           row(s) == IF s \in Named(snapshot) /\ Free(t, s)
                     THEN [t.src[s] EXCEPT !.delivery = d] ELSE t.src[s]
           src == [s \in Sources |-> row(s)]
           v == [t EXCEPT !.src = src]
           digest(r) == [r EXCEPT !.snapshot = snapshot, !.considered = seen(r),
                                  !.content = full(r), !.state = state, !.timer = "ready"]
           dlv == [e \in Days |-> IF e \in {d} THEN digest(v.dlv[e]) ELSE v.dlv[e]]
<1>1. Assembled(t, d, page, take) = [v EXCEPT !.dlv = dlv]
    BY DEF Assembled, ForDigests, Named
<1>2. ASSUME NEW s \in Sources
      PROVE  /\ row(s) \in SourceRows /\ row(s).state = t.src[s].state
             /\ IF s \in Named(snapshot) /\ Free(t, s)
                THEN row(s).delivery = d ELSE row(s) = t.src[s]
  <2>1. t.src[s] \in SourceRows
      BY TablesFacts
  <2> HIDE DEF snapshot
  <2> QED BY <2>1 DEF SourceRows
<1>3. src \in [Sources -> SourceRows] /\ \A s \in Sources : src[s] = row(s)
    BY <1>2
<1>4. t.dlv[d] \in Digests
    BY TablesFacts
<1>5. snapshot \in SUBSET Briefs
  <2>1. added \subseteq Memories
      OBVIOUS
  <2>2. \A m \in added : Brief(m) \in Briefs
      BY <2>1, BriefFacts
  <2>3. t.dlv[d].snapshot \in SUBSET Briefs
      BY <1>4 DEF Digests
  <2> HIDE DEF added
  <2> QED BY <2>2, <2>3
<1>6. seen(t.dlv[d]) \in SUBSET Sources
  <2>1. considered \subseteq Memories
      OBVIOUS
  <2>2. \A m \in Memories : members[m] \in SUBSET Sources
      BY DEF TopologyInv, TopologyTyped
  <2>3. marked \subseteq Sources
    <3> HIDE DEF considered
    <3> QED BY <2>1, <2>2
  <2>4. t.dlv[d].considered \in SUBSET Sources
      BY <1>4 DEF Digests
  <2> HIDE DEF marked, complete
  <2> QED BY <2>3, <2>4
<1>7. full(t.dlv[d]) \in BOOLEAN /\ (full(t.dlv[d]) => t.dlv[d].content)
    OBVIOUS
<1>8. /\ state \in {"assembling", "empty", "pending"} /\ (state = "empty" => snapshot = {})
      /\ state \in DeliveryState /\ "ready" \in Timer
  <2> HIDE DEF complete, snapshot
  <2> QED BY DEF DeliveryState, Unsent, Waiting, Timer
<1>9. snapshot = t.dlv[d].snapshot \cup Added(take)
    BY DEF Added
<1> HIDE DEF considered, added, snapshot, marked, complete, seen, full, state, row, src
<1>10. v \in Tables /\ v.src = src /\ v.dlv = t.dlv /\ v.fence = t.fence /\ v.lane = t.lane
    BY <1>3 DEF Tables
<1> HIDE DEF v
<1>11. LET r == digest(t.dlv[d])
       IN /\ r \in Digests /\ r.snapshot = snapshot /\ r.attempts = t.dlv[d].attempts
          /\ r.consent = t.dlv[d].consent /\ r.to = t.dlv[d].to
          /\ r.content = full(t.dlv[d]) /\ r.state = state
    BY <1>4, <1>5, <1>6, <1>7, <1>8 DEF Digests
<1> HIDE DEF digest
<1>12. /\ dlv \in [Days -> Digests] /\ dlv[d] = digest(t.dlv[d])
       /\ \A e \in Days : e # d => dlv[e] = t.dlv[e]
    BY <1>10, <1>11, TablesFacts
<1> HIDE DEF dlv
<1>13. LET u == [v EXCEPT !.dlv = dlv]
       IN u \in Tables /\ u.src = src /\ u.dlv = dlv /\ u.fence = t.fence /\ u.lane = t.lane
    BY <1>10, <1>12 DEF Tables
<1> DEFINE u == [v EXCEPT !.dlv = dlv]
<1> HIDE DEF u
<1>14. u \in Tables /\ u.src = src /\ u.dlv = dlv /\ u.fence = t.fence /\ u.lane = t.lane
    BY <1>13 DEF u
<1>15. Assembled(t, d, page, take) = u
    BY <1>1 DEF u
<1> QED BY <1>2, <1>3, <1>7, <1>8, <1>9, <1>11, <1>12, <1>14, <1>15 DEF Assembles

\* A memory that may join a digest is complete, and its evidence has no digest.
LEMMA EligibleFacts ==
    ASSUME NEW t, NEW d, NEW m \in Eligible(t, d)
    PROVE  /\ m \in Memories /\ mem[m] = "complete"
           /\ \A s \in members[m] : t.src[s].state # "none" => Free(t, s)
BY DEF Eligible, Recorded

\* Evidence of a complete memory was in a brief.
LEMMA CompleteHasBrief ==
    ASSUME TopologyInv, NEW t, NEW m \in Memories, mem[m] \in Finalized, NEW s \in members[m]
    PROVE  HasBrief(t, s)
<1>1. \A n \in Memories : s \in members[n] => n = m
    BY DEF TopologyInv, OneMemory
<1> QED BY <1>1 DEF HasBrief, Owned

\* A page of the assembly keeps the invariant.
LEMMA AssembledKeeps ==
    ASSUME TopologyInv, WorkersTyped, NEW t, MailInv(t), NEW d \in Days,
           t.dlv[d].state = "assembling",
           NEW page \in SUBSET Eligible(t, d), NEW take \in SUBSET page
    PROVE  LET u == Assembled(t, d, page, take)
           IN MailInv(u) /\ Moved(t, u)
<1> USE OpenFacts
<1> DEFINE u == Assembled(t, d, page, take)
           snapshot == t.dlv[d].snapshot \cup Added(take)
<1>1. /\ t \in Tables
      /\ RowShape(t) /\ LaneShape(t) /\ Consented(t) /\ Organized(t)
      /\ Joined(t) /\ Covered(t) /\ Apart(t) /\ Inherited(t) /\ ErasedIsGone(t) /\ Unassigned(t)
      /\ Holders(t) /\ Acted(t) /\ CoverageTrue(t) /\ ReceiptTrue(t) /\ DeletedOut(t)
    BY DEF MailInv
<1>2. /\ u \in Tables /\ u.fence = t.fence /\ u.lane = t.lane
      /\ \A e \in Days : e # d => u.dlv[e] = t.dlv[e]
      /\ u.dlv[d].snapshot = snapshot
      /\ u.dlv[d].attempts = t.dlv[d].attempts
      /\ u.dlv[d].state \in {"assembling", "empty", "pending"}
      /\ u.dlv[d].state = "empty" => snapshot = {}
      /\ \A s \in Sources :
            /\ u.src[s].state = t.src[s].state
            /\ IF s \in Named(snapshot) /\ Free(t, s)
               THEN u.src[s].delivery = d ELSE u.src[s] = t.src[s]
  <2>1. page \in SUBSET Memories
      BY EligibleFacts
  <2>2. Assembles(t, u, d, take)
      BY <1>1, <2>1, AssembledFacts
  <2> HIDE DEF u
  <2> QED BY <2>2 DEF Assembles
<1>3. \A b \in Added(take) : \E m \in page : b = Brief(m)
    BY DEF Added
<1>4. ASSUME NEW b \in Added(take)
      PROVE  /\ b.id \in Memories /\ mem[b.id] = "complete" /\ b.members = members[b.id]
             /\ b = Brief(b.id)
             /\ \A s \in b.members : s \in Sources /\ HasBrief(t, s)
                                     /\ (t.src[s].state # "none" => Free(t, s))
  <2>1. PICK m \in page : b = Brief(m)
      BY <1>3, <1>4
  <2>2. m \in Memories /\ mem[m] = "complete"
        /\ \A s \in members[m] : t.src[s].state # "none" => Free(t, s)
      BY <2>1, EligibleFacts
  <2>3. b.id = m /\ b.members = members[m] /\ b = Brief(b.id) /\ members[m] \subseteq Sources
      BY <2>1, <2>2, BriefFacts DEF TopologyInv, TopologyTyped
  <2>4. \A s \in members[m] : HasBrief(t, s)
      BY <2>2, CompleteHasBrief DEF Finalized
  <2> QED BY <2>2, <2>3, <2>4
<1> HIDE DEF u
<1>5. /\ \A e \in Days : u.dlv[e].state = "processing" => e # d
      /\ \A e \in Days : t.dlv[e].state \notin Unsent => u.dlv[e] = t.dlv[e]
      /\ \A e \in Days : u.dlv[e].state \in Open => t.dlv[e].state \in Open
      /\ t.dlv[d].state \in Unsent /\ t.dlv[d].state \in Open
    BY <1>2
<1>6. \A s \in Sources : ~Free(t, s) => u.src[s] = t.src[s]
    BY <1>2
<1>7. RowShape(u)
    BY <1>1, <1>2 DEF RowShape
<1>8. LaneShape(u) /\ Consented(u) /\ Organized(u)
    BY <1>1, <1>2, <1>5 DEF LaneShape, Consented, Organized, InState
<1>9. Joined(u)
  <2>1. ASSUME NEW s \in Sources, u.src[s].state = "pending", u.src[s].delivery # 0
        PROVE  /\ u.dlv[u.src[s].delivery].state \in Open
               /\ s \in Named(u.dlv[u.src[s].delivery].snapshot)
    <3>1. CASE s \in Named(snapshot) /\ Free(t, s)
      <4>1. u.src[s].delivery = d /\ snapshot # {}
          BY <1>2, <3>1 DEF Named
      <4> QED BY <1>2, <3>1, <4>1
    <3>2. CASE ~(s \in Named(snapshot) /\ Free(t, s))
      <4>1. u.src[s] = t.src[s]
          BY <1>2, <3>2
      <4>2. u.src[s].delivery \in Days
          BY <2>1, <1>2, TablesFacts DEF SourceRows
      <4>3. /\ t.dlv[t.src[s].delivery].state \in Open
            /\ s \in Named(t.dlv[t.src[s].delivery].snapshot)
          BY <1>1, <2>1, <4>1 DEF Joined
      <4>4. CASE t.src[s].delivery # d
          BY <1>2, <4>1, <4>2, <4>3, <4>4
      <4>5. CASE t.src[s].delivery = d
        <5>1. s \in Named(snapshot) /\ snapshot # {}
            BY <4>3, <4>5 DEF Named
        <5>2. u.src[s].delivery = d
            BY <4>1, <4>5
        <5>3. u.dlv[d].state \in Open /\ s \in Named(u.dlv[d].snapshot)
          <6> HIDE DEF snapshot
          <6> QED BY <1>2, <5>1
        <5> QED BY <5>2, <5>3
      <4> QED BY <4>4, <4>5
    <3> QED BY <3>1, <3>2
  <2> QED BY <2>1 DEF Joined
<1>10. ASSUME NEW e \in Days, t.dlv[e].state \in Open, NEW s \in Named(t.dlv[e].snapshot)
       PROVE  BelongsTo(t, s, e) /\ BelongsTo(u, s, e) /\ s \in Sources
  <2>1. BelongsTo(t, s, e)
      BY <1>1, <1>10 DEF Covered, InState
  <2>2. s \in Sources
      BY <1>1, <1>10, TablesFacts, NamedFacts DEF Digests
  <2>3. ~Free(t, s)
      BY <2>1 DEF BelongsTo, Free, Days
  <2> QED BY <1>6, <2>1, <2>2, <2>3 DEF BelongsTo
<1>11. Covered(u)
  <2>1. ASSUME NEW e \in Days, u.dlv[e].state \in Open, NEW s \in Named(u.dlv[e].snapshot)
        PROVE  BelongsTo(u, s, e)
    <3>1. CASE s \in Named(t.dlv[e].snapshot)
        BY <1>5, <1>10, <2>1, <3>1
    <3>2. CASE s \notin Named(t.dlv[e].snapshot)
      <4>1. e = d
          BY <1>2, <2>1, <3>2
      <4>2. PICK b \in Added(take) : s \in b.members
          BY <1>2, <2>1, <3>2, <4>1 DEF Named
      <4>3. s \in Sources /\ (t.src[s].state # "none" => Free(t, s)) /\ s \in Named(snapshot)
          BY <1>4, <4>2 DEF Named
      <4> HIDE DEF snapshot
      <4> QED BY <1>2, <4>1, <4>3 DEF BelongsTo, Free
    <3> QED BY <3>1, <3>2
  <2> QED BY <2>1 DEF Covered, InState
<1>12. Apart(u)
  <2>1. ASSUME NEW e \in Days, u.dlv[e].state \in Open,
               NEW b \in u.dlv[e].snapshot, NEW c \in u.dlv[e].snapshot, b # c,
               NEW s \in b.members \cap c.members
        PROVE  u.src[s].state \in {"none", "erased"}
    <3>1. s \in Sources
        BY <1>2, <2>1, TablesFacts DEF Digests, Briefs
    <3>2. ASSUME t.src[s].state \notin {"none", "erased"} PROVE FALSE
      <4>1. ~(b \in t.dlv[e].snapshot /\ c \in t.dlv[e].snapshot)
          BY <1>1, <1>5, <2>1, <3>2 DEF Apart, InState
      <4>2. e = d /\ (b \in Added(take) \/ c \in Added(take))
          BY <1>2, <2>1, <4>1
      <4>3. Free(t, s)
          BY <1>4, <2>1, <3>2, <4>2
      <4>4. s \notin Named(t.dlv[d].snapshot)
          BY <1>5, <1>10, <3>2, <4>3 DEF BelongsTo, Free, Days
      <4>5. b \in Added(take) /\ c \in Added(take)
          BY <1>2, <2>1, <4>2, <4>4 DEF Named
      <4>6. b.id # c.id
          BY <1>4, <2>1, <4>5
      <4> QED BY <1>4, <2>1, <4>5, <4>6 DEF TopologyInv, OneMemory
    <3> QED BY <1>2, <3>1, <3>2
  <2> QED BY <2>1 DEF Apart, InState
<1>13. \A s \in Sources : HasBrief(t, s) => HasBrief(u, s)
    BY <1>2 DEF HasBrief
<1>14. Inherited(u)
  <2>1. ASSUME NEW e \in Days, NEW s \in Named(u.dlv[e].snapshot) PROVE HasBrief(u, s)
    <3>1. s \in Sources
        BY <1>2, TablesFacts, NamedFacts DEF Digests
    <3>2. CASE s \in Named(t.dlv[e].snapshot)
        BY <1>1, <1>13, <3>1, <3>2 DEF Inherited
    <3>3. CASE s \notin Named(t.dlv[e].snapshot)
      <4>1. e = d
          BY <1>2, <2>1, <3>3
      <4>2. PICK b \in Added(take) : s \in b.members
          BY <1>2, <2>1, <3>3, <4>1 DEF Named
      <4> QED BY <1>4, <1>13, <4>2
    <3> QED BY <3>2, <3>3
  <2>2. ASSUME NEW w \in Workers, pc[w] # "idle", NEW s \in Named(cand[w].snapshot)
        PROVE  HasBrief(u, s)
    <3>1. s \in Sources
        BY <2>2, NamedFacts DEF WorkersTyped, Candidates
    <3> QED BY <1>1, <1>13, <2>2, <3>1 DEF Inherited
  <2>3. ASSUME NEW p \in mailed PROVE HasBrief(u, p[2])
    <3>1. p[2] \in Sources
        BY <2>3 DEF WorkersTyped
    <3> QED BY <1>1, <1>13, <2>3, <3>1 DEF Inherited
  <2> QED BY <2>1, <2>2, <2>3 DEF Inherited
<1>15. ErasedIsGone(u) /\ Unassigned(u)
    BY <1>1, <1>2, <1>6 DEF ErasedIsGone, Unassigned, Free
<1>16. Holders(u)
  <2>1. ASSUME NEW w \in Workers, Holding(w) PROVE Held(u, w)
    <3>1. cand[w] \in Candidates
        BY <2>1 DEF WorkersTyped, Holding
    <3>2. cand[w].date \in Days /\ Named(cand[w].snapshot) \subseteq Sources
        BY <3>1, NamedFacts DEF Candidates
    <3>3. Held(t, w)
        BY <1>1, <2>1 DEF Holders
    <3>4. u.dlv[cand[w].date] = t.dlv[cand[w].date]
        BY <1>5, <3>2, <3>3 DEF Held, Unsent, Waiting
    <3> QED BY <1>6, <3>2, <3>3, <3>4 DEF Held, Free
  <2> QED BY <1>1, <2>1 DEF Holders
<1>17. Acted(u)
  <2>1. ASSUME NEW e \in Days
        PROVE  /\ u.dlv[e].state \in NotMailed => acted[e] = 0
               /\ u.dlv[e].state = "delivered" => acted[e] = 1
      BY <1>1, <1>2, <1>5 DEF Acted
  <2> QED BY <1>1, <2>1 DEF Acted
<1>18. CoverageTrue(u)
  <2>1. ASSUME NEW p \in mailed
        PROVE  u.src[p[2]].state \in {"none", "erased"}
                      \/ /\ u.src[p[2]].delivery = p[1]
                         /\ u.src[p[2]].state \in {"pending", "delivered", "ambiguous"}
    <3>1. p[1] \in Days /\ p[2] \in Sources /\ p = <<p[1], p[2]>>
        BY <2>1 DEF WorkersTyped
    <3>2. t.src[p[2]].state \in {"none", "erased"}
                      \/ /\ t.src[p[2]].delivery = p[1]
                         /\ t.src[p[2]].state \in {"pending", "delivered", "ambiguous"}
        BY <1>1, <2>1 DEF CoverageTrue
    <3>3. ~Free(t, p[2])
        BY <3>1, <3>2 DEF Free, Days
    <3> QED BY <1>6, <3>1, <3>2, <3>3
  <2> QED BY <2>1 DEF CoverageTrue
<1>19. ReceiptTrue(u)
    BY <1>1, <1>2, <1>6 DEF ReceiptTrue, Free
<1>20. DeletedOut(u)
  <2>1. ASSUME NEW b \in Added(take) PROVE Traceable(b)
      BY <1>4 DEF Traceable, Line
  <2> QED BY <1>1, <1>2, <2>1 DEF DeletedOut
<1>21. Moved(t, u)
    BY <1>2, <1>5 DEF Moved, Moves
<1> QED BY <1>2, <1>7, <1>8, <1>9, <1>11, <1>12, <1>14, <1>15, <1>16, <1>17, <1>18, <1>19, <1>20,
           <1>21 DEF MailInv, u

\* Assembly keeps the invariant; a digest that has just been opened is not
\* cancelled by it, because what it has gathered is current.
Begun == {"assembling", "pending", "empty"}
LEMMA AssemblySweeps ==
    ASSUME TopologyInv, WorkersTyped, NEW t, MailInv(t), NEW d \in Days,
           t.dlv[d].state = "assembling", NEW r \in ContinueAssembly(t, d)
    PROVE  /\ Sweeps(t, r)
           /\ Authorized(t, d) /\ t.dlv[d].snapshot = {} => r.t.dlv[d].state \in Begun
<1> USE OpenFacts
<1>1. t \in Tables /\ t.dlv[d].state \in Unsent
    BY DEF MailInv
<1>2. CASE ~Authorized(t, d)
  <2> DEFINE gone == CancelSnapshot(t, {d})
  <2>1. r = Result(gone, NoCandidate)
      BY <1>2 DEF ContinueAssembly
  <2>2. MailInv(gone) /\ Moved(t, gone)
      BY <1>1, CancelKeeps
  <2> HIDE DEF gone
  <2>3. r.t = gone /\ r.cand = NoCandidate
      BY <2>1, ResultFacts
  <2> QED BY <1>2, <2>2, <2>3 DEF Sweeps
<1>3. CASE Authorized(t, d)
  <2> DEFINE after(page, take) ==
                 LET u == Assembled(t, d, page, take)
                 IN IF u.dlv[d].state = "pending" THEN ReadCandidate(u)
                    ELSE Result(u, NoCandidate)
  <2>1. \E page \in SUBSET Eligible(t, d) : \E take \in SUBSET page : r = after(page, take)
      BY <1>3 DEF ContinueAssembly, kSubset
  <2>0. PICK page \in SUBSET Eligible(t, d) : \E take \in SUBSET page : r = after(page, take)
      BY <2>1
  <2>2. PICK take \in SUBSET page : r = after(page, take)
      BY <2>0
  <2> DEFINE u == Assembled(t, d, page, take)
  <2>3. MailInv(u) /\ Moved(t, u)
      BY AssembledKeeps
  <2>4. Assembles(t, u, d, take)
    <3>1. page \in SUBSET Memories
        BY EligibleFacts
    <3> QED BY <1>1, <3>1, AssembledFacts
  <2>5. r = IF u.dlv[d].state = "pending" THEN ReadCandidate(u) ELSE Result(u, NoCandidate)
      BY <2>2
  <2> HIDE DEF u
  <2>6. CASE u.dlv[d].state # "pending"
    <3>1. r.t = u /\ r.cand = NoCandidate
        BY <2>5, <2>6, ResultFacts
    <3> QED BY <2>3, <2>4, <3>1 DEF Sweeps, Begun, Assembles
  <2>7. CASE u.dlv[d].state = "pending"
    <3>1. r = ReadCandidate(u)
        BY <2>5, <2>7
    <3>2. /\ Sweeps(u, r)
          /\ \A e \in InState(u, Waiting) : Sendable(u, e) => r.t.dlv[e].state = u.dlv[e].state
        BY <2>3, <3>1, ReadSweeps
    <3>3. Sweeps(t, r)
        BY <2>3, <3>2, MovedTwice DEF Sweeps
    <3>4. ASSUME t.dlv[d].snapshot = {} PROVE r.t.dlv[d].state \in Begun
      <4>1. \A b \in u.dlv[d].snapshot : b \in Added(take)
          BY <2>4, <3>4 DEF Assembles
      <4>2. ASSUME NEW b \in Added(take) PROVE Current(b)
        <5>1. PICK m \in take : b = Brief(m) /\ BriefsSettled
            BY <4>2 DEF Added
        <5>2. m \in Memories /\ mem[m] = "complete"
            BY <5>1, EligibleFacts
        <5>3. b.id = m
            BY <5>1, <5>2, BriefFacts
        <5> QED BY <5>1, <5>2, <5>3 DEF Current
      <4>3. Authorized(u, d)
          BY <1>3, <2>4 DEF Authorized, Assembles
      <4>4. Sendable(u, d) /\ d \in InState(u, Waiting)
          BY <2>7, <4>1, <4>2, <4>3 DEF Sendable, InState, Waiting
      <4> QED BY <2>7, <3>2, <4>4 DEF Begun
    <3> QED BY <3>3, <3>4
  <2> QED BY <2>6, <2>7
<1> QED BY <1>2, <1>3

\* Updates are withheld and released among the evidence that has no digest.
LEMMA WithholdFacts ==
    ASSUME NEW t \in Tables, Unassigned(t)
    PROVE  LET u == WithholdUpdates(t)
           IN /\ u \in Tables /\ u.dlv = t.dlv /\ u.fence = t.fence /\ u.lane = t.lane
              /\ \A s \in Sources :
                    \/ u.src[s] = t.src[s]
                    \/ /\ t.src[s].delivery = 0 /\ u.src[s].delivery = 0
                       /\ {t.src[s].state, u.src[s].state} \subseteq {"pending", "withheld_update"}
<1> DEFINE mid(s) == IF t.src[s].state = "withheld_update" /\ Owned(s) /\ ~Beside(t, s, Receipts)
                     THEN [t.src[s] EXCEPT !.state = "pending"] ELSE t.src[s]
           msrc == [s \in Sources |-> mid(s)]
           v == [t EXCEPT !.src = msrc]
           row(s) == IF v.src[s].state = "pending" /\ Owned(s) /\ v.src[s].delivery = 0
                                /\ Beside(v, s, Receipts \cup {"withheld_update"})
                     THEN [v.src[s] EXCEPT !.state = "withheld_update"] ELSE v.src[s]
           src == [s \in Sources |-> row(s)]
           u == [v EXCEPT !.src = src]
<1>1. WithholdUpdates(t) = u
    BY DEF WithholdUpdates, Restate
<1>2. ASSUME NEW s \in Sources
      PROVE  /\ mid(s) \in SourceRows
             /\ \/ mid(s) = t.src[s]
                \/ /\ t.src[s].delivery = 0 /\ mid(s).delivery = 0
                   /\ t.src[s].state = "withheld_update" /\ mid(s).state = "pending"
  <2>1. t.src[s] \in SourceRows /\ "pending" \in SourceState
      BY TablesFacts DEF SourceState
  <2>2. t.src[s].state = "withheld_update" => t.src[s].delivery = 0
      BY DEF Unassigned
  <2> QED BY <2>1, <2>2 DEF SourceRows
<1>3. msrc \in [Sources -> SourceRows] /\ \A s \in Sources : msrc[s] = mid(s)
    BY <1>2
<1> HIDE DEF mid, msrc
<1>4. v \in Tables /\ v.src = msrc /\ v.dlv = t.dlv /\ v.fence = t.fence /\ v.lane = t.lane
    BY <1>3 DEF Tables
<1> HIDE DEF v
<1>5. ASSUME NEW s \in Sources
      PROVE  /\ row(s) \in SourceRows
             /\ \/ row(s) = v.src[s]
                \/ /\ v.src[s].delivery = 0 /\ row(s).delivery = 0
                   /\ v.src[s].state = "pending" /\ row(s).state = "withheld_update"
  <2>1. v.src[s] \in SourceRows /\ "withheld_update" \in SourceState
      BY <1>4, TablesFacts DEF SourceState
  <2> QED BY <2>1 DEF SourceRows
<1>6. src \in [Sources -> SourceRows] /\ \A s \in Sources : src[s] = row(s)
    BY <1>5
<1> HIDE DEF row, src
<1>7. u \in Tables /\ u.src = src /\ u.dlv = t.dlv /\ u.fence = t.fence /\ u.lane = t.lane
    BY <1>4, <1>6 DEF Tables
<1> HIDE DEF u
<1>8. ASSUME NEW s \in Sources
      PROVE  \/ u.src[s] = t.src[s]
             \/ /\ t.src[s].delivery = 0 /\ u.src[s].delivery = 0
                /\ {t.src[s].state, u.src[s].state} \subseteq {"pending", "withheld_update"}
  <2>1. v.src[s] = mid(s) /\ u.src[s] = row(s)
      BY <1>3, <1>4, <1>6, <1>7
  <2> QED BY <1>2, <1>5, <2>1
<1> QED BY <1>1, <1>7, <1>8

\* Opening the digest of a date that has none keeps the invariant.
LEMMA OpenDigestFacts ==
    ASSUME SettingsTyped, NEW t \in Tables, NEW d \in Days
    PROVE  LET u == OpenDigest(t, d)
           IN /\ u \in Tables /\ u.src = t.src /\ u.fence = t.fence /\ u.lane = t.lane
              /\ \A e \in Days : e # d => u.dlv[e] = t.dlv[e]
              /\ u.dlv[d].state = "assembling" /\ u.dlv[d].snapshot = t.dlv[d].snapshot
              /\ u.dlv[d].attempts = t.dlv[d].attempts
              /\ u.dlv[d].consent = pref.at /\ u.dlv[d].to = recipient
              /\ u.dlv[d].content = (pref.consent = "content")
<1> DEFINE digest(r) == [r EXCEPT !.state = "assembling", !.consent = pref.at,
                                  !.to = recipient, !.content = pref.consent = "content"]
           dlv == [e \in Days |-> IF e \in {d} THEN digest(t.dlv[e]) ELSE t.dlv[e]]
           u == [t EXCEPT !.dlv = dlv]
<1>1. OpenDigest(t, d) = u
    BY DEF OpenDigest, ForDigests
<1>2. t.dlv[d] \in Digests
    BY TablesFacts
<1>3. /\ "assembling" \in DeliveryState /\ pref.at \in 0..MaxChange /\ recipient \in 0..MaxChange
      /\ (pref.consent = "content") \in BOOLEAN
    BY DEF DeliveryState, Unsent, SettingsTyped
<1>4. LET r == digest(t.dlv[d])
      IN /\ r \in Digests /\ r.snapshot = t.dlv[d].snapshot /\ r.attempts = t.dlv[d].attempts
         /\ r.consent = pref.at /\ r.to = recipient /\ r.state = "assembling"
         /\ r.content = (pref.consent = "content")
    BY <1>2, <1>3 DEF Digests
<1> HIDE DEF digest
<1>5. /\ dlv \in [Days -> Digests] /\ dlv[d] = digest(t.dlv[d])
      /\ \A e \in Days : e # d => dlv[e] = t.dlv[e]
    BY <1>4, TablesFacts
<1> HIDE DEF dlv
<1>6. u \in Tables /\ u.src = t.src /\ u.dlv = dlv /\ u.fence = t.fence /\ u.lane = t.lane
    BY <1>5 DEF Tables
<1> HIDE DEF u
<1> QED BY <1>1, <1>4, <1>5, <1>6

\* A date may be opened, and every other digest moves.
Opens(t, u) ==
    \A d \in Days :
        \/ Moves(t.dlv[d].state, u.dlv[d].state)
        \/ t.dlv[d].state = "none" /\ u.dlv[d].state \in Begun

\* The evidence rows u may differ from t only where no digest has the evidence,
\* and only between the two states of such rows.
LEMMA OpenKeeps ==
    ASSUME TopologyInv, SettingsTyped, WorkersTyped, NEW t, MailInv(t), NEW d \in Days,
           t.dlv[d].state = "none"
    PROVE  LET u == OpenDigest(WithholdUpdates(t), d)
           IN /\ MailInv(u) /\ u.dlv[d].state = "assembling" /\ u.dlv[d].snapshot = {}
              /\ \A e \in Days : e # d => u.dlv[e] = t.dlv[e]
              /\ account /\ pref.consent # "off" => Authorized(u, d)
<1> USE OpenFacts
<1> DEFINE v == WithholdUpdates(t)
           u == OpenDigest(v, d)
<1>1. /\ t \in Tables
      /\ RowShape(t) /\ LaneShape(t) /\ Consented(t) /\ Organized(t)
      /\ Joined(t) /\ Covered(t) /\ Apart(t) /\ Inherited(t) /\ ErasedIsGone(t) /\ Unassigned(t)
      /\ Holders(t) /\ Acted(t) /\ CoverageTrue(t) /\ ReceiptTrue(t) /\ DeletedOut(t)
    BY DEF MailInv
<1>2. /\ v \in Tables /\ v.dlv = t.dlv /\ v.fence = t.fence /\ v.lane = t.lane
      /\ \A s \in Sources :
            \/ v.src[s] = t.src[s]
            \/ /\ t.src[s].delivery = 0 /\ v.src[s].delivery = 0
               /\ {t.src[s].state, v.src[s].state} \subseteq {"pending", "withheld_update"}
    BY <1>1, WithholdFacts
<1> HIDE DEF v
<1>3. /\ u \in Tables /\ u.src = v.src /\ u.fence = v.fence /\ u.lane = v.lane
      /\ \A e \in Days : e # d => u.dlv[e] = v.dlv[e]
      /\ u.dlv[d].state = "assembling" /\ u.dlv[d].snapshot = v.dlv[d].snapshot
      /\ u.dlv[d].attempts = v.dlv[d].attempts
      /\ u.dlv[d].consent = pref.at /\ u.dlv[d].to = recipient
      /\ u.dlv[d].content = (pref.consent = "content")
    BY <1>2, OpenDigestFacts
<1> HIDE DEF u
<1>4. /\ u.fence = t.fence /\ u.lane = t.lane
      /\ \A e \in Days : e # d => u.dlv[e] = t.dlv[e]
      /\ u.dlv[d].snapshot = {} /\ u.dlv[d].attempts = 0
      /\ \A e \in Days : u.dlv[e].snapshot = t.dlv[e].snapshot
    BY <1>1, <1>2, <1>3 DEF RowShape
<1>5. \A s \in Sources :
            \/ u.src[s] = t.src[s]
            \/ /\ t.src[s].delivery = 0 /\ u.src[s].delivery = 0
               /\ {t.src[s].state, u.src[s].state} \subseteq {"pending", "withheld_update"}
    BY <1>2, <1>3
<1>6. /\ \A s \in Sources : t.src[s].delivery # 0 => u.src[s] = t.src[s]
      /\ \A s \in Sources : t.src[s].state \in {"none", "erased"} => u.src[s] = t.src[s]
      /\ \A s \in Sources : u.src[s].state \in {"none", "erased", "delivered"} => u.src[s] = t.src[s]
      /\ \A s \in Sources : u.src[s].delivery = t.src[s].delivery
    BY <1>5
<1>7. RowShape(u)
    BY <1>1, <1>3, <1>4 DEF RowShape
<1>8. LaneShape(u) /\ Consented(u) /\ Organized(u)
    BY <1>1, <1>3, <1>4 DEF LaneShape, Consented, Organized, InState
<1>9. Joined(u)
  <2>1. ASSUME NEW s \in Sources, u.src[s].state = "pending", u.src[s].delivery # 0
        PROVE  /\ u.dlv[u.src[s].delivery].state \in Open
               /\ s \in Named(u.dlv[u.src[s].delivery].snapshot)
    <3>1. u.src[s] = t.src[s] /\ u.src[s].delivery \in Days
        BY <1>3, <1>6, <2>1, TablesFacts DEF SourceRows
    <3>2. /\ t.dlv[t.src[s].delivery].state \in Open
          /\ s \in Named(t.dlv[t.src[s].delivery].snapshot)
        BY <1>1, <2>1, <3>1 DEF Joined
    <3> QED BY <1>4, <3>1, <3>2
  <2> QED BY <2>1 DEF Joined
<1>10. Covered(u)
  <2>1. ASSUME NEW e \in Days, u.dlv[e].state \in Open, NEW s \in Named(u.dlv[e].snapshot)
        PROVE  BelongsTo(u, s, e)
    <3>1. e # d
        BY <1>4, <2>1 DEF Named
    <3>2. BelongsTo(t, s, e) /\ s \in Sources
        BY <1>1, <1>4, <2>1, <3>1, TablesFacts, NamedFacts DEF Covered, InState, Digests
    <3> QED BY <1>6, <3>2 DEF BelongsTo, Days
  <2> QED BY <2>1 DEF Covered, InState
<1>11. Apart(u)
  <2>1. ASSUME NEW e \in Days, u.dlv[e].state \in Open,
               NEW b \in u.dlv[e].snapshot, NEW c \in u.dlv[e].snapshot, b # c,
               NEW s \in b.members \cap c.members
        PROVE  u.src[s].state \in {"none", "erased"}
    <3>1. e # d
        BY <1>4, <2>1
    <3>2. t.src[s].state \in {"none", "erased"}
        BY <1>1, <1>4, <2>1, <3>1 DEF Apart, InState
    <3>3. s \in Sources
        BY <1>3, <2>1, TablesFacts DEF Digests, Briefs
    <3> QED BY <1>6, <3>2, <3>3
  <2> QED BY <2>1 DEF Apart, InState
<1>12. \A s \in Sources : HasBrief(t, s) => HasBrief(u, s)
    BY <1>6 DEF HasBrief
<1>13. Inherited(u)
  <2>1. ASSUME NEW e \in Days, NEW s \in Named(u.dlv[e].snapshot) PROVE HasBrief(u, s)
    <3>1. s \in Named(t.dlv[e].snapshot) /\ s \in Sources
        BY <1>1, <1>4, <2>1, TablesFacts, NamedFacts DEF Digests
    <3> QED BY <1>1, <1>12, <3>1 DEF Inherited
  <2>2. ASSUME NEW w \in Workers, pc[w] # "idle", NEW s \in Named(cand[w].snapshot)
        PROVE  HasBrief(u, s)
    <3>1. s \in Sources
        BY <2>2, NamedFacts DEF WorkersTyped, Candidates
    <3> QED BY <1>1, <1>12, <2>2, <3>1 DEF Inherited
  <2>3. ASSUME NEW p \in mailed PROVE HasBrief(u, p[2])
    <3>1. p[2] \in Sources
        BY <2>3 DEF WorkersTyped
    <3> QED BY <1>1, <1>12, <2>3, <3>1 DEF Inherited
  <2> QED BY <2>1, <2>2, <2>3 DEF Inherited
<1>14. ErasedIsGone(u) /\ Unassigned(u)
    BY <1>1, <1>5 DEF ErasedIsGone, Unassigned
<1>15. Holders(u)
  <2>1. ASSUME NEW w \in Workers, Holding(w) PROVE Held(u, w)
    <3>1. cand[w] \in Candidates
        BY <2>1 DEF WorkersTyped, Holding
    <3>2. cand[w].date \in Days /\ Named(cand[w].snapshot) \subseteq Sources
        BY <3>1, NamedFacts DEF Candidates
    <3>3. Held(t, w)
        BY <1>1, <2>1 DEF Holders
    <3>4. u.dlv[cand[w].date] = t.dlv[cand[w].date]
        BY <1>4, <3>2, <3>3 DEF Held
    <3> QED BY <1>5, <3>2, <3>3, <3>4 DEF Held
  <2> QED BY <1>1, <2>1 DEF Holders
<1>16. Acted(u)
  <2>1. ASSUME NEW e \in Days
        PROVE  /\ u.dlv[e].state \in NotMailed => acted[e] = 0
               /\ u.dlv[e].state = "delivered" => acted[e] = 1
      BY <1>1, <1>3, <1>4 DEF Acted, NotMailed
  <2> QED BY <1>1, <2>1 DEF Acted
<1>17. CoverageTrue(u)
  <2>1. ASSUME NEW p \in mailed
        PROVE  u.src[p[2]].state \in {"none", "erased"}
                      \/ /\ u.src[p[2]].delivery = p[1]
                         /\ u.src[p[2]].state \in {"pending", "delivered", "ambiguous"}
    <3>1. p[1] \in Days /\ p[2] \in Sources /\ p = <<p[1], p[2]>>
        BY <2>1 DEF WorkersTyped
    <3>2. t.src[p[2]].state \in {"none", "erased"}
                      \/ /\ t.src[p[2]].delivery = p[1]
                         /\ t.src[p[2]].state \in {"pending", "delivered", "ambiguous"}
        BY <1>1, <2>1 DEF CoverageTrue
    <3> QED BY <1>6, <3>1, <3>2 DEF Days
  <2> QED BY <2>1 DEF CoverageTrue
<1>18. ReceiptTrue(u)
    BY <1>1, <1>6 DEF ReceiptTrue
<1>19. DeletedOut(u)
    BY <1>1, <1>4 DEF DeletedOut
<1>20. MailInv(u)
    BY <1>3, <1>7, <1>8, <1>9, <1>10, <1>11, <1>13, <1>14, <1>15, <1>16, <1>17, <1>18, <1>19
       DEF MailInv
<1>21. account /\ pref.consent # "off" => Authorized(u, d)
    BY <1>3 DEF Authorized
<1> QED BY <1>3, <1>4, <1>20, <1>21 DEF u, v

\* A due schedule opens today's digest and starts to fill it.
LEMMA ScheduleOpens ==
    ASSUME TopologyInv, SettingsTyped, WorkersTyped, account, pref.consent # "off",
           NEW t, MailInv(t), NEW today \in Days, NEW r \in Schedule(t, today)
    PROVE  /\ MailInv(r.t) /\ Opens(t, r.t)
           /\ r.cand = NoCandidate \/ Chosen(r.t, r.cand)
<1>1. CASE t.dlv[today].state # "none"
  <2>1. r.t = t /\ r.cand = NoCandidate
      BY <1>1, ResultFacts DEF Schedule
  <2> QED BY <2>1 DEF Opens, Moves
<1>2. CASE t.dlv[today].state = "none"
  <2> DEFINE u == OpenDigest(WithholdUpdates(t), today)
  <2>1. r \in ContinueAssembly(u, today)
      BY <1>2 DEF Schedule
  <2>2. /\ MailInv(u) /\ u.dlv[today].state = "assembling" /\ u.dlv[today].snapshot = {}
        /\ \A e \in Days : e # today => u.dlv[e] = t.dlv[e]
        /\ Authorized(u, today)
      BY <1>2, OpenKeeps
  <2> HIDE DEF u
  <2>3. Sweeps(u, r) /\ r.t.dlv[today].state \in Begun
      BY <2>1, <2>2, AssemblySweeps
  <2>4. Opens(t, r.t)
      BY <1>2, <2>2, <2>3 DEF Sweeps, Moved, Opens
  <2> QED BY <2>3, <2>4 DEF Sweeps
<1> QED BY <1>1, <1>2

-----------------------------------------------------------------------------
(* Steps of the workers.                                                   *)

\* The whole invariant.
Inv == TopologyInv /\ SettingsTyped /\ WorkersTyped /\ MailInv(db) /\ Answered

\* What a worker is given is a digest as it stands.
LEMMA ChosenFacts ==
    ASSUME NEW u, MailInv(u), NEW c, Chosen(u, c)
    PROVE  /\ c \in Candidates /\ c # NoCandidate
           /\ \A s \in Named(c.snapshot) : HasBrief(u, s)
           /\ c.date \in InState(u, Waiting) /\ c = Candidate(u, c.date) /\ Sendable(u, c.date)
<1>1. PICK d \in InState(u, Waiting) : c = Candidate(u, d) /\ Sendable(u, d)
    BY DEF Chosen
<1>2. d \in Days /\ d # 0
    BY DEF InState, Days
<1>3. u.dlv[d] \in Digests
    BY <1>2, TablesFacts DEF MailInv
<1>4. c \in Candidates /\ c.date = d /\ c.snapshot = u.dlv[d].snapshot
    BY <1>1, <1>2, <1>3 DEF Candidate, Candidates, Digests
<1>5. c # NoCandidate
    BY <1>2, <1>4 DEF NoCandidate
<1>6. \A s \in Named(c.snapshot) : HasBrief(u, s)
    BY <1>2, <1>4 DEF MailInv, Inherited
<1> QED BY <1>1, <1>4, <1>5, <1>6

\* The parts of the invariant that are about the tables alone.
TablesInv(t) ==
    /\ t \in Tables
    /\ RowShape(t) /\ LaneShape(t) /\ Consented(t) /\ Organized(t)
    /\ Joined(t) /\ Covered(t) /\ Apart(t) /\ ErasedIsGone(t) /\ Unassigned(t)
    /\ Acted(t) /\ CoverageTrue(t) /\ ReceiptTrue(t) /\ DeletedOut(t)

\* They are the same for the tables that a transaction leaves.
LEMMA SettingsStep ==
    ASSUME NEW u, TablesInv(u), db' = u, UNCHANGED <<topology, history>>,
           UNCHANGED <<pref, recipient>> \/ InState(u, {"processing"}) = {}
    PROVE  TablesInv(db)'
<1>0. /\ u \in Tables
      /\ RowShape(u) /\ LaneShape(u) /\ Consented(u) /\ Organized(u)
      /\ Joined(u) /\ Covered(u) /\ Apart(u) /\ ErasedIsGone(u) /\ Unassigned(u)
      /\ Acted(u) /\ CoverageTrue(u) /\ ReceiptTrue(u) /\ DeletedOut(u)
    BY DEF TablesInv
<1>1. (db \in Tables)'
    BY <1>0
<1>2. RowShape(db)'
    BY <1>0 DEF RowShape
<1>3. LaneShape(db)'
    BY <1>0 DEF LaneShape, InState
<1>4. Consented(db)' /\ Organized(db)'
    BY <1>0 DEF Consented, Organized, InState, topology
<1>5. Joined(db)'
    BY <1>0 DEF Joined, Named
<1>6. Covered(db)' /\ Apart(db)'
    BY <1>0 DEF Covered, Apart, InState, BelongsTo, Named
<1>7. ErasedIsGone(db)' /\ Unassigned(db)'
    BY <1>0 DEF ErasedIsGone, Unassigned, Owned, topology
<1>8. Acted(db)' /\ CoverageTrue(db)' /\ ReceiptTrue(db)'
    BY <1>0 DEF Acted, CoverageTrue, ReceiptTrue, history
<1>9. DeletedOut(db)'
    BY <1>0 DEF DeletedOut, Traceable, Line, topology
<1> QED BY <1>1, <1>2, <1>3, <1>4, <1>5, <1>6, <1>7, <1>8, <1>9 DEF TablesInv

\* In particular when the owner changes no setting.
LEMMA TablesStep ==
    ASSUME NEW u, TablesInv(u), db' = u, UNCHANGED <<settings, topology, history>>
    PROVE  TablesInv(db)'
<1>1. UNCHANGED <<topology, history>> /\ UNCHANGED <<pref, recipient>>
    BY DEF settings
<1> QED BY <1>1, SettingsStep

\* The two layers of the invariant of the tables.
LEMMA MailParts == \A t : MailInv(t) <=> TablesInv(t) /\ Inherited(t) /\ Holders(t)
BY DEF MailInv, TablesInv

\* Evidence that was in a brief: the same before and after.
LEMMA BriefStep ==
    ASSUME NEW u, db' = u, UNCHANGED topology
    PROVE  \A s : HasBrief(db, s)' <=> HasBrief(u, s)
BY DEF HasBrief, Owned, topology

\* When the workers do nothing the invariant of the new tables is enough.
LEMMA OwnerSame ==
    ASSUME WorkersTyped, Answered, NEW u, MailInv(u), db' = u,
           UNCHANGED <<topology, history>>, UNCHANGED worker,
           UNCHANGED <<pref, recipient>> \/ InState(u, {"processing"}) = {}
    PROVE  MailInv(db)' /\ WorkersTyped' /\ Answered'
<1>1. TablesInv(db)'
    BY MailParts, SettingsStep
<1>2. Inherited(db)'
  <2>1. Inherited(u) /\ \A s : HasBrief(db, s)' <=> HasBrief(u, s)
      BY MailParts, BriefStep
  <2> QED BY <2>1 DEF Inherited, Named, worker, history
<1>3. Holders(db)'
    BY MailParts DEF Holders, Holding, Held, Named, worker
<1>4. WorkersTyped' /\ Answered'
    BY DEF WorkersTyped, Answered, Holding, worker, history
<1> QED BY <1>1, <1>2, <1>3, <1>4 DEF MailInv, TablesInv

\* In particular when the owner changes no setting.
LEMMA WorkersSame ==
    ASSUME WorkersTyped, Answered, NEW u, MailInv(u), db' = u,
           UNCHANGED <<settings, topology, history>>, UNCHANGED worker
    PROVE  MailInv(db)' /\ WorkersTyped' /\ Answered'
<1>1. UNCHANGED <<topology, history>> /\ UNCHANGED <<pref, recipient>>
    BY DEF settings
<1> QED BY <1>1, OwnerSame

\* A worker that is idle or about to claim after its step holds nothing.
LEMMA WorkerKeeps ==
    ASSUME NEW u, MailInv(u), db' = u, UNCHANGED <<settings, topology, history>>,
           NEW w \in Workers,
           \A v \in Workers : v # w => pc'[v] = pc[v] /\ cand'[v] = cand[v] /\ wtoken'[v] = wtoken[v],
           pc'[w] \in {"idle", "claim"},
           pc'[w] = "claim" => \/ pc[w] = "claim" /\ cand'[w] = cand[w]
                               \/ Chosen(u, cand'[w])
    PROVE  MailInv(db)'
<1>0. Inherited(u) /\ Holders(u)
    BY DEF MailInv
<1>1. Inherited(db)'
  <2>1. \A s : HasBrief(db, s)' <=> HasBrief(u, s)
      BY DEF HasBrief, Owned, topology
  <2>2. ASSUME NEW d \in Days, NEW s \in Named(db'.dlv[d].snapshot) PROVE HasBrief(db, s)'
      BY <1>0, <2>1 DEF Inherited
  <2>3. ASSUME NEW v \in Workers, pc'[v] # "idle", NEW s \in Named(cand'[v].snapshot)
        PROVE  HasBrief(db, s)'
    <3>1. HasBrief(u, s)
        BY <1>0, <2>3, ChosenFacts DEF Inherited
    <3> QED BY <2>1, <3>1
  <2>4. ASSUME NEW p \in mailed' PROVE HasBrief(db, p[2])'
      BY <1>0, <2>1, <2>4 DEF Inherited, history
  <2> QED BY <2>2, <2>3, <2>4 DEF Inherited, Named
<1>2. Holders(db)'
  <2>1. \A v \in Workers : Holding(v)' => v # w /\ Holding(v) /\ cand'[v] = cand[v]
                                          /\ wtoken'[v] = wtoken[v]
      BY DEF Holding
  <2>2. ASSUME NEW v \in Workers, Holding(v)' PROVE Held(db, v)'
    <3>1. Held(u, v) /\ cand'[v] = cand[v] /\ wtoken'[v] = wtoken[v]
        BY <1>0, <2>1, <2>2 DEF Holders
    <3> QED BY <3>1 DEF Held, Named
  <2>3. ASSUME NEW v \in Workers, NEW x \in Workers, Holding(v)', Holding(x)',
               cand'[v].date = cand'[x].date
        PROVE  v = x
      BY <1>0, <2>1, <2>3 DEF Holders
  <2> QED BY <2>2, <2>3 DEF Holders
<1>3. TablesInv(db)'
    BY MailParts, TablesStep
<1> QED BY <1>1, <1>2, <1>3 DEF MailInv, TablesInv

\* Its types and the answers of the others are kept, too.
LEMMA WorkerTypes ==
    ASSUME WorkersTyped, Answered, NEW u, MailInv(u), UNCHANGED history, NEW w \in Workers,
           NEW p \in {"idle", "claim"}, pc' = [pc EXCEPT ![w] = p],
           NEW c, cand' = [cand EXCEPT ![w] = c],
           NEW k \in TokenOrNone, wtoken' = [wtoken EXCEPT ![w] = k],
           NEW x \in SendResult, wresult' = [wresult EXCEPT ![w] = x],
           \/ p = "idle" /\ c = NoCandidate
           \/ p = "claim" /\ Chosen(u, c)
    PROVE  WorkersTyped' /\ Answered'
<1>1. c \in Candidates \cup {NoCandidate} /\ (p # "idle" => c \in Candidates) /\ p \in PC
    BY ChosenFacts DEF PC
<1>2. /\ pc \in [Workers -> PC] /\ wtoken \in [Workers -> TokenOrNone]
      /\ wresult \in [Workers -> SendResult] /\ cand \in [Workers -> Candidates \cup {NoCandidate}]
      /\ \A v \in Workers : pc[v] # "idle" => cand[v] \in Candidates
      /\ mailed \subseteq Days \X Sources /\ acted \in [Days -> Nat]
    BY DEF WorkersTyped
<1>3. /\ pc'[w] = p /\ cand'[w] = c
      /\ \A v \in Workers : v # w => pc'[v] = pc[v] /\ cand'[v] = cand[v] /\ wresult'[v] = wresult[v]
    BY <1>2
<1>4. /\ pc' \in [Workers -> PC] /\ wtoken' \in [Workers -> TokenOrNone]
      /\ wresult' \in [Workers -> SendResult] /\ cand' \in [Workers -> Candidates \cup {NoCandidate}]
    BY <1>1, <1>2
<1>5. WorkersTyped'
    BY <1>1, <1>2, <1>3, <1>4 DEF WorkersTyped, history
<1>6. \A v \in Workers : Holding(v)' => v # w /\ Holding(v)
    BY <1>3 DEF Holding
<1>7. Answered'
    BY <1>3, <1>6 DEF Answered, history
<1> QED BY <1>5, <1>7

\* What a step may do to the row of a date and to what the provider did for it.
Local(x, y, a, b) ==
    \/ Moves(x, y) /\ b = a
    \/ x = "none" /\ y \in Begun /\ b = a
    \/ x \in Unsent /\ y = "processing" /\ a = 0 /\ b = 0
    \/ x \in {"processing", "ambiguous"} /\ y = x /\ a = 0 /\ b = 1
    \/ x = "processing" /\ y \in {"retry_wait", "failed"} /\ a = 0 /\ b = 0
    \/ x = "processing" /\ y = "delivered" /\ a = 1 /\ b = 1
Locally == \A d \in Days : Local(db.dlv[d].state, db'.dlv[d].state, acted[d], acted'[d])

\* Memories that are left alone keep their invariant.
LEMMA TopologySame ==
    ASSUME TopologyInv, UNCHANGED topology, changes' \in 0..MaxChange, changes' >= changes
    PROVE  TopologyInv'
<1>0. changes \in Nat /\ changes' \in Nat /\ \A m \in Memories : revision[m] \in Nat
    BY MailAssumption DEF TopologyInv, TopologyTyped
<1>1. TopologyTyped' /\ IdsInOrder' /\ OwnersAreActive' /\ OneMemory'
    BY DEF TopologyInv, TopologyTyped, IdsInOrder, Used, OwnersAreActive, OneMemory, topology
<1>2. RevisionsAreChanges'
    BY <1>0 DEF TopologyInv, RevisionsAreChanges, topology
<1>3. AncestorsRetired'
    BY DEF TopologyInv, AncestorsRetired, topology
<1> QED BY <1>1, <1>2, <1>3 DEF TopologyInv

\* The sweep of a worker.
LEMMA NextCandidateStep ==
    ASSUME Inv, NEW w \in Workers, NextCandidate(w)
    PROVE  Inv' /\ Locally
<1> DEFINE read == ReadCandidate(ExpireRetries(RecoverExpired(db)))
           open == InState(read.t, {"assembling"})
           mornings == IF account /\ pref.consent # "off"
                       THEN UNION {Schedule(read.t, today) : today \in Days} ELSE {}
           results == CASE read.cand # NoCandidate -> {read}
                        [] read.cand = NoCandidate /\ open # {} -> ContinueAssembly(read.t, Min(open))
                        [] OTHER -> {read} \cup mornings
<1>0. TopologyInv /\ SettingsTyped /\ WorkersTyped /\ MailInv(db) /\ Answered
    BY DEF Inv
<1>1. /\ pc[w] = "idle"
      /\ \E r \in results :
            /\ db' = r.t
            /\ cand' = [cand EXCEPT ![w] = r.cand]
            /\ pc' = [pc EXCEPT ![w] = IF r.cand = NoCandidate THEN "idle" ELSE "claim"]
      /\ UNCHANGED <<settings, topology, wtoken, wresult, history, changes>>
    BY DEF NextCandidate
<1>2. Sweeps(db, read)
  <2> DEFINE t1 == RecoverExpired(db)
             t2 == ExpireRetries(t1)
  <2>1. MailInv(t1) /\ Moved(db, t1)
      BY <1>0, RecoverKeeps
  <2> HIDE DEF t1
  <2>2. MailInv(t2) /\ Moved(t1, t2)
      BY <1>0, <2>1, ExpireKeeps
  <2> HIDE DEF t2
  <2>3. Sweeps(t2, ReadCandidate(t2))
      BY <1>0, <2>2, ReadSweeps
  <2>4. Sweeps(db, ReadCandidate(t2))
      BY <2>1, <2>2, <2>3, MovedTwice DEF Sweeps
  <2> QED BY <2>4 DEF t1, t2
<1>3. PICK r \in results :
            /\ db' = r.t
            /\ cand' = [cand EXCEPT ![w] = r.cand]
            /\ pc' = [pc EXCEPT ![w] = IF r.cand = NoCandidate THEN "idle" ELSE "claim"]
    BY <1>1
<1> HIDE DEF read
<1>4. \A q : Sweeps(db, q) => /\ MailInv(q.t) /\ Opens(db, q.t)
                              /\ q.cand = NoCandidate \/ Chosen(q.t, q.cand)
    BY DEF Sweeps, Moved, Opens
<1>5. /\ MailInv(r.t) /\ Opens(db, r.t)
      /\ r.cand = NoCandidate \/ Chosen(r.t, r.cand)
  <2>1. CASE r = read
      BY <1>2, <1>4, <2>1
  <2>2. CASE open # {} /\ r \in ContinueAssembly(read.t, Min(open))
    <3>1. open \in SUBSET Nat
        BY DEF InState, Days
    <3>2. Min(open) \in open
      <4> HIDE DEF open
      <4> QED BY <2>2, <3>1, SmallestFacts
    <3>3. Min(open) \in Days /\ read.t.dlv[Min(open)].state = "assembling"
        BY <3>2 DEF InState
    <3> HIDE DEF open
    <3>4. MailInv(read.t) /\ Moved(db, read.t)
        BY <1>2 DEF Sweeps
    <3>5. Sweeps(read.t, r)
        BY <1>0, <2>2, <3>3, <3>4, AssemblySweeps
    <3>6. Sweeps(db, r)
        BY <3>4, <3>5, MovedTwice DEF Sweeps
    <3> QED BY <1>4, <3>6
  <2>3. CASE r \in mornings
    <3>1. account /\ pref.consent # "off"
        BY <2>3
    <3>2. PICK today \in Days : r \in Schedule(read.t, today)
        BY <2>3
    <3>3. MailInv(read.t) /\ Moved(db, read.t)
        BY <1>2 DEF Sweeps
    <3>4. /\ MailInv(r.t) /\ Opens(read.t, r.t)
          /\ r.cand = NoCandidate \/ Chosen(r.t, r.cand)
        BY <1>0, <3>1, <3>2, <3>3, ScheduleOpens
    <3>5. Opens(db, r.t)
      <4>1. ASSUME NEW d \in Days
            PROVE  \/ Moves(db.dlv[d].state, r.t.dlv[d].state)
                   \/ db.dlv[d].state = "none" /\ r.t.dlv[d].state \in Begun
        <5>1. Moves(db.dlv[d].state, read.t.dlv[d].state)
            BY <3>3 DEF Moved
        <5>2. \/ Moves(read.t.dlv[d].state, r.t.dlv[d].state)
              \/ read.t.dlv[d].state = "none" /\ r.t.dlv[d].state \in Begun
            BY <3>4 DEF Opens
        <5> QED BY <5>1, <5>2, OpenFacts DEF Moves
      <4> QED BY <4>1 DEF Opens
    <3> QED BY <3>4, <3>5
  <2>4. \/ r = read \/ r \in mornings
        \/ open # {} /\ r \in ContinueAssembly(read.t, Min(open))
    <3> HIDE DEF open, mornings
    <3> QED BY <1>3
  <2> QED BY <2>1, <2>2, <2>3, <2>4
<1> HIDE DEF results
<1> DEFINE p == IF r.cand = NoCandidate THEN "idle" ELSE "claim"
<1>6. /\ p \in {"idle", "claim"}
      /\ \/ p = "idle" /\ r.cand = NoCandidate
         \/ p = "claim" /\ Chosen(r.t, r.cand)
    BY <1>5
<1>7. /\ pc' = [pc EXCEPT ![w] = p] /\ cand' = [cand EXCEPT ![w] = r.cand]
      /\ wtoken' = [wtoken EXCEPT ![w] = wtoken[w]] /\ wresult' = [wresult EXCEPT ![w] = wresult[w]]
      /\ wtoken[w] \in TokenOrNone /\ wresult[w] \in SendResult
    BY <1>0, <1>1, <1>3 DEF WorkersTyped
<1> HIDE DEF p
<1>8. UNCHANGED <<settings, topology, history>> /\ UNCHANGED changes /\ db' = r.t
    BY <1>1, <1>3
<1>9. WorkersTyped' /\ Answered'
    BY <1>0, <1>5, <1>6, <1>7, <1>8, WorkerTypes
<1>10. MailInv(db)'
  <2>1. /\ pc'[w] = p /\ cand'[w] = r.cand
        /\ \A v \in Workers : v # w => pc'[v] = pc[v] /\ cand'[v] = cand[v] /\ wtoken'[v] = wtoken[v]
      BY <1>0, <1>7 DEF WorkersTyped
  <2> QED BY <1>5, <1>6, <1>8, <2>1, WorkerKeeps
<1>11. TopologyInv' /\ SettingsTyped'
  <2>1. changes' \in 0..MaxChange /\ changes' >= changes
      BY <1>0, <1>8 DEF TopologyInv, TopologyTyped
  <2> QED BY <1>0, <1>8, <2>1, TopologySame DEF SettingsTyped, settings
<1>12. Locally
    BY <1>5, <1>8 DEF Locally, Local, Opens, history
<1> QED BY <1>9, <1>10, <1>11, <1>12 DEF Inv

\* A worker that stops holds nothing.
LEMMA StopKeeps ==
    ASSUME WorkersTyped, Answered, NEW u, MailInv(u), db' = u,
           UNCHANGED <<settings, topology, history>>, NEW w \in Workers, Stop(w)
    PROVE  MailInv(db)' /\ WorkersTyped' /\ Answered'
<1>1. /\ pc' = [pc EXCEPT ![w] = "idle"] /\ cand' = [cand EXCEPT ![w] = NoCandidate]
      /\ wtoken' = [wtoken EXCEPT ![w] = NoToken] /\ wresult' = [wresult EXCEPT ![w] = "lost"]
    BY DEF Stop
<1>2. NoToken \in TokenOrNone /\ "lost" \in SendResult
    BY DEF TokenOrNone, SendResult
<1>3. UNCHANGED history
    OBVIOUS
<1>4. WorkersTyped' /\ Answered'
    BY <1>1, <1>2, <1>3, WorkerTypes
<1>5. /\ pc'[w] = "idle"
      /\ \A v \in Workers : v # w => pc'[v] = pc[v] /\ cand'[v] = cand[v] /\ wtoken'[v] = wtoken[v]
    BY <1>1 DEF WorkersTyped
<1> QED BY <1>4, <1>5, WorkerKeeps

\* A claim, row by row.
Claims(t, u, d) ==
    LET token == <<d, t.dlv[d].attempts + 1>>
    IN /\ u \in Tables /\ u.src = t.src /\ u.fence = t.fence \cup {token} /\ u.lane = token
       /\ \A e \in Days : e # d => u.dlv[e] = t.dlv[e]
       /\ u.dlv[d].state = "processing" /\ u.dlv[d].token = token
       /\ u.dlv[d].attempts = t.dlv[d].attempts + 1
       /\ u.dlv[d].snapshot = t.dlv[d].snapshot
       /\ u.dlv[d].consent = t.dlv[d].consent /\ u.dlv[d].to = t.dlv[d].to
       /\ u.dlv[d].content = t.dlv[d].content
       /\ t.dlv[d].attempts + 1 # 0 /\ token \in Token

\* That is what a claim does.
LEMMA ClaimedFacts ==
    ASSUME NEW t \in Tables, NEW d \in Days, t.dlv[d].attempts + 1 <= MAX_ATTEMPTS
    PROVE  Claims(t, Claimed(t, d, <<d, t.dlv[d].attempts + 1>>), d)
<1> DEFINE token == <<d, t.dlv[d].attempts + 1>>
           digest(r) == [r EXCEPT !.state = "processing", !.attempts = @ + 1,
                                  !.token = token, !.timer = "lease"]
           v == [t EXCEPT !.fence = @ \cup {token}, !.lane = token]
           dlv == [e \in Days |-> IF e \in {d} THEN digest(v.dlv[e]) ELSE v.dlv[e]]
           u == [v EXCEPT !.dlv = dlv]
<1>1. Claimed(t, d, token) = u
    BY DEF Claimed, ForDigests
<1>2. t.dlv[d] \in Digests
    BY TablesFacts
<1>3. /\ t.dlv[d].attempts \in Nat /\ t.dlv[d].attempts + 1 \in 1..MAX_ATTEMPTS
      /\ t.dlv[d].attempts + 1 \in 0..MAX_ATTEMPTS
    BY <1>2, MailAssumption DEF Digests
<1>4. token \in Token /\ token \in TokenOrNone
    BY <1>3 DEF Token, TokenOrNone
<1>6. "processing" \in DeliveryState /\ "lease" \in Timer
    BY DEF DeliveryState, Timer
<1> HIDE DEF token
<1>7. v \in Tables /\ v.src = t.src /\ v.dlv = t.dlv /\ v.fence = t.fence \cup {token} /\ v.lane = token
    BY <1>4 DEF Tables
<1> HIDE DEF v
<1>8. LET r == digest(t.dlv[d])
      IN /\ r \in Digests /\ r.state = "processing" /\ r.token = token
         /\ r.attempts = t.dlv[d].attempts + 1 /\ r.snapshot = t.dlv[d].snapshot
         /\ r.consent = t.dlv[d].consent /\ r.to = t.dlv[d].to /\ r.content = t.dlv[d].content
    BY <1>2, <1>3, <1>4, <1>6 DEF Digests
<1> HIDE DEF digest
<1>9. /\ dlv \in [Days -> Digests] /\ dlv[d] = digest(t.dlv[d])
      /\ \A e \in Days : e # d => dlv[e] = t.dlv[e]
    BY <1>7, <1>8, TablesFacts
<1> HIDE DEF dlv
<1>10. /\ u \in Tables /\ u.src = t.src /\ u.dlv = dlv /\ u.fence = t.fence \cup {token}
       /\ u.lane = token
    BY <1>7, <1>9 DEF Tables
<1> HIDE DEF u
<1>11. t.dlv[d].attempts + 1 # 0
    BY <1>3
<1> QED BY <1>1, <1>4, <1>8, <1>9, <1>10, <1>11 DEF token, Claims

\* A free lane means that no request is in flight.
LEMMA FreeLane ==
    ASSUME NEW t, MailInv(t), t.lane = NoToken
    PROVE  t.fence = {} /\ \A e \in Days : t.dlv[e].state # "processing"
<1>1. ASSUME NEW e \in Days, t.dlv[e].state = "processing" PROVE FALSE
  <2>1. t.lane = <<e, t.dlv[e].attempts>>
      BY <1>1 DEF MailInv, LaneShape, RowShape, InState
  <2>2. e # 0
      BY DEF Days
  <2> QED BY <2>1, <2>2 DEF NoToken
<1> QED BY <1>1 DEF MailInv, LaneShape, InState

\* What a claim of a digest that may be sent leaves: nobody else holds it.
Takes(t, u, d) ==
    /\ MailInv(u) /\ u.dlv[d].state = "processing" /\ u.dlv[d].snapshot = t.dlv[d].snapshot
    /\ u.dlv[d].token = <<d, t.dlv[d].attempts + 1>> /\ <<d, t.dlv[d].attempts + 1>> \in Token
    /\ \A e \in Days : e # d => u.dlv[e] = t.dlv[e]
    /\ \A w \in Workers : Holding(w) => cand[w].date # d
    /\ acted[d] = 0

\* The tables after such a claim satisfy the invariant.
LEMMA ClaimKeeps ==
    ASSUME TopologyInv, WorkersTyped, NEW t, MailInv(t), t.lane = NoToken, NEW d \in Days,
           t.dlv[d].state \in Waiting, Sendable(t, d)
    PROVE  Takes(t, Claimed(t, d, <<d, t.dlv[d].attempts + 1>>), d)
<1> USE OpenFacts
<1> DEFINE token == <<d, t.dlv[d].attempts + 1>>
           u == Claimed(t, d, token)
<1>1. /\ t \in Tables
      /\ RowShape(t) /\ LaneShape(t) /\ Consented(t) /\ Organized(t)
      /\ Joined(t) /\ Covered(t) /\ Apart(t) /\ Inherited(t) /\ ErasedIsGone(t) /\ Unassigned(t)
      /\ Holders(t) /\ Acted(t) /\ CoverageTrue(t) /\ ReceiptTrue(t) /\ DeletedOut(t)
    BY DEF MailInv
<1>2. t.dlv[d].attempts \in Nat /\ t.dlv[d].attempts + 1 <= MAX_ATTEMPTS
  <2>1. t.dlv[d].attempts \in Nat
      BY <1>1, TablesFacts, MailAssumption DEF Digests
  <2>2. t.dlv[d].attempts = 0 \/ t.dlv[d].attempts < MAX_ATTEMPTS
      BY <1>1 DEF RowShape, Waiting
  <2> QED BY <2>1, <2>2, MailAssumption
<1>3. /\ u \in Tables /\ u.src = t.src /\ u.fence = t.fence \cup {token} /\ u.lane = token
      /\ \A e \in Days : e # d => u.dlv[e] = t.dlv[e]
      /\ u.dlv[d].state = "processing" /\ u.dlv[d].token = token
      /\ u.dlv[d].attempts = t.dlv[d].attempts + 1
      /\ u.dlv[d].snapshot = t.dlv[d].snapshot
      /\ u.dlv[d].consent = t.dlv[d].consent /\ u.dlv[d].to = t.dlv[d].to
      /\ u.dlv[d].content = t.dlv[d].content
      /\ t.dlv[d].attempts + 1 # 0 /\ token \in Token
  <2>1. Claims(t, u, d)
      BY <1>1, <1>2, ClaimedFacts
  <2> HIDE DEF u
  <2> QED BY <2>1 DEF Claims
<1>4. token = <<d, t.dlv[d].attempts + 1>>
    OBVIOUS
<1> HIDE DEF u, token
<1>5. t.fence = {} /\ \A e \in Days : t.dlv[e].state # "processing"
    BY FreeLane
<1>6. /\ \A e \in Days : u.dlv[e].snapshot = t.dlv[e].snapshot
      /\ \A e \in Days : u.dlv[e].state = "processing" => e = d
      /\ \A e \in Days : u.dlv[e].state \in Open <=> t.dlv[e].state \in Open
      /\ t.dlv[d].state \in Unsent
    BY <1>3, <1>5 DEF Unsent
<1>7. RowShape(u)
    BY <1>1, <1>3, <1>4 DEF RowShape
<1>8. LaneShape(u)
    BY <1>3, <1>5, <1>6 DEF LaneShape, InState
<1>9. Consented(u)
    BY <1>3, <1>6 DEF Consented, InState, Sendable, Authorized
<1>10. Organized(u)
  <2>1. ASSUME NEW b \in t.dlv[d].snapshot PROVE mem[b.id] \in Finalized /\ members[b.id] = b.members
    <3>1. mem[b.id] = "complete" /\ Brief(b.id) = b
        BY DEF Sendable, Current
    <3>2. Brief(b.id).members = members[b.id]
        BY DEF Brief
    <3> QED BY <3>1, <3>2 DEF Finalized
  <2> QED BY <1>3, <1>6, <2>1 DEF Organized, InState
<1>11. Joined(u)
  <2>1. ASSUME NEW s \in Sources, u.src[s].state = "pending", u.src[s].delivery # 0
        PROVE  /\ u.dlv[u.src[s].delivery].state \in Open
               /\ s \in Named(u.dlv[u.src[s].delivery].snapshot)
    <3>1. u.src[s].delivery \in Days /\ u.src[s] = t.src[s]
        BY <1>3, <2>1, TablesFacts DEF SourceRows
    <3> QED BY <1>1, <1>6, <2>1, <3>1 DEF Joined
  <2> QED BY <2>1 DEF Joined
<1>12. Covered(u) /\ Apart(u)
  <2>1. Covered(u)
      BY <1>1, <1>3, <1>6 DEF Covered, InState, BelongsTo
  <2>2. Apart(u)
      BY <1>1, <1>3, <1>6 DEF Apart, InState
  <2> QED BY <2>1, <2>2
<1>13. Inherited(u)
  <2>1. \A s : HasBrief(t, s) <=> HasBrief(u, s)
      BY <1>3 DEF HasBrief
  <2> QED BY <1>1, <1>6, <2>1 DEF Inherited
<1>14. ErasedIsGone(u) /\ Unassigned(u) /\ CoverageTrue(u) /\ ReceiptTrue(u)
    BY <1>1, <1>3 DEF ErasedIsGone, Unassigned, CoverageTrue, ReceiptTrue
<1>15. \A w \in Workers : Holding(w) => cand[w].date # d
  <2>1. ASSUME NEW w \in Workers, Holding(w) PROVE cand[w].date # d
    <3>1. Held(t, w)
        BY <1>1, <2>1 DEF Holders
    <3> QED BY <1>5, <3>1 DEF Held, Waiting
  <2> QED BY <2>1
<1>16. Holders(u)
  <2>1. ASSUME NEW w \in Workers, Holding(w) PROVE Held(u, w)
    <3>1. cand[w].date \in Days
        BY <2>1 DEF WorkersTyped, Holding, Candidates
    <3>2. Held(t, w) /\ u.dlv[cand[w].date] = t.dlv[cand[w].date]
        BY <1>1, <1>3, <1>15, <2>1, <3>1 DEF Holders
    <3> QED BY <1>3, <3>2 DEF Held
  <2> QED BY <1>1, <2>1 DEF Holders
<1>17. acted[d] = 0
    BY <1>1, <1>6 DEF Acted
<1>18. Acted(u)
  <2>1. ASSUME NEW e \in Days
        PROVE  /\ u.dlv[e].state \in NotMailed => acted[e] = 0
               /\ u.dlv[e].state = "delivered" => acted[e] = 1
      BY <1>1, <1>3 DEF Acted
  <2> QED BY <1>1, <2>1 DEF Acted
<1>19. DeletedOut(u)
    BY <1>1, <1>6 DEF DeletedOut
<1>20. MailInv(u)
    BY <1>3, <1>7, <1>8, <1>9, <1>10, <1>11, <1>12, <1>13, <1>14, <1>16, <1>18, <1>19 DEF MailInv
<1> QED BY <1>3, <1>4, <1>15, <1>17, <1>20 DEF u, Takes

\* The claim under the fence.
LEMMA ClaimStep ==
    ASSUME Inv, NEW w \in Workers, Claim(w)
    PROVE  Inv' /\ Locally
<1> USE OpenFacts
<1> DEFINE r == ReadCandidate(RecoverExpired(db))
           d == cand[w].date
           token == <<d, r.t.dlv[d].attempts + 1>>
           same == r.cand = cand[w]
           available == r.t.lane = NoToken /\ ~r.t.cooling
<1>0. TopologyInv /\ SettingsTyped /\ WorkersTyped /\ MailInv(db) /\ Answered
    BY DEF Inv
<1>1. /\ pc[w] = "claim"
      /\ \/ /\ same /\ available
            /\ db' = Claimed(r.t, d, token)
            /\ pc' = [pc EXCEPT ![w] = "send"]
            /\ wtoken' = [wtoken EXCEPT ![w] = token]
            /\ UNCHANGED <<cand, wresult>>
         \/ /\ \/ ~same \/ ~available
               \/ same /\ available /\ cand[w].attempts > 0
            /\ db' = IF same /\ available THEN CancelSnapshot(r.t, {d}) ELSE r.t
            /\ \/ UNCHANGED worker
               \/ Stop(w)
      /\ UNCHANGED <<settings, topology, history, changes>>
    BY DEF Claim
<1>2. Sweeps(db, r)
  <2> DEFINE t1 == RecoverExpired(db)
  <2>1. MailInv(t1) /\ Moved(db, t1)
      BY <1>0, RecoverKeeps
  <2> HIDE DEF t1
  <2>2. Sweeps(t1, ReadCandidate(t1))
      BY <1>0, <2>1, ReadSweeps
  <2>3. Sweeps(db, ReadCandidate(t1))
      BY <2>1, <2>2, MovedTwice DEF Sweeps
  <2> QED BY <2>3 DEF t1
<1> HIDE DEF r
<1>3. MailInv(r.t) /\ Moved(db, r.t)
    BY <1>2 DEF Sweeps
<1>4. cand[w] \in Candidates /\ d \in Days /\ cand[w] # NoCandidate
  <2>1. cand[w] \in Candidates
      BY <1>0, <1>1 DEF WorkersTyped
  <2>2. d \in Days /\ d # 0
      BY <2>1 DEF Candidates, Days
  <2> QED BY <2>1, <2>2 DEF NoCandidate
<1>5. same => /\ r.t.dlv[d].state \in Waiting /\ Sendable(r.t, d)
              /\ r.t.dlv[d].snapshot = cand[w].snapshot
  <2>1. SUFFICES ASSUME same
                 PROVE  /\ r.t.dlv[d].state \in Waiting /\ Sendable(r.t, d)
                        /\ r.t.dlv[d].snapshot = cand[w].snapshot
      OBVIOUS
  <2>2. Chosen(r.t, cand[w])
      BY <1>2, <1>4, <2>1 DEF Sweeps
  <2>3. d \in InState(r.t, Waiting) /\ cand[w] = Candidate(r.t, d) /\ Sendable(r.t, d)
      BY <1>3, <2>2, ChosenFacts
  <2>4. Candidate(r.t, d).snapshot = r.t.dlv[d].snapshot
      BY DEF Candidate
  <2> QED BY <2>3, <2>4 DEF InState
<1>6. TopologyInv' /\ SettingsTyped'
  <2>1. changes' \in 0..MaxChange /\ changes' >= changes
      BY <1>0, <1>1 DEF TopologyInv, TopologyTyped
  <2> QED BY <1>0, <1>1, <2>1, TopologySame DEF SettingsTyped, settings
<1>7. UNCHANGED <<settings, topology, history>> /\ UNCHANGED history /\ UNCHANGED topology
    BY <1>1
<1>8. CASE /\ same /\ available
           /\ db' = Claimed(r.t, d, token)
           /\ pc' = [pc EXCEPT ![w] = "send"]
           /\ wtoken' = [wtoken EXCEPT ![w] = token]
           /\ UNCHANGED <<cand, wresult>>
  <2> DEFINE u == Claimed(r.t, d, <<d, r.t.dlv[d].attempts + 1>>)
  <2>1. /\ MailInv(u) /\ u.dlv[d].state = "processing" /\ u.dlv[d].snapshot = r.t.dlv[d].snapshot
        /\ u.dlv[d].token = token /\ token \in Token
        /\ \A e \in Days : e # d => u.dlv[e] = r.t.dlv[e]
        /\ \A v \in Workers : Holding(v) => cand[v].date # d
        /\ acted[d] = 0
    <3>1. Takes(r.t, u, d)
      <4> HIDE DEF d
      <4> QED BY <1>0, <1>3, <1>4, <1>5, <1>8, ClaimKeeps
    <3> HIDE DEF u, d
    <3> QED BY <3>1 DEF Takes
  <2>2. db' = u
      BY <1>8
  <2> HIDE DEF u, token
  <2>3. /\ pc'[w] = "send" /\ wtoken'[w] = token /\ cand' = cand /\ wresult' = wresult
        /\ \A v \in Workers : v # w => pc'[v] = pc[v] /\ wtoken'[v] = wtoken[v]
        /\ pc' \in [Workers -> PC] /\ wtoken' \in [Workers -> TokenOrNone]
      BY <1>0, <1>8, <2>1 DEF WorkersTyped, PC, TokenOrNone
  <2>4. TablesInv(db)'
      BY <1>7, <2>1, <2>2, MailParts, TablesStep
  <2>5. Inherited(db)'
    <3>1. Inherited(u) /\ \A s : HasBrief(db, s)' <=> HasBrief(u, s)
        BY <1>7, <2>1, <2>2, MailParts, BriefStep
    <3>2. \A v \in Workers : pc'[v] # "idle" => pc[v] # "idle"
        BY <1>1, <2>3
    <3> QED BY <1>7, <2>2, <2>3, <3>1, <3>2 DEF Inherited, Named, history
  <2>6. \A v \in Workers : Holding(v)' => v = w \/ (Holding(v) /\ v # w)
      BY <2>3 DEF Holding
  <2>7. Holders(db)'
    <3>1. ASSUME NEW v \in Workers, Holding(v)' PROVE Held(db, v)'
      <4>1. CASE v = w
          BY <1>5, <1>8, <2>1, <2>2, <2>3, <4>1 DEF Held
      <4>2. CASE v # w
        <5>1. Held(u, v)
            BY <2>1, <2>6, <3>1, <4>2 DEF MailInv, Holders
        <5> QED BY <2>2, <2>3, <4>2, <5>1 DEF Held, Named
      <4> QED BY <4>1, <4>2
    <3>2. ASSUME NEW v \in Workers, NEW x \in Workers, Holding(v)', Holding(x)',
                 cand'[v].date = cand'[x].date
          PROVE  v = x
      <4>1. cand[v].date = cand[x].date
          BY <2>3, <3>2
      <4>2. Holders(u)
          BY <2>1 DEF MailInv
      <4> QED BY <2>1, <2>6, <3>2, <4>1, <4>2 DEF Holders
    <3> QED BY <3>1, <3>2 DEF Holders
  <2>8. WorkersTyped'
      BY <1>0, <1>1, <1>4, <1>7, <2>3 DEF WorkersTyped, history
  <2>9. Answered'
    <3>1. ASSUME NEW v \in Workers, Holding(v)'
          PROVE  /\ pc'[v] = "send" \/ wresult'[v] \in {"transient", "rejected"}
                       => acted'[cand'[v].date] = 0
                 /\ pc'[v] = "settle" /\ wresult'[v] = "accepted" =>
                       /\ acted'[cand'[v].date] = 1
                       /\ \A s \in Named(cand'[v].snapshot) : <<cand'[v].date, s>> \in mailed'
      <4>1. CASE v = w
          BY <1>7, <2>1, <2>3, <4>1 DEF history
      <4>2. CASE v # w
          BY <1>0, <1>7, <2>3, <2>6, <3>1, <4>2 DEF Answered, history
      <4> QED BY <4>1, <4>2
    <3> QED BY <3>1 DEF Answered, Named
  <2>10. Locally
    <3>1. ASSUME NEW e \in Days
          PROVE  Local(db.dlv[e].state, db'.dlv[e].state, acted[e], acted'[e])
      <4>1. Moves(db.dlv[e].state, r.t.dlv[e].state) /\ acted'[e] = acted[e]
          BY <1>3, <1>7 DEF Moved, history
      <4>2. CASE e # d
          BY <2>1, <2>2, <4>1, <4>2 DEF Local
      <4>3. CASE e = d
        <5>1. r.t.dlv[d].state \in Waiting
            BY <1>5, <1>8
        <5>2. db.dlv[d].state \in Unsent
            BY <4>1, <4>3, <5>1 DEF Moves, Unsent, Waiting
        <5> QED BY <2>1, <2>2, <4>1, <4>3, <5>2 DEF Local
      <4> QED BY <4>2, <4>3
    <3> QED BY <3>1 DEF Locally
  <2> QED BY <1>6, <2>4, <2>5, <2>7, <2>8, <2>9, <2>10 DEF Inv, MailInv, TablesInv
<1>9. CASE /\ db' = IF same /\ available THEN CancelSnapshot(r.t, {d}) ELSE r.t
           /\ UNCHANGED worker \/ Stop(w)
  <2> DEFINE u == IF same /\ available THEN CancelSnapshot(r.t, {d}) ELSE r.t
  <2>1. MailInv(u) /\ Moved(db, u)
    <3>1. CASE same /\ available
      <4>1. r.t.dlv[d].state \in Unsent
          BY <1>5, <3>1 DEF Unsent
      <4>2. MailInv(CancelSnapshot(r.t, {d})) /\ Moved(r.t, CancelSnapshot(r.t, {d}))
          BY <1>0, <1>3, <1>4, <4>1, CancelKeeps
      <4> QED BY <1>3, <3>1, <4>2, MovedTwice
    <3>2. CASE ~(same /\ available)
        BY <1>3, <3>2
    <3> QED BY <3>1, <3>2
  <2>2. db' = u
      BY <1>9
  <2> HIDE DEF u, same, available
  <2>3. MailInv(db)' /\ WorkersTyped' /\ Answered'
    <3>1. CASE UNCHANGED worker
        BY <1>0, <1>7, <2>1, <2>2, <3>1, WorkersSame
    <3>2. CASE Stop(w)
        BY <1>0, <1>7, <2>1, <2>2, <3>2, StopKeeps
    <3> QED BY <1>9, <3>1, <3>2
  <2>4. Locally
      BY <1>7, <2>1, <2>2 DEF Locally, Local, Moved, history
  <2> QED BY <1>6, <2>3, <2>4 DEF Inv
<1> QED BY <1>1, <1>8, <1>9

\* The request, and what the provider does with it.
LEMMA SendStep ==
    ASSUME Inv, NEW w \in Workers, Send(w)
    PROVE  Inv' /\ Locally
<1> USE OpenFacts
<1> DEFINE d == cand[w].date
           named == Named(cand[w].snapshot)
<1>0. /\ TopologyInv /\ SettingsTyped /\ WorkersTyped /\ MailInv(db) /\ Answered
      /\ TablesInv(db) /\ Inherited(db) /\ Holders(db)
    BY MailParts DEF Inv
<1>1. /\ pc[w] = "send" /\ pc' = [pc EXCEPT ![w] = "settle"]
      /\ UNCHANGED <<settings, topology, db, cand, wtoken, changes>>
    BY DEF Send
<1>2. \E result \in SendResult, acts \in BOOLEAN :
          /\ result = "accepted" => acts
          /\ result \in {"transient", "rejected"} => ~acts
          /\ wresult' = [wresult EXCEPT ![w] = result]
          /\ acted' = IF acts THEN [acted EXCEPT ![d] = @ + 1] ELSE acted
          /\ mailed' = IF acts THEN mailed \cup {<<d, s>> : s \in named} ELSE mailed
    BY DEF Send, Named
<1>3. PICK result \in SendResult, acts \in BOOLEAN :
          /\ result = "accepted" => acts
          /\ result \in {"transient", "rejected"} => ~acts
          /\ wresult' = [wresult EXCEPT ![w] = result]
          /\ acted' = IF acts THEN [acted EXCEPT ![d] = @ + 1] ELSE acted
          /\ mailed' = IF acts THEN mailed \cup {<<d, s>> : s \in named} ELSE mailed
    BY <1>2
<1>4. cand[w] \in Candidates /\ d \in Days /\ named \subseteq Sources
  <2>1. cand[w] \in Candidates
      BY <1>0, <1>1 DEF WorkersTyped
  <2> QED BY <2>1, NamedFacts DEF Candidates
<1>5. Holding(w) /\ Held(db, w) /\ acted[d] = 0
    BY <1>0, <1>1 DEF Holding, Holders, Answered
<1>6. db.dlv[d].state \in {"processing", "ambiguous"}
    BY <1>5 DEF Held
<1>7. \A s \in named : \/ db.src[s].state \in {"none", "erased"}
                       \/ db.src[s].state \in {"pending", "ambiguous"} /\ db.src[s].delivery = d
  <2>1. CASE db.dlv[d].state = "processing"
    <3>1. db.dlv[d].snapshot = cand[w].snapshot
        BY <1>5, <2>1 DEF Held
    <3> QED BY <1>0, <1>4, <2>1, <3>1 DEF TablesInv, Covered, InState, BelongsTo
  <2>2. CASE db.dlv[d].state = "ambiguous"
      BY <1>5, <2>2 DEF Held
  <2> QED BY <1>6, <2>1, <2>2
<1>8. /\ mailed \subseteq mailed' /\ mailed' \subseteq Days \X Sources
      /\ \A p \in mailed' : p \in mailed \/ (acts /\ \E s \in named : p = <<d, s>>)
      /\ acts => \A s \in named : <<d, s>> \in mailed'
  <2>1. mailed \subseteq Days \X Sources
      BY <1>0 DEF WorkersTyped
  <2> HIDE DEF d, named
  <2> QED BY <1>3, <1>4, <2>1
<1>9. /\ acted' \in [Days -> Nat] /\ \A e \in Days : e # d => acted'[e] = acted[e]
      /\ acted'[d] = IF acts THEN 1 ELSE 0
  <2>1. acted \in [Days -> Nat]
      BY <1>0 DEF WorkersTyped
  <2> HIDE DEF d
  <2> QED BY <1>3, <1>4, <1>5, <2>1
<1>10. /\ pc'[w] = "settle" /\ wresult'[w] = result
       /\ \A v \in Workers : v # w => pc'[v] = pc[v] /\ wresult'[v] = wresult[v]
       /\ pc' \in [Workers -> PC] /\ wresult' \in [Workers -> SendResult]
    BY <1>0, <1>1, <1>3 DEF WorkersTyped, PC
<1>11. cand' = cand /\ wtoken' = wtoken /\ db' = db
    BY <1>1
<1> HIDE DEF named
<1>12. (db \in Tables)' /\ RowShape(db)' /\ LaneShape(db)' /\ Consented(db)' /\ Organized(db)'
  <2>1. (db \in Tables)' /\ RowShape(db)' /\ LaneShape(db)'
      BY <1>0, <1>11 DEF TablesInv, RowShape, LaneShape, InState
  <2>2. Consented(db)' /\ Organized(db)'
      BY <1>0, <1>1 DEF TablesInv, Consented, Organized, InState, settings, topology
  <2> QED BY <2>1, <2>2
<1>13. Joined(db)' /\ Covered(db)' /\ Apart(db)'
    BY <1>0, <1>11 DEF TablesInv, Joined, Covered, Apart, InState, BelongsTo, Named
<1>14. ErasedIsGone(db)' /\ Unassigned(db)' /\ DeletedOut(db)'
    BY <1>0, <1>1 DEF TablesInv, ErasedIsGone, Unassigned, DeletedOut, Traceable, Line, Owned, topology
<1>15. Acted(db)'
  <2>0. Acted(db)
      BY <1>0 DEF TablesInv
  <2>1. ASSUME NEW e \in Days
        PROVE  /\ acted'[e] \in {0, 1}
               /\ db.dlv[e].state \in NotMailed => acted'[e] = 0
               /\ db.dlv[e].state = "delivered" => acted'[e] = 1
               /\ acted'[e] = 0 => \A s \in Sources : <<e, s>> \notin mailed'
    <3>1. CASE e # d
      <4>1. \A s \in Sources : <<e, s>> \in mailed' => <<e, s>> \in mailed
        <5>1. ASSUME NEW s \in Sources, NEW q \in named, <<e, s>> = <<d, q>> PROVE FALSE
          <6>1. <<e, s>>[1] = <<d, q>>[1]
              BY <5>1, Zenon
          <6> QED BY <3>1, <6>1
        <5> HIDE DEF d
        <5> QED BY <1>8, <5>1
      <4> QED BY <1>9, <2>0, <3>1, <4>1 DEF Acted
    <3>2. CASE e = d
      <4>1. \A s \in Sources : ~acts /\ <<e, s>> \in mailed' => <<e, s>> \in mailed
          BY <1>8
      <4>2. \A s \in Sources : <<d, s>> \notin mailed
          BY <1>4, <1>5, <2>0 DEF Acted
      <4>3. acted'[e] \in {0, 1} /\ (acted'[e] = 0 => ~acts)
          BY <1>9, <3>2
      <4> QED BY <1>6, <3>2, <4>1, <4>2, <4>3
    <3> QED BY <3>1, <3>2
  <2> QED BY <1>11, <2>1 DEF Acted
<1>16. CoverageTrue(db)' /\ ReceiptTrue(db)'
  <2>1. ASSUME NEW p \in mailed'
        PROVE  db.src[p[2]].state \in {"none", "erased"}
                      \/ /\ db.src[p[2]].delivery = p[1]
                         /\ db.src[p[2]].state \in {"pending", "delivered", "ambiguous"}
    <3>1. CASE p \in mailed
        BY <1>0, <3>1 DEF TablesInv, CoverageTrue
    <3>2. CASE \E s \in named : p = <<d, s>>
      <4>1. PICK s \in named : p = <<d, s>>
          BY <3>2
      <4>2. p[1] = d /\ p[2] = s
          BY <4>1
      <4> QED BY <1>7, <4>2
    <3> QED BY <1>8, <3>1, <3>2
  <2>2. CoverageTrue(db)'
      BY <1>11, <2>1 DEF CoverageTrue
  <2>3. ReceiptTrue(db)'
      BY <1>0, <1>8, <1>11 DEF TablesInv, ReceiptTrue
  <2> QED BY <2>2, <2>3
<1>17. Inherited(db)'
  <2>1. \A s : HasBrief(db, s)' <=> HasBrief(db, s)
      BY <1>1 DEF HasBrief, Owned, topology
  <2>2. ASSUME NEW e \in Days, NEW s \in Named(db'.dlv[e].snapshot) PROVE HasBrief(db, s)'
      BY <1>0, <1>11, <2>1 DEF Inherited
  <2>3. ASSUME NEW v \in Workers, pc'[v] # "idle", NEW s \in Named(cand'[v].snapshot)
        PROVE  HasBrief(db, s)'
      BY <1>0, <1>1, <1>10, <1>11, <2>1, <2>3 DEF Inherited
  <2>4. ASSUME NEW p \in mailed' PROVE HasBrief(db, p[2])'
    <3>1. CASE p \in mailed
        BY <1>0, <2>1, <3>1 DEF Inherited
    <3>2. CASE \E s \in named : p = <<d, s>>
      <4>1. PICK s \in named : p = <<d, s>>
          BY <3>2
      <4>2. p[2] = s
          BY <4>1
      <4>3. HasBrief(db, s)
          BY <1>0, <1>1, <4>1 DEF Inherited, named
      <4> QED BY <2>1, <4>2, <4>3
    <3> QED BY <1>8, <3>1, <3>2
  <2> QED BY <2>2, <2>3, <2>4 DEF Inherited, Named
<1>18. \A v \in Workers : Holding(v)' => Holding(v)
    BY <1>5, <1>10 DEF Holding
<1>19. Holders(db)'
    BY <1>0, <1>11, <1>18 DEF Holders, Held, Named
<1>20. WorkersTyped'
    BY <1>0, <1>1, <1>8, <1>9, <1>10, <1>11 DEF WorkersTyped
<1>21. Answered'
  <2>1. ASSUME NEW v \in Workers, Holding(v)'
        PROVE  /\ pc'[v] = "send" \/ wresult'[v] \in {"transient", "rejected"}
                     => acted'[cand[v].date] = 0
               /\ pc'[v] = "settle" /\ wresult'[v] = "accepted" =>
                     /\ acted'[cand[v].date] = 1
                     /\ \A s \in Named(cand[v].snapshot) : <<cand[v].date, s>> \in mailed'
    <3>1. CASE v = w
        BY <1>3, <1>8, <1>9, <1>10, <3>1 DEF named
    <3>2. CASE v # w
      <4>1. cand[v].date # d
          BY <1>0, <1>5, <1>18, <2>1, <3>2 DEF Holders
      <4>2. cand[v].date \in Days
          BY <1>0, <1>18, <2>1 DEF WorkersTyped, Holding, Candidates
      <4>3. acted'[cand[v].date] = acted[cand[v].date]
          BY <1>9, <4>1, <4>2
      <4> QED BY <1>0, <1>8, <1>10, <1>18, <2>1, <3>2, <4>3 DEF Answered
    <3> QED BY <3>1, <3>2
  <2> QED BY <1>11, <2>1 DEF Answered, Named
<1>22. TopologyInv' /\ SettingsTyped'
  <2>1. changes' \in 0..MaxChange /\ changes' >= changes
      BY <1>0, <1>1 DEF TopologyInv, TopologyTyped
  <2> QED BY <1>0, <1>1, <2>1, TopologySame DEF SettingsTyped, settings
<1>23. Locally
  <2>1. ASSUME NEW e \in Days
        PROVE  Local(db.dlv[e].state, db'.dlv[e].state, acted[e], acted'[e])
    <3>1. CASE e # d
        BY <1>9, <1>11, <3>1 DEF Local, Moves
    <3>2. CASE e = d
        BY <1>5, <1>6, <1>9, <1>11, <3>2 DEF Local, Moves
    <3> QED BY <3>1, <3>2
  <2> QED BY <2>1 DEF Locally
<1>24. MailInv(db)'
    BY <1>12, <1>13, <1>14, <1>15, <1>16, <1>17, <1>19 DEF MailInv
<1> QED BY <1>20, <1>21, <1>22, <1>23, <1>24 DEF Inv

\* The outcome of an answer.
LEMMA OutcomeFacts ==
    ASSUME NEW x \in SendResult, NEW n \in Nat
    PROVE  LET st == Outcome(x, n)
           IN /\ st \in {"delivered", "ambiguous", "failed", "retry_wait"}
              /\ st = "delivered" => x = "accepted"
              /\ st \in {"failed", "retry_wait"} => x \in {"transient", "rejected"}
              /\ st = "retry_wait" => n < MAX_ATTEMPTS
<1>1. CASE x = "accepted"
    BY <1>1 DEF Outcome
<1>2. CASE x = "lost"
    BY <1>2 DEF Outcome
<1>3. CASE x = "rejected"
    BY <1>3 DEF Outcome
<1>4. CASE x = "transient"
  <2>1. Outcome(x, n) = IF n >= MAX_ATTEMPTS THEN "failed" ELSE "retry_wait"
      BY <1>4 DEF Outcome
  <2> QED BY <1>4, <2>1, MailAssumption
<1> QED BY <1>1, <1>2, <1>3, <1>4 DEF SendResult

\* A settlement, row by row.
Settles(t, u, d, st) ==
    /\ u \in Tables /\ u.fence = {} /\ u.lane = NoToken
    /\ \A e \in Days : e # d => u.dlv[e] = t.dlv[e]
    /\ u.dlv[d].state = st /\ u.dlv[d].snapshot = t.dlv[d].snapshot
    /\ u.dlv[d].attempts = t.dlv[d].attempts
    /\ \A s \in Sources :
          /\ u.src[s].delivery = t.src[s].delivery
          /\ u.src[s].state =
                IF st # "retry_wait" /\ t.src[s].state = "pending" /\ t.src[s].delivery = d
                THEN st ELSE t.src[s].state

\* The tables after the settlement of the digest d that holds the token k.
SettledTables(t, d, k, st) ==
    LET settled == ForDigests(t, {d}, LAMBDA r : [r EXCEPT !.state = st, !.token = NoToken,
                                                       !.timer = "wait"])
        covered == IF st = "retry_wait" THEN settled ELSE Cover(settled, {d}, st)
    IN ReleaseFence(covered, {k})

\* That is what a settlement does.
LEMMA SettleFacts ==
    ASSUME NEW t \in Tables, NEW d \in Days, NEW k, t.fence = {k}, t.lane = k,
           NEW st \in {"delivered", "ambiguous", "failed", "retry_wait"}
    PROVE  Settles(t, SettledTables(t, d, k, st), d, st)
<1> DEFINE digest(r) == [r EXCEPT !.state = st, !.token = NoToken, !.timer = "wait"]
           dlv == [e \in Days |-> IF e \in {d} THEN digest(t.dlv[e]) ELSE t.dlv[e]]
           v == [t EXCEPT !.dlv = dlv]
           x == IF st = "retry_wait" THEN v ELSE Cover(v, {d}, st)
           u == ReleaseFence(x, {k})
<1>1. v = ForDigests(t, {d}, LAMBDA r : [r EXCEPT !.state = st, !.token = NoToken, !.timer = "wait"])
    BY DEF ForDigests
<1>2. t.dlv[d] \in Digests
    BY TablesFacts
<1>3. st \in DeliveryState /\ NoToken \in TokenOrNone /\ "wait" \in Timer
    BY DEF DeliveryState, Unsent, Waiting, TokenOrNone, Timer
<1>4. LET r == digest(t.dlv[d])
      IN /\ r \in Digests /\ r.state = st /\ r.snapshot = t.dlv[d].snapshot
         /\ r.attempts = t.dlv[d].attempts
    BY <1>2, <1>3 DEF Digests
<1> HIDE DEF digest
<1>5. /\ dlv \in [Days -> Digests] /\ dlv[d] = digest(t.dlv[d])
      /\ \A e \in Days : e # d => dlv[e] = t.dlv[e]
    BY <1>4, TablesFacts
<1> HIDE DEF dlv
<1>6. v \in Tables /\ v.src = t.src /\ v.dlv = dlv /\ v.fence = t.fence /\ v.lane = t.lane
    BY <1>5 DEF Tables
<1> HIDE DEF v
<1>7. /\ x \in Tables /\ x.dlv = dlv /\ x.fence = t.fence /\ x.lane = t.lane
      /\ \A s \in Sources :
            /\ x.src[s].delivery = t.src[s].delivery
            /\ x.src[s].state =
                  IF st # "retry_wait" /\ t.src[s].state = "pending" /\ t.src[s].delivery = d
                  THEN st ELSE t.src[s].state
  <2>1. CASE st = "retry_wait"
      BY <1>6, <2>1
  <2>2. CASE st # "retry_wait"
    <3>1. st \in SourceState
        BY <2>2 DEF SourceState
    <3>2. LET y == Cover(v, {d}, st)
          IN /\ y \in Tables /\ y.dlv = v.dlv /\ y.fence = v.fence /\ y.lane = v.lane
             /\ \A s \in Sources :
                   /\ y.src[s].delivery = v.src[s].delivery
                   /\ y.src[s].state = IF v.src[s].state = "pending" /\ v.src[s].delivery \in {d}
                                       THEN st ELSE v.src[s].state
        BY <1>6, <3>1, CoverFacts
    <3> QED BY <1>6, <2>2, <3>2
  <2> QED BY <2>1, <2>2
<1>8. x = IF st = "retry_wait" THEN v ELSE Cover(v, {d}, st)
    OBVIOUS
<1> HIDE DEF x
<1>9. /\ u \in Tables /\ u.src = x.src /\ u.dlv = x.dlv /\ u.fence = x.fence \ {k}
      /\ u.lane = IF x.lane \in {k} THEN NoToken ELSE x.lane
    BY <1>7, ReleaseFacts
<1> HIDE DEF u
<1>10. Settles(t, u, d, st)
    BY <1>4, <1>5, <1>7, <1>9 DEF Settles
<1> QED BY <1>1, <1>8, <1>10 DEF u, SettledTables

\* The settlement of an answer, or an answer that comes too late.
LEMMA SettleStep ==
    ASSUME Inv, NEW w \in Workers, Settle(w)
    PROVE  Inv' /\ Locally
<1> USE OpenFacts
<1> DEFINE d == cand[w].date
           k == wtoken[w]
           st == Outcome(wresult[w], db.dlv[d].attempts)
           settled == ForDigests(db, {d}, LAMBDA r : [r EXCEPT !.state = st, !.token = NoToken,
                                                           !.timer = "wait"])
           covered == IF st = "retry_wait" THEN settled ELSE Cover(settled, {d}, st)
           current == db.dlv[d].state = "processing" /\ db.dlv[d].token = k /\ k \in db.fence
           u == ReleaseFence(covered, {k})
<1>0. /\ TopologyInv /\ SettingsTyped /\ WorkersTyped /\ MailInv(db) /\ Answered
      /\ TablesInv(db) /\ Inherited(db) /\ Holders(db)
    BY MailParts DEF Inv
<1>1. /\ pc[w] = "settle" /\ db' = IF current THEN u ELSE db
      /\ Stop(w) /\ UNCHANGED <<settings, topology, history, changes>>
    BY DEF Settle
<1>2. TopologyInv' /\ SettingsTyped'
  <2>1. changes' \in 0..MaxChange /\ changes' >= changes
      BY <1>0, <1>1 DEF TopologyInv, TopologyTyped
  <2> QED BY <1>0, <1>1, <2>1, TopologySame DEF SettingsTyped, settings
<1>3. UNCHANGED <<settings, topology, history>> /\ UNCHANGED history /\ UNCHANGED topology
    BY <1>1
<1>4. CASE ~current
  <2>1. db' = db
      BY <1>1, <1>4
  <2>2. MailInv(db)' /\ WorkersTyped' /\ Answered'
      BY <1>0, <1>1, <1>3, <2>1, StopKeeps
  <2>3. Locally
      BY <1>3, <2>1 DEF Locally, Local, Moves, history
  <2> QED BY <1>2, <2>2, <2>3 DEF Inv
<1>5. CASE current
  <2>0. db' = u
      BY <1>1, <1>5
  <2>1. cand[w] \in Candidates /\ d \in Days /\ wresult[w] \in SendResult
      BY <1>0, <1>1 DEF WorkersTyped, Candidates
  <2>2. Holding(w) /\ Held(db, w) /\ db.dlv[d].snapshot = cand[w].snapshot
      BY <1>0, <1>1, <1>5 DEF Holding, Holders, Held
  <2>3. /\ db \in Tables
        /\ RowShape(db) /\ LaneShape(db) /\ Joined(db) /\ Covered(db) /\ Apart(db)
        /\ ErasedIsGone(db) /\ Unassigned(db) /\ Acted(db) /\ CoverageTrue(db)
        /\ ReceiptTrue(db) /\ DeletedOut(db)
      BY <1>0 DEF TablesInv
  <2>4. /\ db.fence = {k} /\ db.lane = k
        /\ \A e \in Days : db.dlv[e].state = "processing" => e = d
    <3>1. db.fence = {k} /\ db.lane = k
        BY <1>5, <2>1, <2>3 DEF LaneShape, InState
    <3>2. ASSUME NEW e \in Days, db.dlv[e].state = "processing" PROVE e = d
      <4>1. db.dlv[e].token = <<e, db.dlv[e].attempts>> /\ db.dlv[d].token = <<d, db.dlv[d].attempts>>
          BY <1>5, <2>1, <2>3, <3>2 DEF RowShape
      <4>2. db.fence = {db.dlv[e].token}
          BY <2>3, <3>2 DEF LaneShape, InState
      <4>3. db.dlv[e].token = db.dlv[d].token
          BY <1>5, <3>1, <4>2
      <4>4. <<e, db.dlv[e].attempts>>[1] = <<d, db.dlv[d].attempts>>[1]
          BY <4>1, <4>3
      <4> QED BY <4>4
    <3> QED BY <3>1, <3>2
  <2>5. db.dlv[d].attempts \in Nat
      BY <2>1, <2>3, TablesFacts, MailAssumption DEF Digests
  <2>6. /\ st \in {"delivered", "ambiguous", "failed", "retry_wait"}
        /\ st = "delivered" => wresult[w] = "accepted"
        /\ st \in {"failed", "retry_wait"} => wresult[w] \in {"transient", "rejected"}
        /\ st = "retry_wait" => db.dlv[d].attempts < MAX_ATTEMPTS
    <3> HIDE DEF d
    <3> QED BY <2>1, <2>5, OutcomeFacts
  <2> HIDE DEF st
  <2>7. Settles(db, u, d, st)
    <3>1. u = SettledTables(db, d, k, st)
        BY DEF SettledTables
    <3> HIDE DEF d, k, u
    <3> QED BY <2>1, <2>3, <2>4, <2>6, <3>1, SettleFacts
  <2> HIDE DEF u
  <2>8. /\ u \in Tables /\ u.fence = {} /\ u.lane = NoToken
        /\ \A e \in Days : e # d => u.dlv[e] = db.dlv[e]
        /\ u.dlv[d].state = st /\ u.dlv[d].snapshot = db.dlv[d].snapshot
        /\ u.dlv[d].attempts = db.dlv[d].attempts
        /\ \A s \in Sources :
              /\ u.src[s].delivery = db.src[s].delivery
              /\ u.src[s].state =
                    IF st # "retry_wait" /\ db.src[s].state = "pending" /\ db.src[s].delivery = d
                    THEN st ELSE db.src[s].state
      BY <2>7 DEF Settles
  <2>9. /\ st = "delivered" => acted[d] = 1 /\ \A s \in Named(cand[w].snapshot) : <<d, s>> \in mailed
        /\ st \in {"failed", "retry_wait"} => acted[d] = 0
      BY <1>0, <1>1, <2>2, <2>6 DEF Answered
  <2>10. RowShape(u)
      BY <2>3, <2>6, <2>8 DEF RowShape
  <2>11. \A e \in Days : u.dlv[e].state # "processing"
      BY <2>4, <2>6, <2>8
  <2>12. LaneShape(u) /\ Consented(u) /\ Organized(u)
      BY <2>8, <2>11 DEF LaneShape, Consented, Organized, InState
  <2>13. Joined(u)
    <3>1. ASSUME NEW s \in Sources, u.src[s].state = "pending", u.src[s].delivery # 0
          PROVE  /\ u.dlv[u.src[s].delivery].state \in Open
                 /\ s \in Named(u.dlv[u.src[s].delivery].snapshot)
      <4>1. /\ u.src[s].delivery \in Days /\ u.src[s].delivery = db.src[s].delivery
            /\ db.src[s].state = "pending" /\ (db.src[s].delivery = d => st = "retry_wait")
          BY <2>6, <2>8, <3>1, TablesFacts DEF SourceRows
      <4>2. /\ db.dlv[db.src[s].delivery].state \in Open
            /\ s \in Named(db.dlv[db.src[s].delivery].snapshot)
          BY <2>3, <3>1, <4>1 DEF Joined
      <4>3. CASE db.src[s].delivery # d
          BY <2>8, <4>1, <4>2, <4>3
      <4>4. CASE db.src[s].delivery = d
          BY <2>8, <4>1, <4>2, <4>4
      <4> QED BY <4>3, <4>4
    <3> QED BY <3>1 DEF Joined
  <2>14. \A e \in Days : u.dlv[e].state \in Open =>
            /\ db.dlv[e].state \in Open /\ u.dlv[e].snapshot = db.dlv[e].snapshot
            /\ e = d => st = "retry_wait"
      BY <1>5, <2>6, <2>8
  <2>15. \A s \in Sources : db.src[s].state \in {"none", "erased"} => u.src[s].state = db.src[s].state
      BY <2>8
  <2>16. Covered(u)
    <3>1. ASSUME NEW e \in Days, u.dlv[e].state \in Open, NEW s \in Named(u.dlv[e].snapshot)
          PROVE  BelongsTo(u, s, e)
      <4>1. BelongsTo(db, s, e) /\ s \in Sources
          BY <2>3, <2>14, <3>1, TablesFacts, NamedFacts DEF Covered, InState, Digests
      <4> QED BY <2>8, <2>14, <3>1, <4>1 DEF BelongsTo
    <3> QED BY <3>1 DEF Covered, InState
  <2>17. Apart(u)
    <3>1. ASSUME NEW e \in Days, u.dlv[e].state \in Open,
                 NEW b \in u.dlv[e].snapshot, NEW c \in u.dlv[e].snapshot, b # c,
                 NEW s \in b.members \cap c.members
          PROVE  u.src[s].state \in {"none", "erased"}
      <4>1. db.src[s].state \in {"none", "erased"}
          BY <2>3, <2>14, <3>1 DEF Apart, InState
      <4>2. s \in Sources
          BY <2>8, <3>1, TablesFacts DEF Digests, Briefs
      <4> QED BY <2>15, <4>1, <4>2
    <3> QED BY <3>1 DEF Apart, InState
  <2>18. ErasedIsGone(u) /\ Unassigned(u)
      BY <2>3, <2>6, <2>8 DEF ErasedIsGone, Unassigned
  <2>19. Acted(u)
    <3>1. ASSUME NEW e \in Days
          PROVE  /\ u.dlv[e].state \in NotMailed => acted[e] = 0
                 /\ u.dlv[e].state = "delivered" => acted[e] = 1
        BY <2>3, <2>6, <2>8, <2>9 DEF Acted
    <3> QED BY <2>3, <3>1 DEF Acted
  <2>20. CoverageTrue(u)
    <3>1. ASSUME NEW p \in mailed
          PROVE  u.src[p[2]].state \in {"none", "erased"}
                        \/ /\ u.src[p[2]].delivery = p[1]
                           /\ u.src[p[2]].state \in {"pending", "delivered", "ambiguous"}
      <4>1. p[1] \in Days /\ p[2] \in Sources /\ p = <<p[1], p[2]>>
          BY <1>0, <3>1 DEF WorkersTyped
      <4>2. db.src[p[2]].state \in {"none", "erased"}
                        \/ /\ db.src[p[2]].delivery = p[1]
                           /\ db.src[p[2]].state \in {"pending", "delivered", "ambiguous"}
          BY <2>3, <3>1 DEF CoverageTrue
      <4>3. acted[p[1]] # 0
          BY <2>3, <3>1, <4>1 DEF Acted
      <4> QED BY <2>6, <2>8, <2>9, <4>1, <4>2, <4>3
    <3> QED BY <3>1 DEF CoverageTrue
  <2>21. ReceiptTrue(u)
    <3>1. ASSUME NEW s \in Sources, u.src[s].state = "delivered"
          PROVE  <<u.src[s].delivery, s>> \in mailed
      <4>1. CASE db.src[s].state = "delivered"
          BY <2>3, <2>8, <4>1 DEF ReceiptTrue
      <4>2. CASE db.src[s].state # "delivered"
        <5>1. st = "delivered" /\ db.src[s].state = "pending" /\ db.src[s].delivery = d
            BY <2>8, <3>1, <4>2
        <5>2. s \in Named(db.dlv[d].snapshot)
          <6>1. d # 0
              BY <2>1 DEF Days
          <6> QED BY <2>3, <5>1, <6>1 DEF Joined
        <5>3. <<d, s>> \in mailed
            BY <2>2, <2>9, <5>1, <5>2
        <5> QED BY <2>8, <5>1, <5>3
      <4> QED BY <4>1, <4>2
    <3> QED BY <3>1 DEF ReceiptTrue
  <2>22. DeletedOut(u)
      BY <2>3, <2>8 DEF DeletedOut
  <2>23. TablesInv(db)'
    <3>1. TablesInv(u)
        BY <2>8, <2>10, <2>12, <2>13, <2>16, <2>17, <2>18, <2>19, <2>20, <2>21, <2>22 DEF TablesInv
    <3> QED BY <1>3, <2>0, <3>1, TablesStep
  <2>24. /\ pc'[w] = "idle"
         /\ \A v \in Workers : v # w => pc'[v] = pc[v] /\ cand'[v] = cand[v] /\ wtoken'[v] = wtoken[v]
                                        /\ wresult'[v] = wresult[v]
         /\ pc' \in [Workers -> PC] /\ wtoken' \in [Workers -> TokenOrNone]
         /\ wresult' \in [Workers -> SendResult] /\ cand' \in [Workers -> Candidates \cup {NoCandidate}]
    <3>1. "idle" \in PC /\ NoToken \in TokenOrNone /\ "lost" \in SendResult
        BY DEF PC, TokenOrNone, SendResult
    <3> QED BY <1>0, <1>1, <3>1 DEF Stop, WorkersTyped
  <2>25. Inherited(db)'
    <3>1. \A s \in Sources : HasBrief(db, s) => HasBrief(db, s)'
        BY <1>3, <2>0, <2>15 DEF HasBrief, Owned, topology
    <3>2. ASSUME NEW e \in Days, NEW s \in Named(u.dlv[e].snapshot) PROVE HasBrief(db, s)'
      <4>1. s \in Named(db.dlv[e].snapshot)
          BY <2>1, <2>8, <3>2
      <4>2. s \in Sources
          BY <2>3, <4>1, TablesFacts, NamedFacts DEF Digests
      <4> QED BY <1>0, <3>1, <4>1, <4>2 DEF Inherited
    <3>3. ASSUME NEW v \in Workers, pc'[v] # "idle", NEW s \in Named(cand'[v].snapshot)
          PROVE  HasBrief(db, s)'
      <4>1. pc[v] # "idle" /\ s \in Named(cand[v].snapshot)
          BY <2>24, <3>3
      <4>2. s \in Sources
          BY <1>0, <4>1, NamedFacts DEF WorkersTyped, Candidates
      <4> QED BY <1>0, <3>1, <4>1, <4>2 DEF Inherited
    <3>4. ASSUME NEW p \in mailed PROVE HasBrief(db, p[2])'
      <4>1. p[2] \in Sources
          BY <1>0 DEF WorkersTyped
      <4> QED BY <1>0, <3>1, <3>4, <4>1 DEF Inherited
    <3> QED BY <1>3, <2>0, <3>2, <3>3, <3>4 DEF Inherited, Named, history
  <2>26. \A v \in Workers : Holding(v)' => v # w /\ Holding(v)
      BY <2>24 DEF Holding
  <2>27. Holders(db)'
    <3>1. ASSUME NEW v \in Workers, Holding(v)' PROVE Held(db, v)'
      <4>1. v # w /\ Holding(v) /\ Held(db, v) /\ cand'[v] = cand[v] /\ wtoken'[v] = wtoken[v]
          BY <1>0, <2>24, <2>26, <3>1 DEF Holders
      <4>2. cand[v].date # d /\ cand[v].date \in Days /\ Named(cand[v].snapshot) \subseteq Sources
          BY <1>0, <2>2, <4>1, NamedFacts DEF Holders, WorkersTyped, Holding, Candidates
      <4>3. u.dlv[cand[v].date] = db.dlv[cand[v].date]
          BY <2>8, <4>2
      <4>4. \A s \in Named(cand[v].snapshot) :
               db.src[s].state = "ambiguous" => u.src[s].state = "ambiguous"
                                                /\ u.src[s].delivery = db.src[s].delivery
          BY <2>8, <4>2
      <4> QED BY <2>0, <2>15, <4>1, <4>2, <4>3, <4>4 DEF Held, Named
    <3>2. ASSUME NEW v \in Workers, NEW y \in Workers, Holding(v)', Holding(y)',
                 cand'[v].date = cand'[y].date
          PROVE  v = y
        BY <1>0, <2>24, <2>26, <3>2 DEF Holders
    <3> QED BY <3>1, <3>2 DEF Holders
  <2>28. WorkersTyped' /\ Answered'
    <3>1. WorkersTyped'
        BY <1>0, <1>3, <2>24 DEF WorkersTyped, history
    <3>2. Answered'
        BY <1>0, <1>3, <2>24, <2>26 DEF Answered, Named, history
    <3> QED BY <3>1, <3>2
  <2>29. Locally
    <3>1. ASSUME NEW e \in Days
          PROVE  Local(db.dlv[e].state, u.dlv[e].state, acted[e], acted[e])
      <4>1. CASE e # d
          BY <2>8, <4>1 DEF Local, Moves
      <4>2. CASE e = d
          BY <1>5, <2>6, <2>8, <2>9, <4>2 DEF Local, Moves
      <4> QED BY <4>1, <4>2
    <3> QED BY <1>3, <2>0, <3>1 DEF Locally, history
  <2> QED BY <1>2, <2>23, <2>25, <2>27, <2>28, <2>29 DEF Inv, MailInv, TablesInv
<1> QED BY <1>4, <1>5

\* A worker that crashes.
LEMMA CrashStep ==
    ASSUME Inv, NEW w \in Workers, CrashW(w)
    PROVE  Inv' /\ Locally
<1>0. TopologyInv /\ SettingsTyped /\ WorkersTyped /\ MailInv(db) /\ Answered
    BY DEF Inv
<1>1. /\ changes < MaxChange /\ changes' = changes + 1 /\ Stop(w) /\ db' = db
      /\ UNCHANGED <<settings, topology, history>>
    BY DEF CrashW, Change
<1>2. changes \in Nat /\ changes' \in 0..MaxChange /\ changes' >= changes
    BY <1>0, <1>1, MailAssumption DEF TopologyInv, TopologyTyped
<1>3. TopologyInv'
    BY <1>0, <1>1, <1>2, TopologySame
<1>4. SettingsTyped'
    BY <1>0, <1>1, <1>2 DEF SettingsTyped, settings
<1>5. MailInv(db)' /\ WorkersTyped' /\ Answered'
    BY <1>0, <1>1, StopKeeps
<1>6. Locally
    BY <1>1 DEF Locally, Local, Moves, history
<1> QED BY <1>3, <1>4, <1>5, <1>6 DEF Inv

-----------------------------------------------------------------------------
(* Time, and the owner.                                                    *)

\* Tables that differ in timers and in the pace of the lane only.
Ticks(t, u) ==
    /\ u \in Tables /\ u.src = t.src /\ u.fence = t.fence /\ u.lane = t.lane
    /\ \A e \in Days :
          /\ u.dlv[e].state = t.dlv[e].state /\ u.dlv[e].snapshot = t.dlv[e].snapshot
          /\ u.dlv[e].attempts = t.dlv[e].attempts /\ u.dlv[e].token = t.dlv[e].token
          /\ u.dlv[e].consent = t.dlv[e].consent /\ u.dlv[e].to = t.dlv[e].to
          /\ u.dlv[e].content = t.dlv[e].content

\* They satisfy the invariant, too.
LEMMA TicksKeep ==
    ASSUME WorkersTyped, NEW t, MailInv(t), NEW u, Ticks(t, u)
    PROVE  MailInv(u) /\ Moved(t, u)
<1>0. /\ u \in Tables /\ u.src = t.src /\ u.fence = t.fence /\ u.lane = t.lane
      /\ \A e \in Days :
            /\ u.dlv[e].state = t.dlv[e].state /\ u.dlv[e].snapshot = t.dlv[e].snapshot
            /\ u.dlv[e].attempts = t.dlv[e].attempts /\ u.dlv[e].token = t.dlv[e].token
            /\ u.dlv[e].consent = t.dlv[e].consent /\ u.dlv[e].to = t.dlv[e].to
            /\ u.dlv[e].content = t.dlv[e].content
    BY DEF Ticks
<1>1. /\ RowShape(t) /\ LaneShape(t) /\ Consented(t) /\ Organized(t)
      /\ Joined(t) /\ Covered(t) /\ Apart(t) /\ Inherited(t) /\ ErasedIsGone(t) /\ Unassigned(t)
      /\ Holders(t) /\ Acted(t) /\ CoverageTrue(t) /\ ReceiptTrue(t) /\ DeletedOut(t)
    BY DEF MailInv
<1>2. RowShape(u) /\ LaneShape(u)
    BY <1>0, <1>1 DEF RowShape, LaneShape, InState
<1>3. Consented(u) /\ Organized(u)
    BY <1>0, <1>1 DEF Consented, Organized, InState
<1>4. Joined(u)
  <2>1. ASSUME NEW s \in Sources, u.src[s].state = "pending", u.src[s].delivery # 0
        PROVE  /\ u.dlv[u.src[s].delivery].state \in Open
               /\ s \in Named(u.dlv[u.src[s].delivery].snapshot)
    <3>1. u.src[s].delivery \in Days /\ u.src[s] = t.src[s]
        BY <1>0, <2>1, TablesFacts DEF SourceRows
    <3> QED BY <1>0, <1>1, <2>1, <3>1 DEF Joined
  <2> QED BY <2>1 DEF Joined
<1>5. Covered(u)
    BY <1>0, <1>1 DEF Covered, InState, BelongsTo
<1>6. Apart(u)
    BY <1>0, <1>1 DEF Apart, InState
<1>7. Inherited(u)
  <2>1. \A s : HasBrief(t, s) <=> HasBrief(u, s)
      BY <1>0 DEF HasBrief
  <2> QED BY <1>0, <1>1, <2>1 DEF Inherited
<1>8. ErasedIsGone(u) /\ Unassigned(u) /\ CoverageTrue(u) /\ ReceiptTrue(u)
    BY <1>0, <1>1 DEF ErasedIsGone, Unassigned, CoverageTrue, ReceiptTrue
<1>9. Holders(u)
  <2>1. ASSUME NEW w \in Workers, Holding(w) PROVE Held(u, w)
    <3>1. cand[w].date \in Days
        BY <2>1 DEF WorkersTyped, Holding, Candidates
    <3>2. Held(t, w)
        BY <1>1, <2>1 DEF Holders
    <3> QED BY <1>0, <3>1, <3>2 DEF Held
  <2> QED BY <1>1, <2>1 DEF Holders
<1>10. Acted(u) /\ DeletedOut(u)
    BY <1>0, <1>1 DEF Acted, DeletedOut
<1>11. Moved(t, u)
    BY <1>0 DEF Moved, Moves
<1> QED BY <1>0, <1>2, <1>3, <1>4, <1>5, <1>6, <1>7, <1>8, <1>9, <1>10, <1>11 DEF MailInv

\* A timer of one digest.
LEMMA TimerTicks ==
    ASSUME NEW t \in Tables, NEW d \in Days, NEW x \in Timer
    PROVE  Ticks(t, [t EXCEPT !.dlv[d].timer = x])
<1> DEFINE digest == [t.dlv[d] EXCEPT !.timer = x]
           dlv == [t.dlv EXCEPT ![d] = digest]
           u == [t EXCEPT !.dlv = dlv]
<1>1. t.dlv \in [Days -> Digests] /\ t.dlv[d] \in Digests
    BY TablesFacts
<1>2. [t EXCEPT !.dlv[d].timer = x] = u
    BY <1>1
<1>3. /\ digest \in Digests
      /\ digest.state = t.dlv[d].state /\ digest.snapshot = t.dlv[d].snapshot
      /\ digest.attempts = t.dlv[d].attempts /\ digest.token = t.dlv[d].token
      /\ digest.consent = t.dlv[d].consent /\ digest.to = t.dlv[d].to
      /\ digest.content = t.dlv[d].content
    BY <1>1 DEF Digests
<1> HIDE DEF digest
<1>4. dlv \in [Days -> Digests] /\ dlv[d] = digest /\ \A e \in Days : e # d => dlv[e] = t.dlv[e]
    BY <1>1, <1>3
<1> HIDE DEF dlv
<1>5. u \in Tables /\ u.src = t.src /\ u.dlv = dlv /\ u.fence = t.fence /\ u.lane = t.lane
    BY <1>4 DEF Tables
<1> HIDE DEF u
<1>6. Ticks(t, u)
    BY <1>3, <1>4, <1>5 DEF Ticks
<1> QED BY <1>2, <1>6

\* Time passes.
LEMMA TickStep ==
    ASSUME Inv, Tick
    PROVE  Inv' /\ Locally
<1>0. TopologyInv /\ SettingsTyped /\ WorkersTyped /\ MailInv(db) /\ Answered /\ db \in Tables
    BY DEF Inv, MailInv
<1>1. UNCHANGED <<settings, topology, history>> /\ UNCHANGED <<worker, changes>>
    BY DEF Tick
<1>2. Ticks(db, db')
  <2>1. CASE \E d \in InState(db, {"retry_wait"}) :
               db' = [db EXCEPT !.dlv[d].timer = IF @ = "wait" THEN "ready" ELSE "stale"]
    <3>1. PICK d \in InState(db, {"retry_wait"}) :
             db' = [db EXCEPT !.dlv[d].timer = IF @ = "wait" THEN "ready" ELSE "stale"]
        BY <2>1
    <3> DEFINE x == IF db.dlv[d].timer = "wait" THEN "ready" ELSE "stale"
    <3>2. d \in Days /\ x \in Timer
        BY DEF InState, Timer
    <3>3. db' = [db EXCEPT !.dlv[d].timer = x]
        BY <3>1
    <3> HIDE DEF x
    <3> QED BY <1>0, <3>2, <3>3, TimerTicks
  <2>2. CASE \E d \in InState(db, {"processing"}) : db' = [db EXCEPT !.dlv[d].timer = "lapsed"]
    <3>1. PICK d \in InState(db, {"processing"}) : db' = [db EXCEPT !.dlv[d].timer = "lapsed"]
        BY <2>2
    <3>2. d \in Days /\ "lapsed" \in Timer
        BY DEF InState, Timer
    <3> QED BY <1>0, <3>1, <3>2, TimerTicks
  <2>3. CASE db' = [db EXCEPT !.cooling = FALSE]
    <3>1. /\ db' \in Tables /\ db'.src = db.src /\ db'.dlv = db.dlv /\ db'.fence = db.fence
          /\ db'.lane = db.lane
        BY <1>0, <2>3 DEF Tables
    <3> QED BY <3>1 DEF Ticks
  <2> QED BY <2>1, <2>2, <2>3 DEF Tick
<1>3. MailInv(db') /\ Moved(db, db')
    BY <1>0, <1>2, TicksKeep
<1>4. MailInv(db)' /\ WorkersTyped' /\ Answered'
  <2>1. PICK u : u = db'
      OBVIOUS
  <2> QED BY <1>0, <1>1, <1>3, <2>1, WorkersSame
<1>5. TopologyInv' /\ SettingsTyped'
  <2>1. changes' \in 0..MaxChange /\ changes' >= changes
      BY <1>0, <1>1 DEF TopologyInv, TopologyTyped
  <2> QED BY <1>0, <1>1, <2>1, TopologySame DEF SettingsTyped, settings
<1>6. Locally
    BY <1>1, <1>3 DEF Locally, Local, Moved, history
<1> QED BY <1>4, <1>5, <1>6 DEF Inv

\* Without a fence nothing is in flight.
LEMMA NoneInFlight ==
    ASSUME NEW t, LaneShape(t), t.fence = {}
    PROVE  InState(t, {"processing"}) = {}
BY DEF LaneShape, InState

\* A close of unsent digests that leaves the lane alone.
LEMMA WithdrawKeeps ==
    ASSUME WorkersTyped, NEW t, MailInv(t), NEW u, Closes(t, u, InState(t, Unsent)),
           u.fence = t.fence, u.lane = t.lane
    PROVE  MailInv(u) /\ Moved(t, u)
<1>1. LaneShape(t)
    BY DEF MailInv
<1>2. LaneShape(u)
  <2>1. \A e \in Days : /\ u.dlv[e].state = "processing" <=> t.dlv[e].state = "processing"
                        /\ u.dlv[e].state = "processing" => u.dlv[e].token = t.dlv[e].token
      BY OpenFacts DEF Closes, InState
  <2> QED BY <1>1, <2>1, SameLane
<1> QED BY <1>2, CloseKeeps, CloseMoves

\* Saved preferences take back what was not submitted.
LEMMA CancelUnsentCloses ==
    ASSUME NEW t \in Tables, NEW revoked \in BOOLEAN
    PROVE  LET u == CancelUnsent(t, revoked)
           IN Closes(t, u, InState(t, Unsent)) /\ u.fence = t.fence /\ u.lane = t.lane
<1> DEFINE open == InState(t, Unsent)
           ds == open \cup {0}
           row(s) == IF t.src[s].state = "pending" /\ t.src[s].delivery \in ds
                     THEN [t.src[s] EXCEPT !.delivery = 0,
                                           !.state = IF revoked THEN "cancelled" ELSE @]
                     ELSE t.src[s]
           src == [s \in Sources |-> row(s)]
           v == [t EXCEPT !.src = src]
           u == ForDigests(v, ds, Cancelled)
<1>1. CancelUnsent(t, revoked) = u
    BY DEF CancelUnsent, ForEvidence
<1>2. ASSUME NEW s \in Sources
      PROVE  /\ row(s) \in SourceRows
             /\ t.src[s].state # "pending" \/ t.src[s].delivery \notin ds => row(s) = t.src[s]
             /\ t.src[s].state = "pending" /\ t.src[s].delivery = 0 =>
                   row(s) = t.src[s] \/ row(s).state = "cancelled"
             /\ t.src[s].state = "pending" /\ t.src[s].delivery \in ds =>
                   \/ row(s).state = "pending" /\ row(s).delivery = 0
                   \/ row(s).state = "cancelled"
  <2>1. t.src[s] \in SourceRows
      BY TablesFacts
  <2>2. "cancelled" \in SourceState
      BY DEF SourceState
  <2>3. CASE t.src[s].state = "pending" /\ t.src[s].delivery \in ds
    <3>1. row(s) = [t.src[s] EXCEPT !.delivery = 0,
                                    !.state = IF revoked THEN "cancelled" ELSE t.src[s].state]
        BY <2>3
    <3>2. CASE revoked
        BY <2>1, <2>2, <2>3, <3>1, <3>2 DEF SourceRows
    <3>3. CASE ~revoked
        BY <2>1, <2>3, <3>1, <3>3 DEF SourceRows
    <3> QED BY <3>2, <3>3
  <2>4. CASE ~(t.src[s].state = "pending" /\ t.src[s].delivery \in ds)
      BY <2>1, <2>4
  <2> QED BY <2>3, <2>4
<1>3. src \in [Sources -> SourceRows] /\ \A s \in Sources : src[s] = row(s)
    BY <1>2
<1> HIDE DEF row, src
<1>4. v \in Tables /\ v.src = src /\ v.dlv = t.dlv /\ v.fence = t.fence /\ v.lane = t.lane
    BY <1>3 DEF Tables
<1> HIDE DEF v
<1>5. /\ u \in Tables /\ u.src = v.src /\ u.fence = v.fence /\ u.lane = v.lane
      /\ \A d \in Days : IF d \in ds
                         THEN u.dlv[d].state = "cancelled" /\ u.dlv[d].snapshot = {}
                         ELSE u.dlv[d] = v.dlv[d]
    BY <1>4, CancelledFacts
<1> HIDE DEF u
<1>6. open \subseteq Days /\ \A d \in open : t.dlv[d].state \in Unsent
    BY DEF InState
<1>7. 0 \notin Days
    BY DEF Days
<1>8. /\ \A d \in Days : d \notin open => u.dlv[d] = t.dlv[d]
      /\ \A d \in open : u.dlv[d].snapshot \subseteq t.dlv[d].snapshot /\ u.dlv[d].state = "cancelled"
    BY <1>4, <1>5, <1>6, <1>7
<1>9. \A s \in Sources : u.src[s] = row(s)
    BY <1>3, <1>4, <1>5
<1>10. Closes(t, u, open)
  <2> HIDE DEF open
  <2> QED BY <1>2, <1>5, <1>6, <1>8, <1>9, OpenFacts DEF Closes
<1> QED BY <1>1, <1>4, <1>5, <1>10

\* A new address takes back the unsent digests, but not their evidence.
LEMMA AddressCloses ==
    ASSUME NEW t \in Tables
    PROVE  LET ds == InState(t, Unsent)
               u == ForDigests(Detach(t, ds), ds, Cancelled)
           IN Closes(t, u, ds) /\ u.fence = t.fence /\ u.lane = t.lane
<1> DEFINE ds == InState(t, Unsent)
           v == Detach(t, ds)
           u == ForDigests(v, ds, Cancelled)
<1>1. /\ v \in Tables /\ v.dlv = t.dlv /\ v.fence = t.fence /\ v.lane = t.lane
      /\ \A s \in Sources :
            IF t.src[s].state = "pending" /\ t.src[s].delivery \in ds
            THEN v.src[s].state = "pending" /\ v.src[s].delivery = 0
            ELSE v.src[s] = t.src[s]
    BY DetachFacts
<1> HIDE DEF v
<1>2. /\ u \in Tables /\ u.src = v.src /\ u.fence = v.fence /\ u.lane = v.lane
      /\ \A d \in Days : IF d \in ds
                         THEN u.dlv[d].state = "cancelled" /\ u.dlv[d].snapshot = {}
                         ELSE u.dlv[d] = v.dlv[d]
    BY <1>1, CancelledFacts
<1> HIDE DEF u
<1>3. ds \subseteq Days /\ \A d \in ds : t.dlv[d].state \in Unsent
    BY DEF InState
<1>4. 0 \notin ds
    BY DEF InState, Days
<1>5. Closes(t, u, ds)
  <2> HIDE DEF ds
  <2> QED BY <1>1, <1>2, <1>3, <1>4, OpenFacts DEF Closes
<1> QED BY <1>1, <1>2, <1>5 DEF u, v

\* The owner changes a setting: the tables after it are those of a close.
LEMMA OwnerStep ==
    ASSUME Inv, MayChange, Change, UNCHANGED <<account, topology, worker, history>>,
           Closes(db, db', InState(db, Unsent)), db'.fence = db.fence, db'.lane = db.lane,
           pref' \in [consent : Consent, at : {pref.at, pref.at + 1}],
           recipient' \in {recipient, recipient + 1}
    PROVE  Inv' /\ Locally
<1>0. TopologyInv /\ SettingsTyped /\ WorkersTyped /\ MailInv(db) /\ Answered
    BY DEF Inv
<1>1. changes \in Nat /\ changes' = changes + 1 /\ changes' \in 0..MaxChange /\ changes' >= changes
    BY <1>0, MailAssumption DEF Change, TopologyInv, TopologyTyped
<1>2. TopologyInv'
    BY <1>0, <1>1, TopologySame
<1>3. SettingsTyped'
  <2>1. /\ account' \in BOOLEAN /\ pref.at \in Nat /\ recipient \in Nat
        /\ pref.at <= changes /\ recipient <= changes
      BY <1>0, MailAssumption DEF SettingsTyped
  <2>2. pref'.consent \in Consent /\ pref'.at \in 0..MaxChange /\ pref'.at <= changes'
      BY <1>1, <2>1, MailAssumption
  <2>3. recipient' \in 0..MaxChange /\ recipient' <= changes'
      BY <1>1, <2>1, MailAssumption
  <2> QED BY <2>1, <2>2, <2>3 DEF SettingsTyped
<1>4. PICK u : u = db'
    OBVIOUS
<1>5. MailInv(u) /\ Moved(db, u)
    BY <1>0, <1>4, WithdrawKeeps
<1>6. InState(u, {"processing"}) = {}
  <2>1. LaneShape(u) /\ u.fence = {}
      BY <1>4, <1>5 DEF MayChange, MailInv
  <2> QED BY <2>1, NoneInFlight
<1>7. MailInv(db)' /\ WorkersTyped' /\ Answered'
    BY <1>0, <1>4, <1>5, <1>6, OwnerSame
<1>8. Locally
    BY <1>4, <1>5 DEF Locally, Local, Moved, history
<1> QED BY <1>2, <1>3, <1>7, <1>8 DEF Inv

\* The owner saves preferences.
LEMMA SavePreferenceStep ==
    ASSUME Inv, SavePreference
    PROVE  Inv' /\ Locally
<1>1. PICK c \in Consent : /\ pref' = [consent |-> c, at |-> pref.at + 1]
                           /\ db' = CancelUnsent(db, c = "off")
    BY DEF SavePreference
<1>2. /\ MayChange /\ Change /\ recipient' = recipient
      /\ UNCHANGED <<account, topology, worker, history>>
    BY DEF SavePreference
<1>3. db \in Tables
    BY DEF Inv, MailInv
<1>4. Closes(db, db', InState(db, Unsent)) /\ db'.fence = db.fence /\ db'.lane = db.lane
    BY <1>1, <1>3, CancelUnsentCloses
<1> QED BY <1>1, <1>2, <1>4, OwnerStep

\* The owner's verified address changes.
LEMMA ChangeAddressStep ==
    ASSUME Inv, ChangeAddress
    PROVE  Inv' /\ Locally
<1>1. /\ MayChange /\ Change /\ recipient' = recipient + 1 /\ pref' = pref
      /\ UNCHANGED <<account, topology, worker, history>>
      /\ db' = LET ds == InState(db, Unsent) IN ForDigests(Detach(db, ds), ds, Cancelled)
    BY DEF ChangeAddress
<1>2. db \in Tables /\ pref \in [consent : Consent, at : {pref.at, pref.at + 1}]
    BY DEF Inv, MailInv, SettingsTyped
<1>3. Closes(db, db', InState(db, Unsent)) /\ db'.fence = db.fence /\ db'.lane = db.lane
    BY <1>1, <1>2, AddressCloses
<1> QED BY <1>1, <1>2, <1>3, OwnerStep

\* The owner closes the account.
LEMMA CloseAccountStep ==
    ASSUME Inv, CloseAccount
    PROVE  Inv' /\ Locally
<1>0. TopologyInv /\ SettingsTyped /\ WorkersTyped /\ MailInv(db) /\ Answered
    BY DEF Inv
<1>1. /\ Change /\ account' = FALSE /\ db' = db
      /\ UNCHANGED <<pref, recipient>> /\ UNCHANGED <<topology, history>> /\ UNCHANGED worker
    BY DEF CloseAccount
<1>2. changes \in Nat /\ changes' = changes + 1 /\ changes' \in 0..MaxChange /\ changes' >= changes
    BY <1>0, <1>1, MailAssumption DEF Change, TopologyInv, TopologyTyped
<1>3. TopologyInv'
    BY <1>0, <1>1, <1>2, TopologySame
<1>4. SettingsTyped'
  <2>1. account' \in BOOLEAN
      BY <1>1
  <2>2. /\ pref' \in [consent : Consent, at : 0..MaxChange] /\ recipient' \in 0..MaxChange
        /\ pref.at <= changes /\ recipient <= changes /\ pref' = pref /\ recipient' = recipient
        /\ pref.at \in Nat /\ recipient \in Nat
      BY <1>0, <1>1, MailAssumption DEF SettingsTyped
  <2>3. pref'.at <= changes' /\ recipient' <= changes'
      BY <1>2, <2>2
  <2> QED BY <2>1, <2>2, <2>3 DEF SettingsTyped
<1>5. MailInv(db)' /\ WorkersTyped' /\ Answered'
    BY <1>0, <1>1, OwnerSame
<1>6. Locally
    BY <1>1 DEF Locally, Local, Moves, history
<1> QED BY <1>3, <1>4, <1>5, <1>6 DEF Inv

-----------------------------------------------------------------------------
(* Memories.                                                               *)

\* The parts of the invariant that a change of the memories does not touch, and
\* those of them that a memory with a brief hands on.
MailCore(t) ==
    /\ t \in Tables
    /\ RowShape(t) /\ LaneShape(t) /\ Consented(t) /\ Joined(t) /\ Covered(t) /\ Apart(t)
    /\ Inherited(t) /\ Unassigned(t) /\ Holders(t) /\ Acted(t) /\ CoverageTrue(t)
    /\ ReceiptTrue(t)

\* A change of the memories and of the tables.
LEMMA MemoryStep ==
    ASSUME SettingsTyped, WorkersTyped, Answered, NEW u, MailCore(u), db' = u,
           UNCHANGED <<settings, worker, history>>, changes' >= changes,
           changes \in Nat, changes' \in Nat,
           Organized(db)', ErasedIsGone(db)', DeletedOut(db)',
           \A s \in Sources : HasBrief(u, s) => HasBrief(db, s)'
    PROVE  SettingsTyped' /\ WorkersTyped' /\ Answered' /\ MailInv(db)'
<1>0. /\ u \in Tables
      /\ RowShape(u) /\ LaneShape(u) /\ Consented(u) /\ Joined(u) /\ Covered(u) /\ Apart(u)
      /\ Inherited(u) /\ Unassigned(u) /\ Holders(u) /\ Acted(u) /\ CoverageTrue(u)
      /\ ReceiptTrue(u)
    BY DEF MailCore
<1>1. SettingsTyped'
  <2>1. /\ account' = account /\ pref' = pref /\ recipient' = recipient
        /\ pref.at \in Nat /\ recipient \in Nat
      BY MailAssumption DEF settings, SettingsTyped
  <2>2. pref'.at <= changes' /\ recipient' <= changes'
      BY <2>1 DEF SettingsTyped
  <2> QED BY <2>1, <2>2 DEF SettingsTyped
<1>2. WorkersTyped' /\ Answered'
    BY DEF WorkersTyped, Answered, Holding, worker, history
<1>3. (db \in Tables)' /\ RowShape(db)' /\ LaneShape(db)' /\ Consented(db)'
  <2>1. (db \in Tables)' /\ RowShape(db)'
      BY <1>0 DEF RowShape
  <2>2. LaneShape(db)' /\ Consented(db)'
      BY <1>0 DEF LaneShape, Consented, InState, settings
  <2> QED BY <2>1, <2>2
<1>4. Joined(db)' /\ Covered(db)' /\ Apart(db)'
  <2>1. Joined(db)'
      BY <1>0 DEF Joined, Named
  <2>2. Covered(db)' /\ Apart(db)'
      BY <1>0 DEF Covered, Apart, InState, BelongsTo, Named
  <2> QED BY <2>1, <2>2
<1>5. Unassigned(db)' /\ Acted(db)' /\ CoverageTrue(db)' /\ ReceiptTrue(db)'
    BY <1>0 DEF Unassigned, Acted, CoverageTrue, ReceiptTrue, history
<1>6. Holders(db)'
    BY <1>0 DEF Holders, Holding, Held, Named, worker
<1>7. Inherited(db)'
  <2>1. ASSUME NEW d \in Days, NEW s \in Named(u.dlv[d].snapshot) PROVE HasBrief(db, s)'
    <3>1. s \in Sources
        BY <1>0, <2>1, TablesFacts, NamedFacts DEF Digests
    <3> QED BY <1>0, <2>1, <3>1 DEF Inherited
  <2>2. ASSUME NEW w \in Workers, pc[w] # "idle", NEW s \in Named(cand[w].snapshot)
        PROVE  HasBrief(db, s)'
    <3>1. s \in Sources
        BY <2>2, NamedFacts DEF WorkersTyped, Candidates
    <3> QED BY <1>0, <2>2, <3>1 DEF Inherited
  <2>3. ASSUME NEW p \in mailed PROVE HasBrief(db, p[2])'
    <3>1. p[2] \in Sources
        BY <2>3 DEF WorkersTyped
    <3> QED BY <1>0, <2>3, <3>1 DEF Inherited
  <2> QED BY <2>1, <2>2, <2>3 DEF Inherited, Named, worker, history
<1> QED BY <1>1, <1>2, <1>3, <1>4, <1>5, <1>6, <1>7 DEF MailInv

\* What is active is in use.
LEMMA StatusFacts ==
    /\ Active \subseteq MemoryState /\ "none" \notin Active /\ "deleted" \notin Active
    /\ "superseded" \notin Active /\ Finalized \subseteq Active
    /\ "draft" \in Active /\ "pending" \in Active /\ "claimed" \in Active
    /\ "draft" \notin Finalized /\ "pending" \notin Finalized /\ "claimed" \notin Finalized
    /\ "complete" \in Finalized /\ "rewriting" \in Finalized /\ "deferred" \in Finalized
    /\ "none" \in MemoryState /\ "deleted" \in MemoryState /\ "superseded" \in MemoryState
    /\ Active \cap Retired = {} /\ "none" \notin Retired
BY DEF Active, Finalized, MemoryState, Retired

\* A memory goes on to another state of finalization.
LEMMA StatusKeeps ==
    ASSUME Inv, NEW m \in Memories, mem[m] \in Active, NEW x \in Active,
           mem[m] \in Finalized => x \in Finalized,
           mem' = [mem EXCEPT ![m] = x], UNCHANGED <<members, lineage, heir>>,
           asked' \in [Memories -> Consent], revision' \in [Memories -> Nat],
           RevisionsAreChanges', changes' \in 0..MaxChange, changes' >= changes,
           NEW u, MailInv(u), db' = u, UNCHANGED <<settings, worker, history>>
    PROVE  TopologyInv' /\ SettingsTyped' /\ WorkersTyped' /\ Answered' /\ MailInv(db)'
<1> USE StatusFacts
<1>0. TopologyInv /\ SettingsTyped /\ WorkersTyped /\ Answered
    BY DEF Inv
<1>1. mem \in [Memories -> MemoryState] /\ members \in [Memories -> SUBSET Sources]
    BY <1>0 DEF TopologyInv, TopologyTyped
<1>2. /\ mem'[m] = x /\ \A n \in Memories : n # m => mem'[n] = mem[n]
      /\ mem' \in [Memories -> MemoryState] /\ Used' = Used
    BY <1>1 DEF Used
<1>3. TopologyInv'
  <2>1. TopologyTyped'
      BY <1>0, <1>2 DEF TopologyInv, TopologyTyped
  <2>2. IdsInOrder'
      BY <1>0, <1>2 DEF TopologyInv, IdsInOrder
  <2>3. OwnersAreActive' /\ OneMemory'
      BY <1>0, <1>2 DEF TopologyInv, OwnersAreActive, OneMemory
  <2>4. AncestorsRetired'
    <3>1. \A n \in Memories : m \notin lineage[n] /\ lineage[n] \subseteq Memories
        BY <1>0 DEF TopologyInv, TopologyTyped, AncestorsRetired
    <3> QED BY <1>0, <1>2, <3>1 DEF TopologyInv, AncestorsRetired
  <2> QED BY <2>1, <2>2, <2>3, <2>4 DEF TopologyInv
<1>4. \A n \in Memories : /\ mem[n] \in Finalized => mem'[n] \in Finalized
                          /\ mem'[n] = "deleted" => mem[n] = "deleted"
    BY <1>2
<1>5. MailCore(u) /\ Organized(u) /\ ErasedIsGone(u) /\ DeletedOut(u) /\ u \in Tables
    BY DEF MailInv, MailCore
<1>6. \A d \in Days : \A b \in u.dlv[d].snapshot : b.id \in Memories
    BY <1>5, TablesFacts DEF Digests, Briefs
<1>7. Organized(db)' /\ DeletedOut(db)'
  <2>1. ASSUME NEW b, Traceable(b), b.id \in Memories PROVE Traceable(b)'
      BY <1>4, <2>1 DEF Traceable, Line
  <2>2. DeletedOut(db)'
      BY <1>5, <1>6, <2>1 DEF DeletedOut
  <2>3. Organized(db)'
      BY <1>4, <1>5, <1>6 DEF Organized, InState
  <2> QED BY <2>2, <2>3
<1>8. ErasedIsGone(db)'
    BY <1>5 DEF ErasedIsGone, Owned
<1>9. \A s \in Sources : HasBrief(u, s) => HasBrief(db, s)'
    BY <1>4 DEF HasBrief, Owned
<1>10. changes \in Nat /\ changes' \in Nat
    BY <1>0, MailAssumption DEF TopologyInv, TopologyTyped
<1> QED BY <1>0, <1>3, <1>5, <1>7, <1>8, <1>9, <1>10, MemoryStep

\* The finalizer takes a memory.
LEMMA FinalizeClaimStep ==
    ASSUME Inv, NEW m \in Memories, FinalizeClaim(m)
    PROVE  Inv' /\ Locally
<1>0. TopologyInv /\ SettingsTyped /\ MailInv(db)
    BY DEF Inv
<1>1. /\ mem[m] = "pending" /\ mem' = [mem EXCEPT ![m] = "claimed"]
      /\ asked' = [asked EXCEPT ![m] = pref.consent] /\ revision' = revision /\ changes' = changes
      /\ db' = db /\ UNCHANGED <<members, lineage, heir>> /\ UNCHANGED <<settings, worker, history>>
    BY DEF FinalizeClaim
<1>2. /\ mem[m] \in Active /\ "claimed" \in Active /\ mem[m] \notin Finalized
      /\ asked' \in [Memories -> Consent] /\ revision' \in [Memories -> Nat]
      /\ changes' \in 0..MaxChange /\ changes' >= changes
    BY <1>0, <1>1, StatusFacts DEF TopologyInv, TopologyTyped, SettingsTyped
<1>3. RevisionsAreChanges'
    BY <1>0, <1>1 DEF TopologyInv, TopologyTyped, RevisionsAreChanges
<1>4. TopologyInv' /\ SettingsTyped' /\ WorkersTyped' /\ Answered' /\ MailInv(db)'
    BY <1>0, <1>1, <1>2, <1>3, StatusKeeps
<1>5. Locally
    BY <1>1 DEF Locally, Local, Moves, history
<1> QED BY <1>4, <1>5 DEF Inv

\* A brief is written again.
LEMMA RewriteClaimStep ==
    ASSUME Inv, NEW m \in Memories, RewriteClaim(m)
    PROVE  Inv' /\ Locally
<1>0. TopologyInv /\ SettingsTyped /\ MailInv(db)
    BY DEF Inv
<1>1. /\ mem[m] \in {"complete", "deferred"} /\ mem' = [mem EXCEPT ![m] = "rewriting"]
      /\ asked' = asked /\ revision' = revision /\ changes < MaxChange /\ changes' = changes + 1
      /\ db' = db /\ UNCHANGED <<members, lineage, heir>> /\ UNCHANGED <<settings, worker, history>>
    BY DEF RewriteClaim, Change
<1>2. /\ mem[m] \in Active /\ "rewriting" \in Active /\ "rewriting" \in Finalized
      /\ asked' \in [Memories -> Consent] /\ revision' \in [Memories -> Nat]
      /\ changes \in Nat /\ changes' \in 0..MaxChange /\ changes' >= changes
    BY <1>0, <1>1, StatusFacts, MailAssumption DEF TopologyInv, TopologyTyped
<1>3. RevisionsAreChanges'
  <2>1. ASSUME NEW n \in Memories PROVE revision'[n] <= changes'
    <3>1. revision[n] \in Nat /\ revision[n] <= changes + 1
        BY <1>0 DEF TopologyInv, TopologyTyped, RevisionsAreChanges
    <3> QED BY <1>1, <1>2, <3>1
  <2>2. \A n \in Memories : revision'[n] \in Nat
      BY <1>2
  <2> QED BY <1>1, <1>2, <2>1, <2>2 DEF RevisionsAreChanges
<1>4. TopologyInv' /\ SettingsTyped' /\ WorkersTyped' /\ Answered' /\ MailInv(db)'
    BY <1>0, <1>1, <1>2, <1>3, StatusKeeps
<1>5. Locally
    BY <1>1 DEF Locally, Local, Moves, history
<1> QED BY <1>4, <1>5 DEF Inv

\* The new brief is settled, or put off.
LEMMA RewriteSettleStep ==
    ASSUME Inv, NEW m \in Memories, RewriteSettle(m)
    PROVE  Inv' /\ Locally
<1>0. TopologyInv /\ SettingsTyped /\ MailInv(db)
    BY DEF Inv
<1>1. /\ mem[m] = "rewriting" /\ asked' = asked /\ changes' = changes
      /\ db' = db /\ UNCHANGED <<members, lineage, heir>> /\ UNCHANGED <<settings, worker, history>>
    BY DEF RewriteSettle
<1>2. /\ mem[m] \in Active /\ asked' \in [Memories -> Consent]
      /\ changes \in Nat /\ changes' \in 0..MaxChange /\ changes' >= changes
      /\ mem \in [Memories -> MemoryState] /\ revision \in [Memories -> Nat]
    BY <1>0, <1>1, StatusFacts, MailAssumption DEF TopologyInv, TopologyTyped
<1>3. \A n \in Memories : /\ revision[n] \in Nat /\ revision[n] <= changes + 1
                          /\ mem[n] = "rewriting" => revision[n] <= changes
    BY <1>0, <1>2 DEF TopologyInv, RevisionsAreChanges
<1>4. PICK x \in {"complete", "deferred"} :
         /\ mem' = [mem EXCEPT ![m] = x]
         /\ revision' = [revision EXCEPT ![m] = @ + 1] \/ revision' = revision
    BY DEF RewriteSettle
<1>5. x \in Active /\ x \in Finalized
    BY StatusFacts
<1>6. revision' \in [Memories -> Nat] /\ RevisionsAreChanges'
  <2>1. /\ mem'[m] = x /\ revision' \in [Memories -> Nat]
        /\ \A n \in Memories : n # m => mem'[n] = mem[n] /\ revision'[n] = revision[n]
        /\ revision'[m] \in {revision[m], revision[m] + 1}
      BY <1>2, <1>3, <1>4
  <2>2. ASSUME NEW n \in Memories
        PROVE  /\ revision'[n] <= changes' + 1
               /\ mem'[n] = "rewriting" => revision'[n] <= changes'
    <3>1. CASE n # m
        BY <1>1, <1>3, <2>1, <3>1
    <3>2. CASE n = m
        BY <1>1, <1>2, <1>3, <1>4, <2>1, <3>2
    <3> QED BY <3>1, <3>2
  <2> QED BY <2>1, <2>2 DEF RevisionsAreChanges
<1>7. TopologyInv' /\ SettingsTyped' /\ WorkersTyped' /\ Answered' /\ MailInv(db)'
    BY <1>0, <1>1, <1>2, <1>4, <1>5, <1>6, StatusKeeps
<1>8. Locally
    BY <1>1 DEF Locally, Local, Moves, history
<1> QED BY <1>7, <1>8 DEF Inv

\* The first brief of the memory m gives coverage rows to evidence without one.
Enqueues(t, u, m) ==
    /\ u \in Tables /\ u.dlv = t.dlv /\ u.fence = t.fence /\ u.lane = t.lane
    /\ \A s \in Sources :
          \/ u.src[s] = t.src[s]
          \/ /\ s \in members[m] /\ t.src[s].state = "none"
             /\ u.src[s].state = "pending" /\ u.src[s].delivery = 0

\* That is what the statement does.
LEMMA EnqueueFacts ==
    ASSUME NEW t \in Tables, Unassigned(t), NEW m \in Memories
    PROVE  Enqueues(t, EnqueueBrief(t, m), m)
<1> DEFINE row(s) == IF s \in members[m] /\ pref.consent # "off" /\ t.src[s].state = "none"
                     THEN [t.src[s] EXCEPT !.state = "pending", !.content = asked[m] = "content"]
                     ELSE t.src[s]
           src == [s \in Sources |-> row(s)]
           u == [t EXCEPT !.src = src]
<1>1. EnqueueBrief(t, m) = u
    BY DEF EnqueueBrief
<1>2. ASSUME NEW s \in Sources
      PROVE  /\ row(s) \in SourceRows
             /\ \/ row(s) = t.src[s]
                \/ /\ s \in members[m] /\ t.src[s].state = "none"
                   /\ row(s).state = "pending" /\ row(s).delivery = 0
  <2>1. t.src[s] \in SourceRows
      BY TablesFacts
  <2>2. "pending" \in SourceState /\ (asked[m] = "content") \in BOOLEAN
      BY DEF SourceState
  <2>3. CASE s \in members[m] /\ pref.consent # "off" /\ t.src[s].state = "none"
    <3>1. t.src[s].delivery = 0
        BY <2>3 DEF Unassigned
    <3>2. PICK x \in BOOLEAN : x = (asked[m] = "content")
        BY <2>2
    <3>3. row(s) = [t.src[s] EXCEPT !.state = "pending", !.content = x]
        BY <2>3, <3>2
    <3> HIDE DEF row
    <3> QED BY <2>1, <2>2, <2>3, <3>1, <3>3 DEF SourceRows
  <2>4. CASE ~(s \in members[m] /\ pref.consent # "off" /\ t.src[s].state = "none")
      BY <2>1, <2>4
  <2> QED BY <2>3, <2>4
<1>3. src \in [Sources -> SourceRows] /\ \A s \in Sources : src[s] = row(s)
    BY <1>2
<1> HIDE DEF row, src
<1>4. u \in Tables /\ u.src = src /\ u.dlv = t.dlv /\ u.fence = t.fence /\ u.lane = t.lane
    BY <1>3 DEF Tables
<1> HIDE DEF u
<1> QED BY <1>1, <1>2, <1>3, <1>4 DEF Enqueues

\* Evidence of a memory without a brief and without an ancestor that had one is
\* in no digest, in no request and was not mailed; so coverage begins with it.
LEMMA EnqueueKeeps ==
    ASSUME WorkersTyped, NEW t, MailInv(t), NEW m \in Memories, mem[m] = "claimed", ~heir[m],
           NEW u, Enqueues(t, u, m)
    PROVE  MailInv(u)
<1>0. /\ u \in Tables /\ u.dlv = t.dlv /\ u.fence = t.fence /\ u.lane = t.lane
      /\ \A s \in Sources :
            \/ u.src[s] = t.src[s]
            \/ /\ s \in members[m] /\ t.src[s].state = "none"
               /\ u.src[s].state = "pending" /\ u.src[s].delivery = 0
    BY DEF Enqueues
<1>1. /\ t \in Tables
      /\ RowShape(t) /\ LaneShape(t) /\ Consented(t) /\ Organized(t)
      /\ Joined(t) /\ Covered(t) /\ Apart(t) /\ Inherited(t) /\ ErasedIsGone(t) /\ Unassigned(t)
      /\ Holders(t) /\ Acted(t) /\ CoverageTrue(t) /\ ReceiptTrue(t) /\ DeletedOut(t)
    BY DEF MailInv
<1>2. \A s \in Sources : HasBrief(t, s) => u.src[s] = t.src[s]
    BY <1>0, StatusFacts DEF HasBrief
<1>3. \A s \in Sources : HasBrief(t, s) => HasBrief(u, s)
    BY <1>2 DEF HasBrief
<1>4. ASSUME NEW d \in Days, NEW s \in Named(t.dlv[d].snapshot)
      PROVE  s \in Sources /\ HasBrief(t, s) /\ u.src[s] = t.src[s]
  <2>1. s \in Sources
      BY <1>1, <1>4, TablesFacts, NamedFacts DEF Digests
  <2>2. HasBrief(t, s)
      BY <1>1, <1>4 DEF Inherited
  <2> QED BY <1>2, <2>1, <2>2
<1>5. ASSUME NEW w \in Workers, pc[w] # "idle", NEW s \in Named(cand[w].snapshot)
      PROVE  s \in Sources /\ HasBrief(t, s) /\ u.src[s] = t.src[s]
  <2>1. s \in Sources
      BY <1>5, NamedFacts DEF WorkersTyped, Candidates
  <2>2. HasBrief(t, s)
      BY <1>1, <1>5 DEF Inherited
  <2> QED BY <1>2, <2>1, <2>2
<1>6. ASSUME NEW p \in mailed
      PROVE  p[2] \in Sources /\ HasBrief(t, p[2]) /\ u.src[p[2]] = t.src[p[2]]
  <2>1. p[2] \in Sources
      BY <1>6 DEF WorkersTyped
  <2>2. HasBrief(t, p[2])
      BY <1>1, <1>6 DEF Inherited
  <2> QED BY <1>2, <2>1, <2>2
<1>7. RowShape(u) /\ LaneShape(u) /\ Consented(u) /\ Organized(u) /\ DeletedOut(u)
    BY <1>0, <1>1 DEF RowShape, LaneShape, Consented, Organized, DeletedOut, InState
<1>8. Joined(u)
    BY <1>0, <1>1 DEF Joined
<1>9. Covered(u)
  <2>1. ASSUME NEW d \in InState(u, Open), NEW s \in Named(u.dlv[d].snapshot)
        PROVE  BelongsTo(u, s, d)
    <3>1. d \in InState(t, Open) /\ d \in Days /\ s \in Named(t.dlv[d].snapshot)
        BY <1>0, <2>1 DEF InState
    <3>2. BelongsTo(t, s, d) /\ u.src[s] = t.src[s]
        BY <1>1, <1>4, <3>1 DEF Covered
    <3> QED BY <3>2 DEF BelongsTo
  <2> QED BY <2>1 DEF Covered
<1>10. Apart(u)
  <2>1. ASSUME NEW d \in InState(u, Open), NEW b \in u.dlv[d].snapshot, NEW c \in u.dlv[d].snapshot,
               b # c, NEW s \in b.members \cap c.members
        PROVE  u.src[s].state \in {"none", "erased"}
    <3>1. d \in InState(t, Open) /\ d \in Days /\ b \in t.dlv[d].snapshot /\ c \in t.dlv[d].snapshot
        BY <1>0, <2>1 DEF InState
    <3>2. s \in Named(t.dlv[d].snapshot)
        BY <2>1, <3>1 DEF Named
    <3>3. t.src[s].state \in {"none", "erased"}
        BY <1>1, <2>1, <3>1 DEF Apart
    <3> QED BY <1>4, <3>1, <3>2, <3>3
  <2> QED BY <2>1 DEF Apart
<1>11. Inherited(u)
    BY <1>0, <1>3, <1>4, <1>5, <1>6 DEF Inherited
<1>12. ErasedIsGone(u) /\ Unassigned(u) /\ ReceiptTrue(u)
    BY <1>0, <1>1 DEF ErasedIsGone, Unassigned, ReceiptTrue
<1>13. Holders(u)
  <2>1. ASSUME NEW w \in Workers, Holding(w) PROVE Held(u, w)
    <3>1. Held(t, w) /\ pc[w] # "idle"
        BY <1>1, <2>1 DEF Holders, Holding
    <3>2. \A s \in Named(cand[w].snapshot) : u.src[s] = t.src[s]
        BY <1>5, <3>1
    <3> QED BY <1>0, <3>1, <3>2 DEF Held
  <2> QED BY <1>1, <2>1 DEF Holders
<1>14. Acted(u) /\ CoverageTrue(u)
    BY <1>0, <1>1, <1>6 DEF Acted, CoverageTrue
<1> QED BY <1>0, <1>7, <1>8, <1>9, <1>10, <1>11, <1>12, <1>13, <1>14 DEF MailInv

\* The first brief is settled, or put off.
LEMMA FinalizeSettleStep ==
    ASSUME Inv, NEW m \in Memories, FinalizeSettle(m)
    PROVE  Inv' /\ Locally
<1>0. TopologyInv /\ SettingsTyped /\ WorkersTyped /\ MailInv(db)
    BY DEF Inv
<1>1. /\ mem[m] = "claimed" /\ asked' = [asked EXCEPT ![m] = "off"] /\ changes' = changes
      /\ UNCHANGED <<members, lineage, heir>> /\ UNCHANGED <<settings, worker, history>>
    BY DEF FinalizeSettle
<1>2. /\ mem[m] \in Active /\ mem[m] \notin Finalized /\ asked' \in [Memories -> Consent]
      /\ changes \in Nat /\ changes' \in 0..MaxChange /\ changes' >= changes
      /\ mem \in [Memories -> MemoryState] /\ revision \in [Memories -> Nat]
    BY <1>0, <1>1, StatusFacts, MailAssumption DEF TopologyInv, TopologyTyped, Consent
<1>3. \A n \in Memories : /\ revision[n] \in Nat /\ revision[n] <= changes + 1
                          /\ mem[n] = "rewriting" => revision[n] <= changes
    BY <1>0, <1>2 DEF TopologyInv, RevisionsAreChanges
<1>4. PICK x \in {"complete", "pending"} :
         /\ mem' = [mem EXCEPT ![m] = x]
         /\ revision' = [revision EXCEPT ![m] = 1] \/ revision' = revision
         /\ db' = db \/ (~heir[m] /\ db' = EnqueueBrief(db, m))
    BY DEF FinalizeSettle
<1>5. x \in Active
    BY StatusFacts
<1>6. revision' \in [Memories -> Nat] /\ RevisionsAreChanges'
  <2>1. /\ mem'[m] = x /\ revision' \in [Memories -> Nat]
        /\ \A n \in Memories : n # m => mem'[n] = mem[n] /\ revision'[n] = revision[n]
        /\ revision'[m] \in {revision[m], 1}
      BY <1>2, <1>3, <1>4
  <2>2. ASSUME NEW n \in Memories
        PROVE  /\ revision'[n] <= changes' + 1
               /\ mem'[n] = "rewriting" => revision'[n] <= changes'
    <3>1. CASE n # m
        BY <1>1, <1>3, <2>1, <3>1
    <3>2. CASE n = m
        BY <1>1, <1>2, <1>3, <1>4, <2>1, <3>2
    <3> QED BY <3>1, <3>2
  <2> QED BY <2>1, <2>2 DEF RevisionsAreChanges
<1>7. PICK u : u = db'
    OBVIOUS
<1>8. MailInv(u) /\ u.dlv = db.dlv
  <2>1. CASE u = db
      BY <1>0, <2>1
  <2>2. CASE ~heir[m] /\ u = EnqueueBrief(db, m)
    <3>1. Enqueues(db, u, m)
        BY <1>0, <2>2, EnqueueFacts DEF MailInv
    <3> QED BY <1>0, <1>1, <2>2, <3>1, EnqueueKeeps DEF Enqueues
  <2> QED BY <1>4, <1>7, <2>1, <2>2
<1>9. TopologyInv' /\ SettingsTyped' /\ WorkersTyped' /\ Answered' /\ MailInv(db)'
    BY <1>1, <1>2, <1>4, <1>5, <1>6, <1>7, <1>8, StatusKeeps
<1>10. Locally
    BY <1>1, <1>7, <1>8 DEF Locally, Local, Moves, history
<1> QED BY <1>9, <1>10 DEF Inv

\* The memories in use are the first ones, and the next id is free.
LEMMA UsedFacts ==
    ASSUME TopologyInv
    PROVE  /\ IsFiniteSet(Used) /\ Cardinality(Used) \in Nat /\ Used = 1..Cardinality(Used)
           /\ Used \subseteq Memories /\ NextMemory = Cardinality(Used) + 1
           /\ NextMemory \notin Used
<1>1. Used \subseteq Memories /\ Memories \subseteq Nat
    BY MailAssumption DEF Used, Memories
<1> DEFINE free == {k \in Nat : k # 0 /\ k \notin Used}
<1>2. MaxMemory + 1 \in free
    BY <1>1, MailAssumption DEF Memories
<1>3. PICK k \in free : \A n \in free : k <= n
  <2>1. free \in SUBSET Nat /\ free # {}
      BY <1>2
  <2> HIDE DEF free
  <2> QED BY <2>1, SmallestFacts
<1>4. k \in Nat /\ k # 0 /\ k \notin Used /\ \A n \in free : ~(n < k)
    BY <1>3
<1>5. ASSUME NEW n \in 1..(k - 1) PROVE n \in Used
  <2>1. n \in Nat /\ n # 0 /\ n < k
      BY <1>4, <1>5
  <2> QED BY <1>4, <2>1
<1>6. ASSUME NEW n \in Used PROVE n \in 1..(k - 1)
  <2>1. n \in Nat /\ n # 0 /\ 1..n \subseteq Used
      BY <1>1, <1>6 DEF TopologyInv, IdsInOrder, Memories
  <2>2. ~(k <= n)
      BY <1>4, <2>1
  <2> QED BY <1>4, <2>1, <2>2
<1>7. Used = 1..(k - 1)
    BY <1>5, <1>6
<1>8. IsFiniteSet(Used) /\ Cardinality(Used) = k - 1
  <2>1. /\ IsFiniteSet(1..(k - 1))
        /\ Cardinality(1..(k - 1)) = IF 1 > k - 1 THEN 0 ELSE (k - 1) - 1 + 1
      BY <1>4, FS_Interval
  <2> QED BY <1>4, <1>7, <2>1
<1> QED BY <1>1, <1>4, <1>7, <1>8 DEF NextMemory

\* New evidence becomes a draft.
LEMMA FormStep ==
    ASSUME Inv, NEW s \in Sources, Form(s)
    PROVE  Inv' /\ Locally
<1> USE StatusFacts
<1> DEFINE k == NextMemory
<1>0. TopologyInv /\ SettingsTyped /\ WorkersTyped /\ Answered /\ MailInv(db)
    BY DEF Inv
<1>1. /\ ~Owned(s) /\ db.src[s].state # "erased" /\ k \in Memories
      /\ mem' = [mem EXCEPT ![k] = "draft"] /\ members' = [members EXCEPT ![k] = {s}]
      /\ UNCHANGED <<lineage, revision, heir, asked, changes>> /\ db' = db
      /\ UNCHANGED <<settings, worker, history>>
    BY DEF Form
<1>2. Used = 1..Cardinality(Used) /\ Cardinality(Used) \in Nat /\ k = Cardinality(Used) + 1 /\ k \notin Used
    BY <1>0, UsedFacts
<1> HIDE DEF k
<1>3. /\ mem \in [Memories -> MemoryState] /\ members \in [Memories -> SUBSET Sources]
      /\ revision \in [Memories -> Nat] /\ changes \in 0..MaxChange /\ changes \in Nat
      /\ heir \in [Memories -> BOOLEAN] /\ asked \in [Memories -> Consent]
      /\ lineage \in [Memories -> SUBSET Memories]
    BY <1>0, MailAssumption DEF TopologyInv, TopologyTyped
<1>4. mem[k] = "none" /\ members[k] = {}
    BY <1>0, <1>1, <1>2 DEF Used, TopologyInv, OwnersAreActive
<1>5. /\ mem'[k] = "draft" /\ members'[k] = {s}
      /\ \A n \in Memories : n # k => mem'[n] = mem[n] /\ members'[n] = members[n]
      /\ mem' \in [Memories -> MemoryState] /\ members' \in [Memories -> SUBSET Sources]
    BY <1>1, <1>3
<1>6. TopologyInv'
  <2>1. TopologyTyped'
      BY <1>1, <1>3, <1>5 DEF TopologyTyped
  <2>2. Used' = 1..k
    <3>1. Used' = Used \cup {k}
        BY <1>1, <1>5 DEF Used
    <3> QED BY <1>2, <3>1
  <2>3. IdsInOrder'
      BY <1>2, <2>2 DEF IdsInOrder
  <2>4. OwnersAreActive'
      BY <1>0, <1>5 DEF TopologyInv, OwnersAreActive
  <2>5. OneMemory'
      BY <1>0, <1>1, <1>5 DEF TopologyInv, OneMemory, Owned
  <2>6. RevisionsAreChanges'
      BY <1>0, <1>1, <1>5 DEF TopologyInv, RevisionsAreChanges
  <2>7. AncestorsRetired'
    <3>1. \A n \in Memories : k \notin lineage[n] /\ lineage[n] \subseteq Memories
        BY <1>0, <1>3, <1>4 DEF TopologyInv, AncestorsRetired
    <3> QED BY <1>0, <1>1, <1>5, <3>1 DEF TopologyInv, AncestorsRetired
  <2> QED BY <2>1, <2>3, <2>4, <2>5, <2>6, <2>7 DEF TopologyInv
<1>7. MailCore(db) /\ Organized(db) /\ ErasedIsGone(db) /\ DeletedOut(db) /\ db \in Tables
    BY <1>0 DEF MailInv, MailCore
<1>8. \A d \in Days : \A b \in db.dlv[d].snapshot : b.id \in Memories
    BY <1>7, TablesFacts DEF Digests, Briefs
<1>9. Organized(db)'
    BY <1>1, <1>4, <1>5, <1>7, <1>8 DEF Organized, InState
<1>10. DeletedOut(db)'
  <2>1. ASSUME NEW b, Traceable(b), b.id \in Memories PROVE Traceable(b)'
      BY <1>1, <1>4, <1>5, <2>1 DEF Traceable, Line
  <2> QED BY <1>1, <1>7, <1>8, <2>1 DEF DeletedOut
<1>11. \A q \in Sources : q # s => (Owned(q)' <=> Owned(q))
    BY <1>1, <1>4, <1>5 DEF Owned
<1>12. ErasedIsGone(db)'
    BY <1>1, <1>7, <1>11 DEF ErasedIsGone
<1>13. ASSUME NEW q \in Sources, HasBrief(db, q) PROVE HasBrief(db, q)'
  <2>1. q # s
      BY <1>1, <1>13 DEF HasBrief
  <2>2. (Owned(q) \/ db.src[q].state = "erased")'
      BY <1>1, <1>11, <1>13, <2>1 DEF HasBrief
  <2>3. \A n \in Memories : q \in members'[n] => mem'[n] \in Finalized \/ heir'[n]
      BY <1>1, <1>5, <1>13, <2>1 DEF HasBrief
  <2> QED BY <2>2, <2>3 DEF HasBrief
<1>14. SettingsTyped' /\ WorkersTyped' /\ Answered' /\ MailInv(db)'
  <2>1. changes' >= changes /\ changes' \in Nat
      BY <1>1, <1>3
  <2> QED BY <1>0, <1>1, <1>3, <1>7, <1>9, <1>10, <1>12, <1>13, <2>1, MemoryStep
<1>15. Locally
    BY <1>1 DEF Locally, Local, Moves, history
<1> QED BY <1>6, <1>14, <1>15 DEF Inv

\* The tables without the memories ms, whose evidence is gone: digests that
\* named one are cancelled or, once settled, lose their snapshot.
Naming(t, ms) == {d \in Days : \E b \in t.dlv[d].snapshot : b.id \in ms}
Erases(t, u, ms, gone) ==
    LET ds == Naming(t, ms)
    IN /\ u \in Tables /\ u.fence = t.fence /\ u.lane = t.lane
       /\ \A d \in Days :
             /\ d \notin ds => u.dlv[d] = t.dlv[d]
             /\ d \in ds => u.dlv[d].snapshot = {}
             /\ d \in ds /\ t.dlv[d].state \in Unsent => u.dlv[d].state = "cancelled"
             /\ d \in ds /\ t.dlv[d].state \notin Unsent =>
                   u.dlv[d].state = t.dlv[d].state /\ u.dlv[d].attempts = t.dlv[d].attempts
       /\ \A s \in Sources :
             /\ s \in gone => u.src[s].state = "erased" /\ u.src[s].delivery = 0
             /\ s \notin gone => IF t.src[s].state = "pending" /\ t.src[s].delivery \in ds
                                 THEN u.src[s].state = "pending" /\ u.src[s].delivery = 0
                                 ELSE u.src[s] = t.src[s]

\* The digests of a deleted memory.
ClearedTables(t, ds) ==
    ForDigests(Detach(t, ds), ds,
               LAMBDA r : IF r.state \in Unsent THEN Cancelled(r) ELSE [r EXCEPT !.snapshot = {}])

\* What clearing does, row by row.
LEMMA ClearedFacts ==
    ASSUME NEW t \in Tables, NEW ds
    PROVE  LET u == ClearedTables(t, ds)
           IN /\ u \in Tables /\ u.fence = t.fence /\ u.lane = t.lane
              /\ \A d \in Days :
                    /\ d \notin ds => u.dlv[d] = t.dlv[d]
                    /\ d \in ds => u.dlv[d].snapshot = {}
                    /\ d \in ds /\ t.dlv[d].state \in Unsent => u.dlv[d].state = "cancelled"
                    /\ d \in ds /\ t.dlv[d].state \notin Unsent =>
                          u.dlv[d].state = t.dlv[d].state /\ u.dlv[d].attempts = t.dlv[d].attempts
              /\ \A s \in Sources :
                    IF t.src[s].state = "pending" /\ t.src[s].delivery \in ds
                    THEN u.src[s].state = "pending" /\ u.src[s].delivery = 0
                    ELSE u.src[s] = t.src[s]
<1> DEFINE v == Detach(t, ds)
           clear(r) == IF r.state \in Unsent
                       THEN [r EXCEPT !.state = "cancelled", !.snapshot = {},
                                      !.considered = {}, !.timer = "wait"]
                       ELSE [r EXCEPT !.snapshot = {}]
           row(d) == IF d \in ds THEN clear(v.dlv[d]) ELSE v.dlv[d]
           dlv == [d \in Days |-> row(d)]
           u == [v EXCEPT !.dlv = dlv]
<1>1. ClearedTables(t, ds) = u
    BY DEF ClearedTables, ForDigests, Cancelled
<1>2. /\ v \in Tables /\ v.dlv = t.dlv /\ v.fence = t.fence /\ v.lane = t.lane
      /\ \A s \in Sources :
            IF t.src[s].state = "pending" /\ t.src[s].delivery \in ds
            THEN v.src[s].state = "pending" /\ v.src[s].delivery = 0
            ELSE v.src[s] = t.src[s]
    BY DetachFacts
<1> HIDE DEF v
<1>3. ASSUME NEW d \in Days
      PROVE  /\ row(d) \in Digests
             /\ d \notin ds => row(d) = t.dlv[d]
             /\ d \in ds => row(d).snapshot = {}
             /\ d \in ds /\ t.dlv[d].state \in Unsent => row(d).state = "cancelled"
             /\ d \in ds /\ t.dlv[d].state \notin Unsent =>
                   row(d).state = t.dlv[d].state /\ row(d).attempts = t.dlv[d].attempts
  <2>1. v.dlv[d] \in Digests /\ v.dlv[d] = t.dlv[d]
      BY <1>2, TablesFacts
  <2>2. "cancelled" \in DeliveryState /\ "wait" \in Timer
      BY DEF DeliveryState, Timer
  <2>3. CASE d \in ds /\ v.dlv[d].state \in Unsent
      BY <2>1, <2>2, <2>3 DEF Digests
  <2>4. CASE d \in ds /\ v.dlv[d].state \notin Unsent
      BY <2>1, <2>4 DEF Digests
  <2>5. CASE d \notin ds
      BY <2>1, <2>5
  <2> QED BY <2>3, <2>4, <2>5
<1>4. dlv \in [Days -> Digests] /\ \A d \in Days : dlv[d] = row(d)
    BY <1>3
<1> HIDE DEF row, dlv
<1>5. u \in Tables /\ u.src = v.src /\ u.dlv = dlv /\ u.fence = v.fence /\ u.lane = v.lane
    BY <1>2, <1>4 DEF Tables
<1> HIDE DEF u
<1> QED BY <1>1, <1>2, <1>3, <1>4, <1>5

\* The tables after a deletion.
ErasedTables(t, ds, gone) ==
    LET cleared == ClearedTables(t, ds)
    IN [cleared EXCEPT !.src = [s \in Sources |->
            IF s \in gone
            THEN [cleared.src[s] EXCEPT !.state = "erased", !.content = FALSE, !.delivery = 0]
            ELSE cleared.src[s]]]

\* They are as described.
LEMMA ErasedFacts ==
    ASSUME NEW t \in Tables, NEW ms, NEW gone
    PROVE  Erases(t, ErasedTables(t, Naming(t, ms), gone), ms, gone)
<1> DEFINE ds == Naming(t, ms)
           v == ClearedTables(t, ds)
           row(s) == IF s \in gone
                     THEN [v.src[s] EXCEPT !.state = "erased", !.content = FALSE, !.delivery = 0]
                     ELSE v.src[s]
           src == [s \in Sources |-> row(s)]
           u == [v EXCEPT !.src = src]
<1>1. ErasedTables(t, ds, gone) = u
    BY DEF ErasedTables
<1>2. /\ v \in Tables /\ v.fence = t.fence /\ v.lane = t.lane
      /\ \A d \in Days :
            /\ d \notin ds => v.dlv[d] = t.dlv[d]
            /\ d \in ds => v.dlv[d].snapshot = {}
            /\ d \in ds /\ t.dlv[d].state \in Unsent => v.dlv[d].state = "cancelled"
            /\ d \in ds /\ t.dlv[d].state \notin Unsent =>
                  v.dlv[d].state = t.dlv[d].state /\ v.dlv[d].attempts = t.dlv[d].attempts
      /\ \A s \in Sources :
            IF t.src[s].state = "pending" /\ t.src[s].delivery \in ds
            THEN v.src[s].state = "pending" /\ v.src[s].delivery = 0
            ELSE v.src[s] = t.src[s]
  <2> HIDE DEF ds
  <2> QED BY ClearedFacts
<1> HIDE DEF v
<1>3. ASSUME NEW s \in Sources
      PROVE  /\ row(s) \in SourceRows
             /\ s \in gone => row(s).state = "erased" /\ row(s).delivery = 0
             /\ s \notin gone => row(s) = v.src[s]
  <2>1. v.src[s] \in SourceRows /\ "erased" \in SourceState
      BY <1>2, TablesFacts DEF SourceState
  <2> QED BY <2>1 DEF SourceRows
<1>4. src \in [Sources -> SourceRows] /\ \A s \in Sources : src[s] = row(s)
    BY <1>3
<1> HIDE DEF row, src
<1>5. u \in Tables /\ u.src = src /\ u.dlv = v.dlv /\ u.fence = v.fence /\ u.lane = v.lane
    BY <1>2, <1>4 DEF Tables
<1> HIDE DEF u
<1>6. Erases(t, u, ms, gone)
    BY <1>2, <1>3, <1>4, <1>5 DEF Erases
<1> QED BY <1>1, <1>6

\* Deletion loses no receipt: what may have been mailed is in flight, which
\* stops a deletion, or has its outcome.
LEMMA EraseKeeps ==
    ASSUME WorkersTyped, NEW t, MailInv(t), NEW ms, NEW gone, NEW u, Erases(t, u, ms, gone),
           \A d \in InState(t, {"processing"}) : \A b \in t.dlv[d].snapshot : b.id \notin ms
    PROVE  MailCore(u) /\ Moved(t, u)
<1> USE OpenFacts
<1> DEFINE ds == Naming(t, ms)
<1>0. /\ u \in Tables /\ u.fence = t.fence /\ u.lane = t.lane /\ ds \subseteq Days
      /\ \A d \in Days :
            /\ d \notin ds => u.dlv[d] = t.dlv[d]
            /\ d \in ds => u.dlv[d].snapshot = {}
            /\ d \in ds /\ t.dlv[d].state \in Unsent => u.dlv[d].state = "cancelled"
            /\ d \in ds /\ t.dlv[d].state \notin Unsent =>
                  u.dlv[d].state = t.dlv[d].state /\ u.dlv[d].attempts = t.dlv[d].attempts
      /\ \A s \in Sources :
            /\ s \in gone => u.src[s].state = "erased" /\ u.src[s].delivery = 0
            /\ s \notin gone => IF t.src[s].state = "pending" /\ t.src[s].delivery \in ds
                                THEN u.src[s].state = "pending" /\ u.src[s].delivery = 0
                                ELSE u.src[s] = t.src[s]
    BY DEF Erases, Naming
<1>1. /\ t \in Tables
      /\ RowShape(t) /\ LaneShape(t) /\ Consented(t) /\ Organized(t)
      /\ Joined(t) /\ Covered(t) /\ Apart(t) /\ Inherited(t) /\ ErasedIsGone(t) /\ Unassigned(t)
      /\ Holders(t) /\ Acted(t) /\ CoverageTrue(t) /\ ReceiptTrue(t) /\ DeletedOut(t)
    BY DEF MailInv
<1>2. \A d \in ds : t.dlv[d].state # "processing" /\ t.dlv[d].state # "none"
  <2>1. \A d \in ds : t.dlv[d].state # "processing"
      BY DEF InState, Naming
  <2>2. \A d \in ds : t.dlv[d].state # "none"
      BY <1>1 DEF RowShape, Naming
  <2> QED BY <2>1, <2>2
<1> HIDE DEF ds
<1>3. \A d \in Days : u.dlv[d].state \in Open => d \notin ds /\ u.dlv[d] = t.dlv[d]
    BY <1>0, <1>2
<1>4. \A d \in Days : t.dlv[d].state = "processing" => u.dlv[d] = t.dlv[d]
    BY <1>0, <1>2
<1>5. \A s \in Sources : t.src[s].state \in {"none", "erased"} => u.src[s].state \in {"none", "erased"}
    BY <1>0
<1>6. RowShape(u)
  <2>1. ASSUME NEW d \in ds, u.dlv[d].state \in {"assembling", "pending", "none", "retry_wait", "processing"}
        PROVE  FALSE
      BY <1>0, <1>2, <2>1
  <2>2. ASSUME NEW d \in Days
        PROVE  /\ u.dlv[d].state = "none" => u.dlv[d].snapshot = {}
               /\ u.dlv[d].state \in {"none", "assembling", "pending"} => u.dlv[d].attempts = 0
               /\ u.dlv[d].state = "retry_wait" => u.dlv[d].attempts < MAX_ATTEMPTS
               /\ u.dlv[d].state = "processing" =>
                     u.dlv[d].token = <<d, u.dlv[d].attempts>> /\ u.dlv[d].attempts # 0
    <3>1. CASE d \in ds
        BY <2>1, <3>1
    <3>2. CASE d \notin ds
        BY <1>0, <1>1, <3>2 DEF RowShape
    <3> QED BY <3>1, <3>2
  <2> QED BY <2>2 DEF RowShape
<1>7. LaneShape(u)
  <2>1. \A d \in Days : /\ u.dlv[d].state = "processing" <=> t.dlv[d].state = "processing"
                        /\ u.dlv[d].state = "processing" => u.dlv[d].token = t.dlv[d].token
      BY <1>3, <1>4
  <2> QED BY <1>0, <1>1, <2>1, SameLane
<1>8. Consented(u)
    BY <1>1, <1>3 DEF Consented, InState
<1>9. Joined(u)
  <2>1. ASSUME NEW s \in Sources, u.src[s].state = "pending", u.src[s].delivery # 0
        PROVE  /\ u.dlv[u.src[s].delivery].state \in Open
               /\ s \in Named(u.dlv[u.src[s].delivery].snapshot)
    <3>1. s \notin gone /\ u.src[s] = t.src[s] /\ u.src[s].delivery \notin ds
        BY <1>0, <2>1
    <3>2. u.src[s].delivery \in Days
        BY <1>0, <2>1, TablesFacts DEF SourceRows
    <3> QED BY <1>0, <1>1, <2>1, <3>1, <3>2 DEF Joined
  <2> QED BY <2>1 DEF Joined
<1>10. Covered(u)
  <2>1. ASSUME NEW d \in Days, u.dlv[d].state \in Open, NEW s \in Named(u.dlv[d].snapshot)
        PROVE  BelongsTo(u, s, d)
    <3>1. d \notin ds /\ u.dlv[d] = t.dlv[d]
        BY <1>3, <2>1
    <3>2. s \in Sources
        BY <1>0, <2>1, TablesFacts, NamedFacts DEF Digests
    <3>3. BelongsTo(t, s, d)
        BY <1>1, <2>1, <3>1 DEF Covered, InState
    <3> QED BY <1>0, <1>5, <3>1, <3>2, <3>3 DEF BelongsTo
  <2> QED BY <2>1 DEF Covered, InState
<1>11. Apart(u)
  <2>1. ASSUME NEW d \in Days, u.dlv[d].state \in Open,
               NEW b \in u.dlv[d].snapshot, NEW c \in u.dlv[d].snapshot, b # c,
               NEW s \in b.members \cap c.members
        PROVE  u.src[s].state \in {"none", "erased"}
    <3>1. t.src[s].state \in {"none", "erased"}
        BY <1>1, <1>3, <2>1 DEF Apart, InState
    <3>2. s \in Sources
        BY <1>0, <2>1, TablesFacts DEF Digests, Briefs
    <3> QED BY <1>5, <3>1, <3>2
  <2> QED BY <2>1 DEF Apart, InState
<1>12. \A s \in Sources : HasBrief(t, s) => HasBrief(u, s)
    BY <1>0 DEF HasBrief
<1>13. Inherited(u)
  <2>1. ASSUME NEW d \in Days, NEW s \in Named(u.dlv[d].snapshot) PROVE HasBrief(u, s)
    <3>1. s \in Named(t.dlv[d].snapshot)
        BY <1>0, <2>1 DEF Named
    <3>2. s \in Sources
        BY <1>0, <2>1, TablesFacts, NamedFacts DEF Digests
    <3> QED BY <1>1, <1>12, <3>1, <3>2 DEF Inherited
  <2>2. ASSUME NEW w \in Workers, pc[w] # "idle", NEW s \in Named(cand[w].snapshot)
        PROVE  HasBrief(u, s)
    <3>1. s \in Sources
        BY <2>2, NamedFacts DEF WorkersTyped, Candidates
    <3> QED BY <1>1, <1>12, <2>2, <3>1 DEF Inherited
  <2>3. ASSUME NEW p \in mailed PROVE HasBrief(u, p[2])
    <3>1. p[2] \in Sources
        BY <2>3 DEF WorkersTyped
    <3> QED BY <1>1, <1>12, <2>3, <3>1 DEF Inherited
  <2> QED BY <2>1, <2>2, <2>3 DEF Inherited
<1>14. Unassigned(u) /\ ReceiptTrue(u)
    BY <1>0, <1>1 DEF Unassigned, ReceiptTrue
<1>15. Holders(u)
  <2>1. ASSUME NEW w \in Workers, Holding(w) PROVE Held(u, w)
    <3>1. cand[w].date \in Days /\ Named(cand[w].snapshot) \subseteq Sources
        BY <2>1, NamedFacts DEF WorkersTyped, Holding, Candidates
    <3>2. Held(t, w)
        BY <1>1, <2>1 DEF Holders
    <3>3. CASE t.dlv[cand[w].date].state = "processing"
        BY <1>4, <3>1, <3>2, <3>3 DEF Held
    <3>4. CASE t.dlv[cand[w].date].state = "ambiguous"
      <4>1. u.dlv[cand[w].date].state = "ambiguous"
          BY <1>0, <3>1, <3>4
      <4>2. ASSUME NEW s \in Named(cand[w].snapshot)
            PROVE  \/ u.src[s].state \in {"none", "erased"}
                   \/ u.src[s].state = "ambiguous" /\ u.src[s].delivery = cand[w].date
        <5>1. \/ t.src[s].state \in {"none", "erased"}
              \/ t.src[s].state = "ambiguous" /\ t.src[s].delivery = cand[w].date
            BY <3>2, <3>4 DEF Held
        <5> QED BY <1>0, <1>5, <3>1, <5>1
      <4> QED BY <4>1, <4>2 DEF Held
    <3> QED BY <3>2, <3>3, <3>4 DEF Held
  <2> QED BY <1>1, <2>1 DEF Holders
<1>16. Acted(u)
  <2>1. ASSUME NEW d \in Days
        PROVE  /\ u.dlv[d].state \in NotMailed => t.dlv[d].state \in NotMailed
               /\ u.dlv[d].state = "delivered" => t.dlv[d].state = "delivered"
      BY <1>0
  <2> QED BY <1>1, <2>1 DEF Acted
<1>17. CoverageTrue(u)
  <2>1. ASSUME NEW p \in mailed
        PROVE  u.src[p[2]].state \in {"none", "erased"}
                      \/ /\ u.src[p[2]].delivery = p[1]
                         /\ u.src[p[2]].state \in {"pending", "delivered", "ambiguous"}
    <3>1. p[1] \in Days /\ p[2] \in Sources /\ p = <<p[1], p[2]>>
        BY <2>1 DEF WorkersTyped
    <3>2. t.src[p[2]].state \in {"none", "erased"}
                      \/ /\ t.src[p[2]].delivery = p[1]
                         /\ t.src[p[2]].state \in {"pending", "delivered", "ambiguous"}
        BY <1>1, <2>1 DEF CoverageTrue
    <3>3. CASE t.src[p[2]].state = "pending" /\ t.src[p[2]].delivery = p[1]
      <4>1. t.dlv[p[1]].state \in Open
        <5>1. p[1] # 0
            BY <3>1 DEF Days
        <5> QED BY <1>1, <3>1, <3>3, <5>1 DEF Joined
      <4>2. acted[p[1]] # 0
          BY <1>1, <2>1, <3>1 DEF Acted
      <4>3. t.dlv[p[1]].state = "processing"
          BY <1>1, <3>1, <4>1, <4>2 DEF Acted
      <4>4. p[1] \notin ds
          BY <1>2, <4>3
      <4> QED BY <1>0, <3>1, <3>3, <4>4
    <3>4. CASE t.src[p[2]].state # "pending"
        BY <1>0, <3>1, <3>2, <3>4
    <3> QED BY <3>2, <3>3, <3>4
  <2> QED BY <2>1 DEF CoverageTrue
<1>18. MailCore(u)
    BY <1>0, <1>6, <1>7, <1>8, <1>9, <1>10, <1>11, <1>13, <1>14, <1>15, <1>16, <1>17 DEF MailCore
<1>19. Moved(t, u)
  <2>1. \A d \in Days : \/ u.dlv[d].state = t.dlv[d].state
                        \/ t.dlv[d].state \in Unsent /\ u.dlv[d].state = "cancelled"
      BY <1>0
  <2> QED BY <2>1 DEF Moved, Moves
<1> QED BY <1>18, <1>19

\* The owner deletes a memory.
LEMMA DeleteMemoryStep ==
    ASSUME Inv, NEW m \in Memories, DeleteMemory(m)
    PROVE  Inv' /\ Locally
<1> USE StatusFacts
<1> DEFINE ds == Naming(db, Line(m))
           gone == members[m]
           u == ErasedTables(db, ds, gone)
<1>0. TopologyInv /\ SettingsTyped /\ WorkersTyped /\ Answered /\ MailInv(db) /\ db \in Tables
    BY DEF Inv, MailInv
<1>1. /\ mem[m] \in Active /\ changes < MaxChange /\ changes' = changes + 1
      /\ ds \cap InState(db, {"processing"}) = {}
      /\ mem' = [n \in Memories |-> IF n \in Line(m) THEN "deleted" ELSE mem[n]]
      /\ members' = [members EXCEPT ![m] = {}] /\ lineage' = lineage
      /\ revision' = [revision EXCEPT ![m] = 0] /\ heir' = [heir EXCEPT ![m] = FALSE]
      /\ asked' = [asked EXCEPT ![m] = "off"]
      /\ UNCHANGED <<settings, worker, history>>
    BY DEF DeleteMemory, Change, Affected, Naming
<1>2. db' = u
    BY DEF DeleteMemory, Affected, Naming, ErasedTables, ClearedTables
<1>3. Erases(db, u, Line(m), gone)
    BY <1>0, ErasedFacts
<1>4. \A d \in InState(db, {"processing"}) : \A b \in db.dlv[d].snapshot : b.id \notin Line(m)
    BY <1>1 DEF InState, Naming
<1> HIDE DEF u
<1>5. MailCore(u) /\ Moved(db, u)
  <2> HIDE DEF gone
  <2> QED BY <1>0, <1>3, <1>4, EraseKeeps
<1>6. /\ \A d \in Days : d \notin ds => u.dlv[d] = db.dlv[d]
      /\ \A d \in ds : u.dlv[d].snapshot = {}
      /\ \A s \in Sources : /\ s \in gone => u.src[s].state = "erased"
                            /\ s \notin gone => (u.src[s].state = "erased" <=> db.src[s].state = "erased")
  <2>1. ds \subseteq Days
      BY DEF Naming
  <2> HIDE DEF gone, ds
  <2>2. Erases(db, u, Line(m), gone)
      BY <1>3
  <2> QED BY <2>1, <2>2 DEF Erases, ds
<1>7. \A d \in Days : \A b \in u.dlv[d].snapshot :
         /\ b.id \notin Line(m) /\ b \in db.dlv[d].snapshot /\ u.dlv[d] = db.dlv[d]
         /\ b.id \in Memories
  <2>1. \A d \in Days : \A b \in db.dlv[d].snapshot : b.id \in Memories
      BY <1>0, TablesFacts DEF Digests, Briefs
  <2> QED BY <1>6, <2>1 DEF Naming
<1> HIDE DEF ds
<1>8. /\ mem \in [Memories -> MemoryState] /\ members \in [Memories -> SUBSET Sources]
      /\ revision \in [Memories -> Nat] /\ changes \in Nat /\ changes' \in 0..MaxChange
      /\ changes' \in Nat /\ changes' >= changes
      /\ heir \in [Memories -> BOOLEAN] /\ asked \in [Memories -> Consent]
      /\ lineage \in [Memories -> SUBSET Memories]
    BY <1>0, <1>1, MailAssumption DEF TopologyInv, TopologyTyped
<1>9. /\ mem'[m] = "deleted" /\ members'[m] = {} /\ revision'[m] = 0
      /\ \A n \in Memories : n # m => /\ members'[n] = members[n]
                                      /\ revision'[n] = revision[n] /\ heir'[n] = heir[n]
      /\ \A n \in Memories : mem'[n] = IF n \in Line(m) THEN "deleted" ELSE mem[n]
      /\ \A n \in Memories : n # m /\ mem[n] \in Active => n \notin Line(m)
      /\ \A n \in Memories : n \in Line(m) => mem[n] # "none"
  <2>1. \A n \in lineage[m] : mem[n] \in Retired
      BY <1>0 DEF TopologyInv, AncestorsRetired
  <2> QED BY <1>1, <1>8, <2>1 DEF Line
<1>10. TopologyInv'
  <2>1. TopologyTyped'
    <3>1. mem' \in [Memories -> MemoryState] /\ members' \in [Memories -> SUBSET Sources]
        BY <1>1, <1>8
    <3>2. revision' \in [Memories -> Nat] /\ asked' \in [Memories -> Consent]
        BY <1>1, <1>8 DEF Consent
    <3>3. heir' \in [Memories -> BOOLEAN]
        BY <1>1, <1>8
    <3> QED BY <1>1, <1>8, <3>1, <3>2, <3>3 DEF TopologyTyped
  <2>2. IdsInOrder'
    <3>1. Used' = Used
        BY <1>9 DEF Used
    <3> QED BY <1>0, <3>1 DEF TopologyInv, IdsInOrder
  <2>3. OwnersAreActive' /\ OneMemory'
      BY <1>0, <1>9 DEF TopologyInv, OwnersAreActive, OneMemory
  <2>4. RevisionsAreChanges'
    <3>1. ASSUME NEW n \in Memories
          PROVE  /\ revision'[n] <= changes' + 1
                 /\ mem'[n] = "rewriting" => revision'[n] <= changes'
      <4>1. /\ revision[n] \in Nat /\ revision[n] <= changes + 1
            /\ mem[n] = "rewriting" => revision[n] <= changes
          BY <1>0, <1>8 DEF TopologyInv, RevisionsAreChanges
      <4> QED BY <1>1, <1>8, <1>9, <4>1
    <3> QED BY <3>1 DEF RevisionsAreChanges
  <2>5. AncestorsRetired'
    <3>1. ASSUME NEW n \in Memories, NEW p \in lineage[n] PROVE mem'[p] \in Retired
      <4>1. mem[p] \in Retired /\ p \in Memories
          BY <1>0, <1>8 DEF TopologyInv, AncestorsRetired
      <4> QED BY <1>9, <4>1 DEF Retired
    <3> QED BY <1>1, <3>1 DEF AncestorsRetired
  <2> QED BY <2>1, <2>2, <2>3, <2>4, <2>5 DEF TopologyInv
<1>11. Organized(db) /\ ErasedIsGone(db) /\ DeletedOut(db)
    BY <1>0 DEF MailInv
<1>12. Organized(db)'
  <2>1. \A n \in Memories : n \notin Line(m) => mem'[n] = mem[n] /\ members'[n] = members[n]
      BY <1>9 DEF Line
  <2> QED BY <1>2, <1>7, <1>11, <2>1 DEF Organized, InState
<1>13. DeletedOut(db)'
  <2>1. ASSUME NEW b, Traceable(b), b.id \in Memories, b.id \notin Line(m) PROVE Traceable(b)'
    <3>1. mem'[b.id] # "deleted"
        BY <1>9, <2>1 DEF Traceable
    <3>2. ASSUME NEW s \in b.members
          PROVE  \E n \in Memories : s \in members'[n] /\ b.id \in Line(n)'
      <4>1. PICK n \in Memories : s \in members[n] /\ b.id \in Line(n)
          BY <2>1 DEF Traceable
      <4>2. members'[n] = members[n] /\ Line(n)' = Line(n)
          BY <1>1, <1>9, <2>1, <4>1 DEF Line
      <4> QED BY <4>1, <4>2
    <3> QED BY <3>1, <3>2 DEF Traceable
  <2> QED BY <1>2, <1>7, <1>11, <2>1 DEF DeletedOut
<1>14. \A s \in Sources : Owned(s)' => Owned(s) /\ s \notin gone
    BY <1>0, <1>9 DEF Owned, TopologyInv, OneMemory
<1>15. ErasedIsGone(db)'
    BY <1>2, <1>6, <1>11, <1>14 DEF ErasedIsGone
<1>16. ASSUME NEW s \in Sources, HasBrief(u, s) PROVE HasBrief(db, s)'
  <2>1. (Owned(s) \/ db.src[s].state = "erased")'
    <3>1. CASE s \in gone
        BY <1>2, <1>6, <3>1
    <3>2. CASE s \notin gone
        BY <1>2, <1>9, <1>16, <3>2 DEF HasBrief, Owned
    <3> QED BY <3>1, <3>2
  <2>2. \A n \in Memories : s \in members'[n] => mem'[n] \in Finalized \/ heir'[n]
      BY <1>9, <1>16 DEF HasBrief
  <2> QED BY <2>1, <2>2 DEF HasBrief
<1>17. SettingsTyped' /\ WorkersTyped' /\ Answered' /\ MailInv(db)'
    BY <1>0, <1>1, <1>2, <1>5, <1>8, <1>12, <1>13, <1>15, <1>16, MemoryStep
<1>18. Locally
    BY <1>1, <1>2, <1>5 DEF Locally, Local, Moved, history
<1> QED BY <1>10, <1>17, <1>18 DEF Inv

\* A division of S: parts that are not empty, share nothing and cover S.
LEMMA PartitionFacts ==
    ASSUME NEW S, NEW outputs \in Partitions(S)
    PROVE  /\ \A O \in outputs : O # {} /\ O \subseteq S
           /\ \A O, P \in outputs : O # P => O \cap P = {}
           /\ \A s \in S : \E O \in outputs : s \in O
<1>1. PICK f \in [S -> S] : outputs = {{s \in S : f[s] = i} : i \in {f[s] : s \in S}}
    BY DEF Partitions
<1>2. \A O \in outputs : \E i \in {f[s] : s \in S} : O = {s \in S : f[s] = i}
    BY <1>1
<1>3. \A O \in outputs : O # {} /\ O \subseteq S
  <2>1. ASSUME NEW O \in outputs PROVE O # {} /\ O \subseteq S
    <3>1. PICK q \in S : O = {s \in S : f[s] = f[q]}
        BY <1>2
    <3> QED BY <3>1
  <2> QED BY <2>1
<1>4. \A O, P \in outputs : O # P => O \cap P = {}
  <2>1. ASSUME NEW O \in outputs, NEW P \in outputs, NEW q \in O \cap P PROVE O = P
    <3>1. PICK i : O = {s \in S : f[s] = i}
        BY <1>2
    <3>2. PICK j : P = {s \in S : f[s] = j}
        BY <1>2
    <3>3. i = j
        BY <2>1, <3>1, <3>2
    <3> QED BY <3>1, <3>2, <3>3
  <2> QED BY <2>1
<1>5. \A s \in S : \E O \in outputs : s \in O
  <2>1. ASSUME NEW q \in S PROVE \E O \in outputs : q \in O
    <3>1. {s \in S : f[s] = f[q]} \in outputs /\ q \in {s \in S : f[s] = f[q]}
        BY <1>1
    <3> QED BY <3>1
  <2> QED BY <2>1
<1> QED BY <1>3, <1>4, <1>5

\* The number of new outputs that begin before O.
Rank(fresh, O) == Cardinality({P \in fresh : Min(P) < Min(O)})

\* It counts the new outputs from zero, without gaps.
LEMMA RankFacts ==
    ASSUME NEW fresh, IsFiniteSet(fresh),
           \A O \in fresh : O # {} /\ O \subseteq Nat,
           \A O, P \in fresh : O # P => O \cap P = {}
    PROVE  /\ Cardinality(fresh) \in Nat
           /\ \A O \in fresh : Rank(fresh, O) \in Nat /\ Rank(fresh, O) < Cardinality(fresh)
           /\ \A O, P \in fresh : Rank(fresh, O) = Rank(fresh, P) => O = P
           /\ \A k \in Nat : k < Cardinality(fresh) => \E O \in fresh : Rank(fresh, O) = k
<1> DEFINE c == Cardinality(fresh)
           below(O) == {P \in fresh : Min(P) < Min(O)}
<1>1. c \in Nat
    BY FS_CardinalityType
<1>2. \A O \in fresh : Min(O) \in O /\ Min(O) \in Nat
    BY SmallestFacts
<1>3. \A O, P \in fresh : Min(O) = Min(P) => O = P
    BY <1>2
<1>4. ASSUME NEW O \in fresh
      PROVE  /\ IsFiniteSet(below(O)) /\ Cardinality(below(O)) \in Nat
             /\ Cardinality(below(O)) < c
  <2>1. below(O) \subseteq fresh /\ O \notin below(O)
      BY <1>2
  <2>2. IsFiniteSet(below(O)) /\ Cardinality(below(O)) <= c /\ (c = Cardinality(below(O)) => fresh = below(O))
    <3> HIDE DEF below
    <3> QED BY <2>1, FS_Subset
  <2>3. Cardinality(below(O)) \in Nat
    <3> HIDE DEF below
    <3> QED BY <2>2, FS_CardinalityType
  <2> HIDE DEF below
  <2> QED BY <1>1, <2>1, <2>2, <2>3
<1>5. ASSUME NEW O \in fresh, NEW P \in fresh, Min(O) < Min(P)
      PROVE  Cardinality(below(O)) < Cardinality(below(P))
  <2>1. below(O) \subseteq below(P) /\ O \in below(P) /\ O \notin below(O)
    <3>1. Min(O) \in Nat /\ Min(P) \in Nat /\ \A Q \in fresh : Min(Q) \in Nat
        BY <1>2
    <3> QED BY <1>5, <3>1
  <2>2. /\ Cardinality(below(O)) <= Cardinality(below(P))
        /\ Cardinality(below(P)) = Cardinality(below(O)) => below(P) = below(O)
    <3>1. IsFiniteSet(below(P))
        BY <1>4
    <3> HIDE DEF below
    <3> QED BY <2>1, <3>1, FS_Subset
  <2>3. Cardinality(below(O)) \in Nat /\ Cardinality(below(P)) \in Nat
      BY <1>4
  <2> HIDE DEF below
  <2> QED BY <2>1, <2>2, <2>3
<1>6. ASSUME NEW O \in fresh, NEW P \in fresh, Cardinality(below(O)) = Cardinality(below(P))
      PROVE  O = P
  <2>1. Cardinality(below(O)) \in Nat /\ Cardinality(below(P)) \in Nat
      BY <1>4
  <2>2. ~(Min(O) < Min(P)) /\ ~(Min(P) < Min(O))
    <3>1. ~(Min(O) < Min(P))
      <4>1. SUFFICES ASSUME Min(O) < Min(P) PROVE FALSE
          OBVIOUS
      <4>2. Cardinality(below(O)) < Cardinality(below(P))
          BY <1>5, <4>1
      <4> HIDE DEF below
      <4> QED BY <1>6, <2>1, <4>2
    <3>2. ~(Min(P) < Min(O))
      <4>1. SUFFICES ASSUME Min(P) < Min(O) PROVE FALSE
          OBVIOUS
      <4>2. Cardinality(below(P)) < Cardinality(below(O))
          BY <1>5, <4>1
      <4> HIDE DEF below
      <4> QED BY <1>6, <2>1, <4>2
    <3> QED BY <3>1, <3>2
  <2>3. Min(O) = Min(P)
      BY <1>2, <2>2
  <2> QED BY <1>3, <2>3
<1>7. \A O \in fresh : Rank(fresh, O) = Cardinality(below(O))
    BY DEF Rank
<1> HIDE DEF below
<1> DEFINE T == 0..(c - 1)
           f == [O \in fresh |-> Rank(fresh, O)]
<1>8. \A O \in fresh : Rank(fresh, O) \in Nat /\ Rank(fresh, O) < c
    BY <1>4, <1>7
<1>9. \A O, P \in fresh : Rank(fresh, O) = Rank(fresh, P) => O = P
    BY <1>6, <1>7
<1>10. IsFiniteSet(T) /\ Cardinality(T) = c
  <2>1. /\ IsFiniteSet(0..(c - 1))
        /\ Cardinality(0..(c - 1)) = IF 0 > c - 1 THEN 0 ELSE (c - 1) - 0 + 1
      BY <1>1, FS_Interval
  <2> QED BY <1>1, <2>1
<1>11. f \in Injection(fresh, T)
  <2>1. f \in [fresh -> T]
      BY <1>1, <1>8
  <2>2. \A O, P \in fresh : f[O] = f[P] => O = P
      BY <1>9
  <2> HIDE DEF f, T
  <2> QED BY <2>1, <2>2, Zenon DEF Injection, IsInjective
<1>12. f \in Surjection(fresh, T)
  <2> HIDE DEF f, T
  <2> QED BY <1>10, <1>11, FS_Injection
<1>13. ASSUME NEW k \in Nat, k < c PROVE \E O \in fresh : Rank(fresh, O) = k
  <2>1. k \in T
      BY <1>1, <1>13
  <2>2. \A x \in T : \E O \in fresh : f[O] = x
    <3> HIDE DEF f, T
    <3> QED BY <1>12, Zenon DEF Surjection
  <2> QED BY <2>1, <2>2
<1> QED BY <1>1, <1>8, <1>9, <1>13

\* A publication divides the evidence of the active memories anew.
LEMMA ReconcileStep ==
    ASSUME Inv, Reconcile
    PROVE  Inv' /\ Locally
<1> USE StatusFacts
<1> DEFINE old == {m \in Memories : mem[m] \in Active}
           retains(O) == \E m \in old : members[m] = O
           all == UNION {members[m] : m \in old}
<1>0. TopologyInv /\ SettingsTyped /\ WorkersTyped /\ Answered /\ MailInv(db)
    BY DEF Inv
<1>1. /\ db.fence = {} /\ \A m \in old : mem[m] \notin {"claimed", "rewriting"}
      /\ asked' = asked /\ changes' = changes /\ db' = db
      /\ UNCHANGED <<settings, worker, history>>
    BY DEF Reconcile, MayReconcile
<1>2. PICK outputs \in Partitions(all) :
          LET fresh == {O \in outputs : ~retains(O)}
              id(O) == NextMemory + Rank(fresh, O)
              kept == {m \in old : members[m] \in outputs}
              new == {id(O) : O \in fresh}
              of(m) == CHOOSE O \in fresh : id(O) = m
              parents(O) == {p \in old : members[p] \cap O # {}}
              inherits(O) == \E p \in parents(O) : mem[p] \in Finalized \/ heir[p]
          IN /\ Cardinality(Used) + Cardinality(fresh) <= MaxMemory
             /\ mem' = [m \in Memories |->
                   CASE m \in new -> "pending"
                     [] m \in kept /\ mem[m] = "draft" -> "pending"
                     [] m \in old \ kept -> "superseded"
                     [] OTHER -> mem[m]]
             /\ members' = [m \in Memories |-> IF m \in new THEN of(m)
                                               ELSE IF m \in kept THEN members[m] ELSE {}]
             /\ lineage' = [m \in Memories |-> IF m \in new
                                               THEN UNION {Line(p) : p \in parents(of(m))}
                                               ELSE lineage[m]]
             /\ heir' = [m \in Memories |-> IF m \in new THEN inherits(of(m))
                                            ELSE m \in kept /\ heir[m]]
             /\ revision' = [m \in Memories |-> IF m \in kept THEN revision[m] ELSE 0]
    BY DEF Reconcile, Rank
<1> DEFINE fresh == {O \in outputs : ~retains(O)}
           id(O) == NextMemory + Rank(fresh, O)
           kept == {m \in old : members[m] \in outputs}
           new == {id(O) : O \in fresh}
           of(m) == CHOOSE O \in fresh : id(O) = m
           parents(O) == {p \in old : members[p] \cap O # {}}
           inherits(O) == \E p \in parents(O) : mem[p] \in Finalized \/ heir[p]
<1>3. /\ Cardinality(Used) + Cardinality(fresh) <= MaxMemory
      /\ mem' = [m \in Memories |->
            CASE m \in new -> "pending"
              [] m \in kept /\ mem[m] = "draft" -> "pending"
              [] m \in old \ kept -> "superseded"
              [] OTHER -> mem[m]]
      /\ members' = [m \in Memories |-> IF m \in new THEN of(m)
                                        ELSE IF m \in kept THEN members[m] ELSE {}]
      /\ heir' = [m \in Memories |-> IF m \in new THEN inherits(of(m))
                                     ELSE m \in kept /\ heir[m]]
      /\ lineage' = [m \in Memories |-> IF m \in new
                                        THEN UNION {Line(p) : p \in parents(of(m))}
                                        ELSE lineage[m]]
      /\ revision' = [m \in Memories |-> IF m \in kept THEN revision[m] ELSE 0]
    BY <1>2
<1>4. /\ mem \in [Memories -> MemoryState] /\ members \in [Memories -> SUBSET Sources]
      /\ revision \in [Memories -> Nat] /\ changes \in 0..MaxChange /\ changes \in Nat
      /\ heir \in [Memories -> BOOLEAN] /\ asked \in [Memories -> Consent]
      /\ lineage \in [Memories -> SUBSET Memories]
    BY <1>0, MailAssumption DEF TopologyInv, TopologyTyped
<1>5. /\ IdsInOrder /\ OwnersAreActive /\ OneMemory /\ RevisionsAreChanges /\ AncestorsRetired
    BY <1>0 DEF TopologyInv
<1>6. /\ old \subseteq Memories /\ old \subseteq Used /\ all \subseteq Sources
      /\ \A s \in all : \E m \in old : s \in members[m]
      /\ \A m \in old : members[m] \subseteq all
      /\ \A m \in Memories : members[m] # {} => m \in old
      /\ \A m \in old : mem[m] \in Active
      /\ \A m \in Memories : mem[m] \in Active => m \in old
    BY <1>4, <1>5 DEF Used, OwnersAreActive
<1>7. /\ \A O \in outputs : O # {} /\ O \subseteq all
      /\ \A O, P \in outputs : O # P => O \cap P = {}
      /\ \A s \in all : \E O \in outputs : s \in O
  <2> HIDE DEF all
  <2> QED BY PartitionFacts
<1>8. /\ fresh \subseteq outputs /\ IsFiniteSet(fresh)
      /\ \A O \in outputs : O \in fresh \/ \E m \in kept : members[m] = O
      /\ \A O \in fresh : \A m \in old : members[m] # O
  <2>1. fresh \subseteq SUBSET Sources
      BY <1>6, <1>7
  <2>2. IsFiniteSet(SUBSET Sources)
      BY MailAssumption, FS_SUBSET
  <2>3. IsFiniteSet(fresh)
    <3> HIDE DEF fresh
    <3> QED BY <2>1, <2>2, FS_Subset
  <2> QED BY <2>3
<1>9. /\ Cardinality(fresh) \in Nat
      /\ \A O \in fresh : Rank(fresh, O) \in Nat /\ Rank(fresh, O) < Cardinality(fresh)
      /\ \A O, P \in fresh : Rank(fresh, O) = Rank(fresh, P) => O = P
      /\ \A k \in Nat : k < Cardinality(fresh) => \E O \in fresh : Rank(fresh, O) = k
  <2>1. /\ \A O \in fresh : O # {} /\ O \subseteq Nat
        /\ \A O, P \in fresh : O # P => O \cap P = {}
      BY <1>6, <1>7, <1>8, MailAssumption
  <2> HIDE DEF fresh
  <2> QED BY <1>8, <2>1, RankFacts
<1>10. /\ kept \subseteq old /\ \A m \in kept : members[m] \in outputs
       /\ \A m \in kept : members[m] # {}
    BY <1>7
<1> HIDE DEF fresh, kept, all
<1>11. /\ Used = 1..Cardinality(Used) /\ Cardinality(Used) \in Nat
       /\ NextMemory = Cardinality(Used) + 1
    BY <1>0, UsedFacts
<1>12. \A O \in fresh : id(O) \in Memories /\ id(O) \notin Used /\ of(id(O)) = O
  <2>1. ASSUME NEW O \in fresh PROVE id(O) \in Memories /\ id(O) \notin Used
      BY <1>3, <1>9, <1>11, MailAssumption DEF Memories
  <2>2. ASSUME NEW O \in fresh, NEW P \in fresh, id(O) = id(P) PROVE O = P
    <3>1. Rank(fresh, O) = Rank(fresh, P)
        BY <1>9, <1>11, <2>2
    <3> QED BY <1>9, <3>1
  <2> HIDE DEF id
  <2> QED BY <2>1, <2>2
<1>13. \A m \in new : of(m) \in fresh /\ id(of(m)) = m
    BY <1>12
<1>14. new \subseteq Memories /\ new \cap Used = {}
    BY <1>12
<1>15. Used \cup new = 1..(Cardinality(Used) + Cardinality(fresh))
  <2>1. ASSUME NEW n \in Used \cup new PROVE n \in 1..(Cardinality(Used) + Cardinality(fresh))
      BY <1>9, <1>11
  <2>2. ASSUME NEW n \in 1..(Cardinality(Used) + Cardinality(fresh)) PROVE n \in Used \cup new
    <3>1. CASE n <= Cardinality(Used)
        BY <1>11, <2>2, <3>1
    <3>2. CASE ~(n <= Cardinality(Used))
      <4>1. n - NextMemory \in Nat /\ n - NextMemory < Cardinality(fresh) /\ n \in Nat
          BY <1>9, <1>11, <2>2, <3>2
      <4>2. PICK O \in fresh : Rank(fresh, O) = n - NextMemory
          BY <1>9, <4>1
      <4>3. id(O) = n
          BY <1>11, <4>1, <4>2
      <4> QED BY <4>3
    <3> QED BY <3>1, <3>2
  <2> QED BY <2>1, <2>2
<1> HIDE DEF id, new, of
<1>16. ASSUME NEW m \in new
       PROVE  /\ mem'[m] = "pending" /\ members'[m] = of(m) /\ heir'[m] = inherits(of(m))
              /\ m \in Memories /\ m \notin old /\ m \notin kept /\ m \notin Used
              /\ revision'[m] = 0 /\ of(m) \in outputs
              /\ lineage'[m] = UNION {Line(p) : p \in parents(of(m))}
  <2>1. m \in Memories /\ m \notin old /\ m \notin kept /\ m \notin Used
      BY <1>6, <1>10, <1>14
  <2>2. mem'[m] = "pending"
    <3> HIDE DEF old
    <3> QED BY <1>3, <2>1
  <2>3. /\ members'[m] = of(m) /\ heir'[m] = inherits(of(m)) /\ revision'[m] = 0
        /\ lineage'[m] = UNION {Line(p) : p \in parents(of(m))}
    <3> HIDE DEF inherits, parents
    <3> QED BY <1>3, <2>1
  <2> QED BY <1>8, <1>13, <2>1, <2>2, <2>3
<1>17. ASSUME NEW m \in kept
       PROVE  /\ mem'[m] = IF mem[m] = "draft" THEN "pending" ELSE mem[m]
              /\ members'[m] = members[m] /\ heir'[m] = heir[m] /\ revision'[m] = revision[m]
              /\ m \in Memories /\ m \in old /\ m \notin new
  <2>1. m \in Memories /\ m \in old /\ m \notin new
      BY <1>6, <1>10, <1>14
  <2>2. mem'[m] = IF mem[m] = "draft" THEN "pending" ELSE mem[m]
    <3> HIDE DEF old
    <3>1. CASE mem[m] = "draft"
        BY <1>3, <2>1, <3>1
    <3>2. CASE mem[m] # "draft"
        BY <1>3, <2>1, <3>2
    <3> QED BY <3>1, <3>2
  <2>3. heir'[m] = heir[m]
    <3>1. heir'[m] = (m \in kept /\ heir[m]) /\ heir[m] \in BOOLEAN
        BY <1>3, <1>4, <2>1
    <3> QED BY <3>1
  <2> QED BY <1>3, <2>1, <2>2, <2>3
<1>18. ASSUME NEW m \in Memories, m \notin new, m \notin kept
       PROVE  /\ mem'[m] = IF m \in old THEN "superseded" ELSE mem[m]
              /\ members'[m] = {} /\ revision'[m] = 0 /\ heir'[m] = FALSE
  <2>1. mem'[m] = IF m \in old THEN "superseded" ELSE mem[m]
    <3> HIDE DEF old
    <3>1. CASE m \in old
        BY <1>3, <1>18, <3>1
    <3>2. CASE m \notin old
        BY <1>3, <1>18, <3>2
    <3> QED BY <3>1, <3>2
  <2> QED BY <1>3, <1>18, <2>1
<1>18a. /\ \A m \in Memories : m \notin new => lineage'[m] = lineage[m]
        /\ \A O : \A p \in parents(O) : p \in old /\ p \in Memories /\ members[p] \cap O # {}
        /\ \A O : \A p \in old : members[p] \cap O # {} => p \in parents(O)
        /\ \A m \in Memories : Line(m) \subseteq Memories /\ m \in Line(m) /\ lineage[m] \subseteq Line(m)
  <2>1. \A m \in Memories : m \notin new => lineage'[m] = lineage[m]
    <3> HIDE DEF parents
    <3> QED BY <1>3
  <2>2. \A m \in Memories : Line(m) \subseteq Memories /\ m \in Line(m) /\ lineage[m] \subseteq Line(m)
      BY <1>4 DEF Line
  <2> QED BY <2>1, <2>2
<1> HIDE DEF old, inherits, retains, parents
<1>18b. ASSUME NEW m \in new, NEW p \in parents(of(m)) PROVE p \notin kept /\ p \notin new
  <2>1. p \in old /\ p \in Memories /\ members[p] \cap of(m) # {} /\ of(m) \in fresh
      BY <1>13, <1>18a
  <2>2. members[p] # of(m)
      BY <1>8, <2>1
  <2>3. p \notin kept
      BY <1>7, <1>8, <1>10, <2>1, <2>2
  <2> QED BY <1>16, <2>1, <2>3
<1>18c. ASSUME NEW m \in Memories, NEW p \in lineage'[m] PROVE p \in Memories /\ mem'[p] \in Retired
  <2>1. ASSUME NEW n \in Memories, NEW q \in lineage[n] PROVE q \in Memories /\ mem'[q] \in Retired
    <3>1. q \in Memories /\ mem[q] \in Retired
        BY <1>4, <1>5 DEF AncestorsRetired
    <3>2. q \notin old /\ q \in Used
        BY <1>6, <3>1 DEF Used
    <3> QED BY <1>10, <1>14, <1>18, <3>1, <3>2
  <2>2. CASE m \notin new
      BY <1>18a, <1>18c, <2>1, <2>2
  <2>3. CASE m \in new
    <3>1. PICK q \in parents(of(m)) : p \in Line(q)
        BY <1>16, <1>18c, <2>3
    <3>2. q \in Memories /\ q \in old /\ q \notin kept /\ q \notin new
        BY <1>18a, <1>18b, <2>3, <3>1
    <3>3. CASE p = q
        BY <1>18, <3>2, <3>3 DEF Retired
    <3>4. CASE p \in lineage[q]
        BY <2>1, <3>2, <3>4
    <3> QED BY <3>1, <3>3, <3>4 DEF Line
  <2> QED BY <2>2, <2>3
<1>19. TopologyInv'
  <2>1. TopologyTyped'
    <3>1. \A m \in Memories : mem'[m] \in MemoryState
        BY <1>4, <1>16, <1>17, <1>18
    <3>2. ASSUME NEW m \in Memories PROVE members'[m] \in SUBSET Sources
      <4>1. CASE m \in new
        <5>1. members'[m] \in outputs
            BY <1>16, <4>1
        <5> QED BY <1>6, <1>7, <5>1
      <4>2. CASE m \in kept
        <5>1. members'[m] = members[m] /\ members[m] \in SUBSET Sources
            BY <1>4, <1>17, <4>2
        <5> QED BY <5>1
      <4>3. CASE m \notin new /\ m \notin kept
        <5>1. members'[m] = {}
            BY <1>18, <4>3
        <5> QED BY <5>1
      <4> QED BY <4>1, <4>2, <4>3
    <3>3. ASSUME NEW m \in Memories PROVE revision'[m] \in Nat
      <4>1. revision'[m] = 0 \/ revision'[m] = revision[m]
          BY <1>16, <1>17, <1>18
      <4>2. revision[m] \in Nat
          BY <1>4
      <4> QED BY <4>1, <4>2
    <3>4. \A m \in Memories : heir'[m] \in BOOLEAN
        BY <1>4, <1>16, <1>17, <1>18 DEF inherits
    <3>7. lineage' \in [Memories -> SUBSET Memories]
      <4>1. \A m \in Memories : lineage'[m] \in SUBSET Memories
          BY <1>18c
      <4> QED BY <1>3, <4>1
    <3>5. mem' \in [Memories -> MemoryState] /\ members' \in [Memories -> SUBSET Sources]
        BY <1>3, <3>1, <3>2
    <3>6. revision' \in [Memories -> Nat] /\ heir' \in [Memories -> BOOLEAN]
      <4> QED BY <1>3, <3>3, <3>4
    <3> QED BY <1>1, <1>4, <3>5, <3>6, <3>7 DEF TopologyTyped
  <2>2. IdsInOrder'
    <3>1. ASSUME NEW m \in Memories PROVE mem'[m] # "none" <=> m \in Used \cup new
        BY <1>6, <1>16, <1>17, <1>18 DEF Used
    <3>2. Used' = Used \cup new
        BY <1>14, <3>1, UsedFacts, <1>0 DEF Used
    <3>3. Cardinality(Used) + Cardinality(fresh) \in Nat
        BY <1>9, <1>11
    <3>4. ASSUME NEW m \in Used' PROVE 1..m \subseteq Used'
        BY <1>15, <3>2, <3>3, <3>4
    <3> QED BY <3>4 DEF IdsInOrder
  <2>3. OwnersAreActive'
      BY <1>6, <1>16, <1>17, <1>18 DEF OwnersAreActive
  <2>4. OneMemory'
    <3>1. ASSUME NEW m \in Memories, NEW n \in Memories, m # n
          PROVE  members'[m] \cap members'[n] = {}
      <4>1. CASE m \in new /\ n \in new
        <5>1. of(m) # of(n)
            BY <1>13, <3>1, <4>1
        <5> QED BY <1>7, <1>16, <4>1, <5>1
      <4>2. CASE m \in kept /\ n \in kept
          BY <1>5, <1>17, <3>1, <4>2 DEF OneMemory
      <4>3. CASE m \in new /\ n \in kept
        <5>1. of(m) \in fresh /\ members[n] \in outputs /\ members[n] # of(m)
            BY <1>8, <1>10, <1>13, <4>3
        <5> QED BY <1>7, <1>8, <1>16, <1>17, <4>3, <5>1
      <4>4. CASE m \in kept /\ n \in new
        <5>1. of(n) \in fresh /\ members[m] \in outputs /\ members[m] # of(n)
            BY <1>8, <1>10, <1>13, <4>4
        <5> QED BY <1>7, <1>8, <1>16, <1>17, <4>4, <5>1
      <4>5. CASE (m \notin new /\ m \notin kept) \/ (n \notin new /\ n \notin kept)
          BY <1>18, <4>5
      <4> QED BY <4>1, <4>2, <4>3, <4>4, <4>5
    <3> QED BY <3>1 DEF OneMemory
  <2>5. RevisionsAreChanges'
    <3>1. ASSUME NEW m \in Memories
          PROVE  revision'[m] <= changes' + 1 /\ mem'[m] # "rewriting"
      <4>1. revision[m] <= changes + 1 /\ revision[m] \in Nat
          BY <1>4, <1>5 DEF RevisionsAreChanges
      <4>2. mem[m] = "rewriting" => m \in old
          BY <1>6
      <4>3. revision'[m] = 0 \/ revision'[m] = revision[m]
          BY <1>16, <1>17, <1>18
      <4>4. revision'[m] <= changes' + 1
          BY <1>1, <1>4, <4>1, <4>3
      <4>5. mem'[m] # "rewriting"
          BY <1>1, <1>16, <1>17, <1>18, <4>2
      <4> QED BY <4>4, <4>5
    <3> QED BY <3>1 DEF RevisionsAreChanges
  <2>6. AncestorsRetired'
      BY <1>18c DEF AncestorsRetired
  <2> QED BY <2>1, <2>2, <2>3, <2>4, <2>5, <2>6 DEF TopologyInv
<1>20. MailCore(db) /\ ErasedIsGone(db) /\ DeletedOut(db) /\ LaneShape(db) /\ db \in Tables
    BY <1>0 DEF MailInv, MailCore
<1>21. Organized(db)'
  <2>1. InState(db, {"processing"}) = {}
      BY <1>1, <1>20, NoneInFlight
  <2> QED BY <1>1, <2>1 DEF Organized, InState
<1>22. DeletedOut(db)'
  <2>1. \A d \in Days : \A b \in db.dlv[d].snapshot : b.id \in Memories
      BY <1>20, TablesFacts DEF Digests, Briefs
  <2>2. \A m \in Memories : mem'[m] = "deleted" => mem[m] = "deleted"
      BY <1>16, <1>17, <1>18
  <2>3. ASSUME NEW b, Traceable(b), b.id \in Memories PROVE Traceable(b)'
    <3>1. ASSUME NEW s \in b.members
          PROVE  \E m \in Memories : s \in members'[m] /\ b.id \in Line(m)'
      <4>1. PICK n \in Memories : s \in members[n] /\ b.id \in Line(n)
          BY <2>3 DEF Traceable
      <4>2. n \in old /\ s \in all
          BY <1>6, <4>1
      <4>3. CASE n \in kept
        <5>1. members'[n] = members[n] /\ Line(n)' = Line(n)
            BY <1>17, <1>18a, <4>3 DEF Line
        <5> QED BY <4>1, <5>1
      <4>4. CASE n \notin kept
        <5>1. PICK O \in outputs : s \in O
            BY <1>7, <4>2
        <5>2. O \in fresh
          <6>1. ASSUME NEW q \in kept, members[q] = O PROVE FALSE
            <7>1. q \in Memories /\ q # n /\ s \in members[q]
                BY <1>17, <4>4, <5>1, <6>1
            <7> QED BY <1>5, <4>1, <7>1 DEF OneMemory
          <6> QED BY <1>8, <6>1
        <5>3. id(O) \in new /\ of(id(O)) = O
            BY <1>12, <5>2 DEF new
        <5>4. n \in parents(O)
            BY <1>18a, <4>1, <4>2, <5>1
        <5>5. id(O) \in Memories /\ s \in members'[id(O)] /\ b.id \in lineage'[id(O)]
            BY <1>16, <4>1, <5>1, <5>3, <5>4
        <5> QED BY <5>5 DEF Line
      <4> QED BY <4>3, <4>4
    <3> QED BY <2>2, <2>3, <3>1 DEF Traceable
  <2> QED BY <1>1, <1>20, <2>1, <2>3 DEF DeletedOut
<1>23. ASSUME NEW m \in Memories, NEW s \in members'[m] PROVE s \in all
  <2>1. CASE m \in new
      BY <1>7, <1>16, <1>23, <2>1
  <2>2. CASE m \in kept
      BY <1>6, <1>17, <1>23, <2>2
  <2>3. CASE m \notin new /\ m \notin kept
      BY <1>18, <1>23, <2>3
  <2> QED BY <2>1, <2>2, <2>3
<1>24. \A s \in Sources : s \in all <=> Owned(s)
    BY <1>6 DEF Owned
<1>25. ErasedIsGone(db)'
    BY <1>1, <1>20, <1>23, <1>24 DEF ErasedIsGone, Owned
<1>26. ASSUME NEW s \in Sources, HasBrief(db, s) PROVE HasBrief(db, s)'
  <2>1. (Owned(s) \/ db.src[s].state = "erased")'
    <3>1. CASE s \in all
      <4>1. PICK O \in outputs : s \in O
          BY <1>7, <3>1
      <4>2. CASE O \in fresh
        <5>1. id(O) \in new /\ of(id(O)) = O
            BY <1>12, <4>2 DEF new
        <5> QED BY <1>16, <4>1, <5>1 DEF Owned
      <4>3. CASE \E m \in kept : members[m] = O
        <5>1. PICK m \in kept : members[m] = O
            BY <4>3
        <5> QED BY <1>17, <4>1, <5>1 DEF Owned
      <4> QED BY <1>8, <4>2, <4>3
    <3>2. CASE s \notin all
        BY <1>1, <1>24, <1>26, <3>2 DEF HasBrief
    <3> QED BY <3>1, <3>2
  <2>2. ASSUME NEW m \in Memories, s \in members'[m] PROVE mem'[m] \in Finalized \/ heir'[m]
    <3>1. CASE m \in new
      <4>1. s \in of(m) /\ heir'[m] = inherits(of(m))
          BY <1>16, <2>2, <3>1
      <4>2. PICK p \in old : s \in members[p]
          BY <1>6, <1>23, <2>2
      <4>3. p \in Memories /\ (mem[p] \in Finalized \/ heir[p])
          BY <1>6, <1>26, <4>2 DEF HasBrief
      <4>4. inherits(of(m))
          BY <1>18a, <4>1, <4>2, <4>3 DEF inherits
      <4> QED BY <4>1, <4>4
    <3>2. CASE m \in kept
        BY <1>17, <1>26, <2>2, <3>2 DEF HasBrief
    <3>3. CASE m \notin new /\ m \notin kept
        BY <1>18, <2>2, <3>3
    <3> QED BY <3>1, <3>2, <3>3
  <2> QED BY <2>1, <2>2 DEF HasBrief
<1>27. SettingsTyped' /\ WorkersTyped' /\ Answered' /\ MailInv(db)'
  <2>1. changes' >= changes /\ changes' \in Nat
      BY <1>1, <1>4
  <2> QED BY <1>0, <1>1, <1>4, <1>20, <1>21, <1>22, <1>25, <1>26, <2>1, MemoryStep
<1>28. Locally
    BY <1>1 DEF Locally, Local, Moves, history
<1> QED BY <1>19, <1>27, <1>28 DEF Inv

-----------------------------------------------------------------------------
(* The invariant.                                                          *)

\* The empty tables satisfy it.
LEMMA InitInv == Init => Inv
<1> SUFFICES ASSUME Init PROVE Inv
    OBVIOUS
<1>1. TopologyInv
  <2>1. TopologyTyped
      BY MailAssumption DEF Init, TopologyTyped, MemoryState, Consent
  <2>2. Used = {}
      BY DEF Init, Used
  <2>3. IdsInOrder /\ OwnersAreActive /\ OneMemory
      BY <2>2 DEF Init, IdsInOrder, OwnersAreActive, OneMemory
  <2>4. RevisionsAreChanges /\ AncestorsRetired
      BY DEF Init, RevisionsAreChanges, AncestorsRetired
  <2> QED BY <2>1, <2>3, <2>4 DEF TopologyInv
<1>2. SettingsTyped
    BY MailAssumption DEF Init, SettingsTyped, Consent
<1>3. /\ \A s \in Sources : db.src[s] = NoSource
      /\ \A d \in Days : db.dlv[d] = NoDelivery
      /\ db.fence = {} /\ db.lane = NoToken /\ db.cooling = FALSE
      /\ db.src = [s \in Sources |-> NoSource] /\ db.dlv = [d \in Days |-> NoDelivery]
    BY DEF Init, NoMail
<1>4. NoSource \in SourceRows /\ NoSource.state = "none" /\ NoSource.delivery = 0
    BY DEF NoSource, SourceRows, SourceState
<1>5. /\ NoDelivery \in Digests /\ NoDelivery.state = "none" /\ NoDelivery.snapshot = {}
      /\ NoDelivery.attempts = 0
  <2>1. "none" \in DeliveryState /\ "wait" \in Timer /\ NoToken \in TokenOrNone
      BY DEF DeliveryState, Timer, TokenOrNone
  <2>2. 0 \in 0..MaxChange /\ 0 \in 0..MAX_ATTEMPTS
      BY MailAssumption
  <2> QED BY <2>1, <2>2 DEF NoDelivery, Digests
<1>6. db \in Tables
  <2>1. /\ [s \in Sources |-> NoSource] \in [Sources -> SourceRows]
        /\ [d \in Days |-> NoDelivery] \in [Days -> Digests] /\ NoToken \in TokenOrNone
      BY <1>4, <1>5 DEF TokenOrNone
  <2>2. db = [src |-> [s \in Sources |-> NoSource], dlv |-> [d \in Days |-> NoDelivery],
              fence |-> {}, lane |-> NoToken, cooling |-> FALSE]
      BY DEF Init, NoMail
  <2> HIDE DEF NoToken, TokenOrNone
  <2> QED BY <2>1, <2>2 DEF Tables
<1>7. \A w \in Workers : pc[w] = "idle"
    BY DEF Init
<1>8. WorkersTyped
    BY <1>7 DEF Init, WorkersTyped, PC, TokenOrNone, SendResult
<1>9. Answered
    BY <1>7 DEF Answered, Holding
<1>10. RowShape(db) /\ LaneShape(db) /\ Consented(db) /\ Organized(db)
    BY <1>3, <1>5 DEF RowShape, LaneShape, Consented, Organized, InState
<1>11. Joined(db) /\ Covered(db) /\ Apart(db)
    BY <1>3, <1>4, <1>5, OpenFacts DEF Joined, Covered, Apart, InState
<1>12. Inherited(db)
    BY <1>3, <1>5, <1>7 DEF Init, Inherited, Named
<1>13. ErasedIsGone(db) /\ Unassigned(db) /\ ReceiptTrue(db) /\ DeletedOut(db)
    BY <1>3, <1>4, <1>5 DEF ErasedIsGone, Unassigned, ReceiptTrue, DeletedOut
<1>14. Holders(db)
    BY <1>7 DEF Holders, Holding
<1>15. Acted(db) /\ CoverageTrue(db)
    BY <1>3, <1>5 DEF Init, Acted, CoverageTrue
<1> QED BY <1>1, <1>2, <1>6, <1>8, <1>9, <1>10, <1>11, <1>12, <1>13, <1>14, <1>15 DEF Inv, MailInv

\* Every step keeps it, and moves every digest by at most one local step.
LEMMA NextInv ==
    ASSUME Inv, [Next]_vars
    PROVE  Inv' /\ Locally
<1>1. ASSUME NEW w \in Workers, Deliver(w) \/ CrashW(w) PROVE Inv' /\ Locally
    BY <1>1, NextCandidateStep, ClaimStep, SendStep, SettleStep, CrashStep DEF Deliver
<1>2. ASSUME Owner PROVE Inv' /\ Locally
    BY <1>2, SavePreferenceStep, ChangeAddressStep, CloseAccountStep, DeleteMemoryStep DEF Owner
<1>3. ASSUME Pipeline PROVE Inv' /\ Locally
    BY <1>3, FormStep, ReconcileStep, FinalizeClaimStep, FinalizeSettleStep, RewriteClaimStep,
       RewriteSettleStep DEF Pipeline
<1>4. ASSUME UNCHANGED vars PROVE Inv' /\ Locally
  <2>1. /\ TopologyInv /\ SettingsTyped /\ WorkersTyped /\ MailInv(db) /\ Answered
        /\ db' = db /\ changes' = changes /\ UNCHANGED <<settings, topology, history>>
        /\ UNCHANGED topology /\ UNCHANGED worker
      BY <1>4 DEF vars, Inv
  <2>2. MailInv(db)' /\ WorkersTyped' /\ Answered'
      BY <2>1, WorkersSame
  <2>3. changes' \in 0..MaxChange /\ changes' >= changes
      BY <2>1 DEF TopologyInv, TopologyTyped
  <2>4. TopologyInv'
      BY <2>1, <2>3, TopologySame
  <2>5. SettingsTyped'
      BY <2>1 DEF SettingsTyped, settings
  <2>6. Locally
      BY <2>1 DEF Locally, Local, Moves, history
  <2> QED BY <2>2, <2>4, <2>5, <2>6 DEF Inv
<1> QED BY <1>1, <1>2, <1>3, <1>4, TickStep DEF Next

\* The invariant of the morning email holds throughout, whatever the owner, the
\* pipeline, the provider and the workers do and in whichever order.
THEOREM MailInvariant == Spec => []Inv
<1>1. Inv /\ [Next]_vars => Inv'
    BY NextInv
<1> QED BY <1>1, InitInv, PTL DEF Spec

\* Every table and variable keeps its type, and no digest is sent more often
\* than the attempt cap allows.
THEOREM MailTypeOK == Spec => []TypeOK
<1>1. ASSUME Inv PROVE TypeOK
  <2>0. TopologyInv /\ SettingsTyped /\ WorkersTyped /\ db \in Tables
      BY <1>1 DEF Inv, MailInv
  <2>1. /\ account \in BOOLEAN /\ pref \in [consent : Consent, at : 0..MaxChange]
        /\ recipient \in 0..MaxChange
      BY <2>0 DEF SettingsTyped
  <2>2. /\ mem \in [Memories -> MemoryState] /\ members \in [Memories -> SUBSET Sources]
        /\ heir \in [Memories -> BOOLEAN] /\ asked \in [Memories -> Consent]
        /\ lineage \in [Memories -> SUBSET Memories]
        /\ changes \in 0..MaxChange
      BY <2>0 DEF TopologyInv, TopologyTyped
  <2>3. revision \in [Memories -> 0..(MaxChange + 1)]
    <3>1. revision \in [Memories -> Nat] /\ changes \in 0..MaxChange
        BY <2>0 DEF TopologyInv, TopologyTyped
    <3>2. \A m \in Memories : revision[m] <= changes + 1
        BY <2>0 DEF TopologyInv, RevisionsAreChanges
    <3>3. \A m \in Memories : revision[m] \in 0..(MaxChange + 1)
        BY <3>1, <3>2, MailAssumption
    <3> QED BY <3>1, <3>3
  <2>4. db.src \in [Sources -> [state : SourceState, content : BOOLEAN, delivery : Days \cup {0}]]
      BY <2>0, TablesFacts DEF SourceRows
  <2>5. ASSUME NEW d \in Days
        PROVE  LET row == db.dlv[d]
               IN /\ row.state \in DeliveryState /\ row.timer \in Timer
                  /\ row.snapshot \subseteq Briefs /\ row.considered \subseteq Sources
                  /\ row.consent \in 0..MaxChange /\ row.to \in 0..MaxChange
                  /\ row.attempts \in 0..MAX_ATTEMPTS /\ row.content \in BOOLEAN
                  /\ row.token \in TokenOrNone
    <3>1. db.dlv[d] \in Digests
        BY <2>0, TablesFacts
    <3> QED BY <3>1 DEF Digests
  <2>6. db.fence \subseteq Token /\ db.lane \in TokenOrNone /\ db.cooling \in BOOLEAN
      BY <2>0, TablesFacts
  <2>7. /\ pc \in [Workers -> PC] /\ wtoken \in [Workers -> TokenOrNone]
        /\ wresult \in [Workers -> SendResult]
        /\ mailed \subseteq Days \X Sources /\ acted \in [Days -> Nat]
      BY <2>0 DEF WorkersTyped
  <2> QED BY <2>1, <2>2, <2>3, <2>4, <2>5, <2>6, <2>7 DEF TypeOK
<1> QED BY <1>1, MailInvariant, PTL

\* A request in flight is one that the owner's settings still ask for.
THEOREM MailConsent == Spec => []ConsentInFlight
<1>1. ASSUME Inv PROVE ConsentInFlight
  <2>1. Consented(db) /\ LaneShape(db)
      BY <1>1 DEF Inv, MailInv
  <2>2. \A d \in InState(db, {"processing"}) : db.dlv[d].token \in db.fence
      BY <2>1 DEF LaneShape
  <2> QED BY <2>1, <2>2 DEF ConsentInFlight, Consented
<1> QED BY <1>1, MailInvariant, PTL

\* No merge, split or deletion changes the memories of a request in flight.
THEOREM MailOrganized == Spec => []InFlightIsOrganized
<1>1. Inv => InFlightIsOrganized
    BY DEF Inv, MailInv, Organized, InFlightIsOrganized
<1> QED BY <1>1, MailInvariant, PTL

\* Evidence that a digest may have mailed stays with that digest, so that it
\* is never mailed on another morning while it has a coverage row.
THEOREM MailCoverage == Spec => []CoverageIsTrue
<1>1. ASSUME Inv PROVE CoverageIsTrue
  <2>1. ASSUME NEW d \in Days, NEW s \in Sources, <<d, s>> \in mailed,
               db.src[s].state \notin {"none", "erased"}
        PROVE  db.src[s].delivery = d /\ db.src[s].state \in {"pending", "delivered", "ambiguous"}
    <3>1. CoverageTrue(db)
        BY <1>1 DEF Inv, MailInv
    <3>2. <<d, s>>[1] = d /\ <<d, s>>[2] = s
        OBVIOUS
    <3> QED BY <2>1, <3>1, <3>2 DEF CoverageTrue
  <2> QED BY <2>1 DEF CoverageIsTrue
<1> QED BY <1>1, MailInvariant, PTL

\* Evidence is called delivered only if its digest went out with it.
THEOREM MailReceipts == Spec => []ReceiptIsTrue
<1>1. Inv => ReceiptIsTrue
    BY DEF Inv, MailInv, ReceiptTrue, ReceiptIsTrue
<1> QED BY <1>1, MailInvariant, PTL

\* No stored snapshot names a deleted memory or carries deleted evidence: the
\* evidence of a stored brief always belongs to the brief's memory or to a
\* descendant, with which it would be erased.
THEOREM MailDeletion == Spec => []DeletedStaysOut
<1>1. ASSUME Inv PROVE DeletedStaysOut
  <2>1. DeletedOut(db) /\ ErasedIsGone(db) /\ db \in Tables
      BY <1>1 DEF Inv, MailInv
  <2>2. ASSUME NEW d \in Days, NEW b \in db.dlv[d].snapshot
        PROVE  mem[b.id] # "deleted" /\ \A s \in b.members : db.src[s].state # "erased"
    <3>1. Traceable(b) /\ b.members \subseteq Sources
        BY <2>1, TablesFacts DEF DeletedOut, Digests, Briefs
    <3> QED BY <2>1, <3>1 DEF Traceable, ErasedIsGone, Owned
  <2> QED BY <2>2 DEF DeletedStaysOut
<1> QED BY <1>1, MailInvariant, PTL

-----------------------------------------------------------------------------
(* The contract of an outbox.                                              *)

\* At most one digest is in flight.
LEMMA OneInFlight ==
    ASSUME NEW t, LaneShape(t), RowShape(t), NEW d \in Days, NEW e \in Days,
           t.dlv[d].state = "processing", t.dlv[e].state = "processing"
    PROVE  d = e
<1>1. t.dlv[e].token = <<e, t.dlv[e].attempts>> /\ t.dlv[d].token = <<d, t.dlv[d].attempts>>
    BY DEF RowShape
<1>2. t.fence = {t.dlv[e].token} /\ t.fence = {t.dlv[d].token}
    BY DEF LaneShape, InState
<1>3. <<e, t.dlv[e].attempts>>[1] = <<d, t.dlv[d].attempts>>[1]
    BY <1>1, <1>2
<1> QED BY <1>3

\* What the contract sees of a state of a digest.
Seen(st) ==
    CASE st = "none" -> "absent"
      [] st \in Unsent \cup {"empty"} -> "queued"
      [] st = "processing" -> "disclosing"
      [] OTHER -> st

\* State by state.
LEMMA SeenFacts ==
    /\ Seen("none") = "absent" /\ Seen("processing") = "disclosing" /\ Seen("empty") = "queued"
    /\ \A x \in Unsent : Seen(x) = "queued"
    /\ \A x \in {"delivered", "ambiguous", "failed", "cancelled"} : Seen(x) = x
    /\ \A x \in DeliveryState : Seen(x) = "disclosing" => x = "processing"
    /\ \A x \in DeliveryState : Seen(x) \in Contract!Status
BY DEF Seen, Unsent, Waiting, DeliveryState, Contract!Status

\* Initially no date has a row.
LEMMA ContractInit == Init => Contract!Init
<1> SUFFICES ASSUME Init PROVE Contract!Init
    OBVIOUS
<1>1. \A d \in Days : db.dlv[d].state = "none"
    BY DEF Init, NoMail, NoDelivery
<1>2. ContractStatus = [d \in Days |-> Seen(db.dlv[d].state)]
    BY DEF ContractStatus, Seen
<1>3. [d \in Days |-> Seen(db.dlv[d].state)] = [d \in Days |-> "absent"]
    BY <1>1, SeenFacts
<1>4. acted = [d \in Days |-> 0]
    BY DEF Init
<1> QED BY <1>2, <1>3, <1>4 DEF Contract!Init

\* Every step is a step of the contract, or changes nothing it sees.
LEMMA ContractNext ==
    ASSUME Inv, Inv', Locally
    PROVE  Contract!Next
<1>1. /\ ContractStatus = [d \in Days |-> Seen(db.dlv[d].state)]
      /\ ContractStatus' = [d \in Days |-> Seen(db'.dlv[d].state)]
    BY DEF ContractStatus, Seen
<1>2. /\ \A d \in Days : ContractStatus[d] = Seen(db.dlv[d].state)
      /\ \A d \in Days : ContractStatus'[d] = Seen(db'.dlv[d].state)
    BY <1>1
<1>3. /\ \A d \in Days : db.dlv[d].state \in DeliveryState
      /\ \A d \in Days : db'.dlv[d].state \in DeliveryState
      /\ acted' \in [Days -> Nat]
  <2>1. db \in Tables /\ db' \in Tables /\ acted' \in [Days -> Nat]
      BY DEF Inv, MailInv, WorkersTyped
  <2>2. \A d \in Days : db.dlv[d] \in Digests
      BY <2>1, TablesFacts
  <2>3. \A d \in Days : db'.dlv[d] \in Digests
      BY <2>1 DEF Tables
  <2> QED BY <2>1, <2>2, <2>3 DEF Digests
<1>4. ASSUME NEW d \in Days PROVE Contract!RowStep(d)
  <2>1. Local(db.dlv[d].state, db'.dlv[d].state, acted[d], acted'[d])
      BY DEF Locally
  <2>2. CASE Moves(db.dlv[d].state, db'.dlv[d].state) /\ acted'[d] = acted[d]
      BY <1>2, <2>2, SeenFacts
         DEF Moves, Contract!RowStep, Contract!GiveUp, Contract!Withdraw, Contract!Becomes
  <2>3. CASE db.dlv[d].state = "none" /\ db'.dlv[d].state \in Begun /\ acted'[d] = acted[d]
    <3>1. Seen(db'.dlv[d].state) = "queued"
        BY <2>3, SeenFacts, OpenFacts DEF Begun
    <3> QED BY <1>2, <2>3, <3>1, SeenFacts DEF Contract!RowStep, Contract!Enqueue, Contract!Becomes
  <2>4. CASE /\ db.dlv[d].state \in Unsent /\ db'.dlv[d].state = "processing"
             /\ acted[d] = 0 /\ acted'[d] = 0
      BY <1>2, <2>4, SeenFacts DEF Contract!RowStep, Contract!Disclose, Contract!Becomes
  <2>5. CASE /\ db.dlv[d].state \in {"processing", "ambiguous"}
             /\ db'.dlv[d].state = db.dlv[d].state /\ acted[d] = 0 /\ acted'[d] = 1
      BY <1>2, <2>5, SeenFacts DEF Contract!RowStep, Contract!Act
  <2>6. CASE /\ db.dlv[d].state = "processing" /\ db'.dlv[d].state \in {"retry_wait", "failed"}
             /\ acted[d] = 0 /\ acted'[d] = 0
      BY <1>2, <2>6, SeenFacts, OpenFacts DEF Contract!RowStep, Contract!Reject, Contract!Becomes
  <2>7. CASE /\ db.dlv[d].state = "processing" /\ db'.dlv[d].state = "delivered"
             /\ acted[d] = 1 /\ acted'[d] = 1
      BY <1>2, <2>7, SeenFacts DEF Contract!RowStep, Contract!Deliver, Contract!Becomes
  <2> QED BY <2>1, <2>2, <2>3, <2>4, <2>5, <2>6, <2>7 DEF Local
<1>5. ContractStatus' \in [Days -> Contract!Status]
    BY <1>1, <1>3, SeenFacts
<1>6. ASSUME NEW d \in Days, NEW e \in Days,
             ContractStatus'[d] = "disclosing", ContractStatus'[e] = "disclosing"
      PROVE  d = e
  <2>1. db'.dlv[d].state = "processing" /\ db'.dlv[e].state = "processing"
      BY <1>2, <1>3, <1>6, SeenFacts
  <2>2. PICK u : u = db'
      OBVIOUS
  <2>3. LaneShape(u) /\ RowShape(u)
      BY <2>2 DEF Inv, MailInv, LaneShape, RowShape, InState
  <2> QED BY <2>1, <2>2, <2>3, OneInFlight
<1> QED BY <1>3, <1>4, <1>5, <1>6 DEF Contract!Next

\* The digests of an account implement the contract of an outbox with
\* disclosure fences: a local date is never opened again, one digest is in
\* flight at a time, and once the provider may have accepted a digest nothing
\* more is sent for its date.
THEOREM Refinement == Spec => ImplementsContract
<1>1. Init => Contract!Init
    BY ContractInit
<1>2. Inv /\ Inv' /\ [Next]_vars => [Contract!Next]_(Contract!vars)
    BY NextInv, ContractNext
<1> QED BY <1>1, <1>2, MailInvariant, PTL DEF Spec, ImplementsContract, Contract!Spec
=============================================================================
