----------------------- MODULE MediaProcessingProofs -----------------------
(***************************************************************************)
(* Proofs about media processing, for every set of jobs, workers, request  *)
(* bodies and every bound on attempts and losses.                          *)
(***************************************************************************)
EXTENDS MediaProcessing, SequenceTheorems, NaturalsInduction, WellFoundedInduction, TLAPS

Entries == [body : Bodies, st : EntryState, ans : Answer]

\* TypeOK, with the journal as a sequence that keeps within the attempt cap.
Typed ==
    /\ TypeOK
    /\ journal \in [Units -> Seq(Entries)]
    /\ \A u \in Units : Len(journal[u]) <= MAX_MEDIA_PROVIDER_ATTEMPTS

\* A job is bound to a unit that names it, a deleted unit leaves no journal,
\* and a worker that is not idle has a unit.
Bound ==
    /\ \A j \in Jobs : member[j] # NoUnit => j \in member[j]
    /\ \A u \in Units : unit[u] = "absent" => journal[u] = << >>
    /\ \A w \in Workers : pc[w] # "idle" => wu[w] # NoUnit

\* The part of the invariant that is about jobs, units and claims.
RowsInv == Typed /\ Bound /\ ClaimIsWhole /\ ProjectedOnce

-----------------------------------------------------------------------------
\* The journal.

\* Replacing the last entry of a journal keeps its length.
LEMMA ReplaceLast ==
    ASSUME NEW s \in Seq(Entries), s # << >>, NEW e \in Entries
    PROVE  /\ [s EXCEPT ![Len(s)] = e] \in Seq(Entries)
           /\ [s EXCEPT ![Len(s)] = e] # << >>
           /\ Len([s EXCEPT ![Len(s)] = e]) = Len(s)
           /\ Last([s EXCEPT ![Len(s)] = e]) = e
<1> DEFINE t == [s EXCEPT ![Len(s)] = e]
<1>1. Len(s) \in Nat \ {0} /\ Len(s) \in 1..Len(s)
    OBVIOUS
<1>2. t \in Seq(Entries) /\ Len(t) = Len(s) /\ t[Len(s)] = e
    BY <1>1, ExceptSeq
<1> QED BY <1>1, <1>2 DEF Last

\* Marking the last entry keeps its body and its answer.
LEMMA MarkFacts ==
    ASSUME NEW s \in Seq(Entries), s # << >>, NEW st \in EntryState
    PROVE  /\ SetLast(s, st) \in Seq(Entries) /\ SetLast(s, st) # << >>
           /\ Len(SetLast(s, st)) = Len(s)
           /\ Last(SetLast(s, st)).st = st
           /\ Last(SetLast(s, st)).body = Last(s).body
           /\ Last(SetLast(s, st)).ans = Last(s).ans
<1> DEFINE e == [Last(s) EXCEPT !.st = st]
<1>1. Len(s) \in Nat \ {0} /\ Last(s) \in Entries
    BY DEF Last
<1>2. /\ e \in Entries /\ e.st = st /\ e.body = Last(s).body /\ e.ans = Last(s).ans
    BY <1>1 DEF Entries
<1>3. SetLast(s, st) = [s EXCEPT ![Len(s)] = e]
    BY <1>1 DEF Last, SetLast
<1> HIDE DEF e
<1>4. /\ SetLast(s, st) \in Seq(Entries) /\ SetLast(s, st) # << >>
      /\ Len(SetLast(s, st)) = Len(s) /\ Last(SetLast(s, st)) = e
    BY <1>2, <1>3, ReplaceLast
<1> QED BY <1>2, <1>4

\* Staging a response gives the last entry its answer.
Staged(s, an) == [s EXCEPT ![Len(s)].st = "response_staged", ![Len(s)].ans = an]

\* It keeps the length of the journal and the entry's body.
LEMMA StageFacts ==
    ASSUME NEW s \in Seq(Entries), s # << >>, NEW an \in Answer
    PROVE  /\ Staged(s, an) \in Seq(Entries) /\ Staged(s, an) # << >>
           /\ Len(Staged(s, an)) = Len(s)
           /\ Last(Staged(s, an)).st = "response_staged"
           /\ Last(Staged(s, an)).body = Last(s).body
           /\ Last(Staged(s, an)).ans = an
<1> DEFINE e == [Last(s) EXCEPT !.st = "response_staged", !.ans = an]
<1>1. Len(s) \in Nat \ {0} /\ Last(s) \in Entries
    BY DEF Last
<1>2. /\ e \in Entries /\ e.st = "response_staged" /\ e.body = Last(s).body /\ e.ans = an
    BY <1>1 DEF Entries, EntryState
<1>3. Staged(s, an) = [s EXCEPT ![Len(s)] = e]
    BY <1>1 DEF Last, Staged
<1> HIDE DEF e
<1>4. /\ Staged(s, an) \in Seq(Entries) /\ Staged(s, an) # << >>
      /\ Len(Staged(s, an)) = Len(s) /\ Last(Staged(s, an)) = e
    BY <1>2, <1>3, ReplaceLast
<1> QED BY <1>2, <1>4

\* A new entry becomes the last one.
LEMMA AppendFacts ==
    ASSUME NEW s \in Seq(Entries), NEW e \in Entries
    PROVE  /\ Append(s, e) \in Seq(Entries) /\ Append(s, e) # << >>
           /\ Len(Append(s, e)) = Len(s) + 1 /\ Last(Append(s, e)) = e
BY DEF Last

\* A journal that is not empty has a last entry.
LEMMA LastFacts ==
    ASSUME NEW s \in Seq(Entries)
    PROVE  /\ Len(s) \in Nat /\ (s = << >> <=> Len(s) = 0)
           /\ s # << >> => /\ Last(s) \in Entries /\ Last(s).st \in EntryState
                           /\ Last(s).body \in Bodies /\ Last(s).ans \in Answer
<1>1. Len(s) \in Nat /\ (s = << >> <=> Len(s) = 0)
    OBVIOUS
<1>2. s # << >> => Last(s) \in Entries
    BY <1>1 DEF Last
<1> QED BY <1>1, <1>2 DEF Entries

\* If there are candidates, the head is one of them.
LEMMA HeadFacts ==
    ASSUME Candidates # {} PROVE HeadJob \in Candidates /\ HeadJob \in Jobs
<1> DEFINE below == {ss \in Nat \X Nat : ss[1] < ss[2]}
<1>1. IsWellFoundedOn(below, Nat)
    BY NatLessThanWellFounded DEF OpToRel
<1>2. Candidates \subseteq Nat
    BY MediaAssumption DEF Candidates
<1>3. PICK x \in Candidates : \A y \in Candidates : ~(<<y, x>> \in below)
  <2> HIDE DEF below
  <2> QED BY <1>1, <1>2, WFMin
<1>4. ASSUME NEW y \in Candidates PROVE x <= y
  <2>1. x \in Nat /\ y \in Nat
      BY <1>2
  <2>2. <<y, x>> \in below <=> y < x
      BY <2>1
  <2> QED BY <1>3, <2>1, <2>2
<1>5. HeadJob \in Candidates
    BY <1>4 DEF HeadJob
<1> QED BY <1>5 DEF Candidates

-----------------------------------------------------------------------------
\* Jobs, units and claims.

\* A unit is a set of jobs that is not empty.
LEMMA UnitFacts ==
    NoUnit \notin Units /\ \A u \in Units : \A j \in u : j \in Jobs
BY DEF Units, NoUnit

\* The first state satisfies it.
LEMMA InitRows == Init => RowsInv
<1> SUFFICES ASSUME Init PROVE RowsInv
    OBVIOUS
<1>1. AnyBody \in Bodies /\ 1 \in Numbers /\ AttemptBound \in Nat
    BY MediaAssumption DEF AnyBody, Numbers, AttemptBound
<1>2. journal \in [Units -> Seq(Entries)] /\ \A u \in Units : Len(journal[u]) = 0
    BY DEF Init
<1>3. TypeOK
  <2>1. /\ job \in [Jobs -> JobState] /\ code \in [Jobs -> Code]
        /\ attempts \in [Jobs -> 0..AttemptBound]
        /\ due \in [Jobs -> BOOLEAN] /\ fenced \subseteq Jobs
        /\ member \in [Jobs -> Units \cup {NoUnit}]
      BY <1>1 DEF Init, JobState, Code
  <2>5. expired \in BOOLEAN
      BY DEF Init
  <2>2. /\ unit \in [Units -> UnitState] /\ ucode \in [Units -> Code]
        /\ tries \in [Units -> 0..TriesBound] /\ recovered \in [Units -> BOOLEAN]
        /\ owner \in [Units -> Workers \cup {Nobody}] /\ live \in [Units -> BOOLEAN]
      BY DEF Init, UnitState, Code, TriesBound
  <2>3. /\ pc \in [Workers -> PC] /\ wu \in [Workers -> Units \cup {NoUnit}]
        /\ wn \in [Workers -> Numbers] /\ wb \in [Workers -> Bodies]
        /\ wans \in [Workers -> Answer] /\ wdisp \in [Workers -> Disposition]
        /\ wcode \in [Workers -> Code]
      BY <1>1 DEF Init, PC, Answer, Disposition, Code
  <2>4. /\ ledger \in [Attempts -> Outcome]
        /\ charged \subseteq Attempts /\ projected \in [Jobs -> 0..2]
      BY DEF Init, Outcome
  <2> QED BY <1>2, <2>1, <2>2, <2>3, <2>4, <2>5 DEF TypeOK
<1>4. Typed
    BY <1>2, <1>3, MediaAssumption DEF Typed
<1>5. Bound /\ ClaimIsWhole /\ ProjectedOnce
    BY DEF Init, Bound, ClaimIsWhole, ProjectedOnce
<1> QED BY <1>4, <1>5 DEF RowsInv

\* Capture and time disturb no claim.
LEMMA RowsTime ==
    ASSUME RowsInv,
           \/ \E j \in Jobs : Arrive(j) \/ BecomeDue(j) \/ Resurrect(j) \/ BeginDeletion(j)
           \/ Expire
           \/ \E u \in Units : Lapse(u)
           \/ \E a \in Attempts : SweepStarted(a)
    PROVE  RowsInv'
<1> USE DEF jobvars, unitvars, wvars
<1>1. ASSUME NEW j \in Jobs, Arrive(j) \/ Resurrect(j)
      PROVE  RowsInv'
  <2>1. TypeOK'
      BY <1>1 DEF RowsInv, Typed, TypeOK, Arrive, Resurrect, JobState, Code
  <2>2. Typed'
      BY <1>1, <2>1 DEF RowsInv, Typed, Arrive, Resurrect
  <2>3. Bound'
      BY <1>1 DEF RowsInv, Bound, Arrive, Resurrect
  <2>5. ProjectedOnce'
      BY <1>1 DEF RowsInv, Typed, TypeOK, ProjectedOnce, Arrive, Resurrect
  <2>4. ClaimIsWhole'
      BY <1>1, UnitFacts DEF RowsInv, Typed, TypeOK, ClaimIsWhole, Arrive, Resurrect
  <2> QED BY <2>2, <2>3, <2>4, <2>5 DEF RowsInv
<1>2. ASSUME NEW j \in Jobs, BecomeDue(j) \/ BeginDeletion(j)
      PROVE  RowsInv'
  <2>1. TypeOK'
      BY <1>2 DEF RowsInv, Typed, TypeOK, BecomeDue, BeginDeletion
  <2> QED BY <1>2, <2>1 DEF RowsInv, Typed, Bound, ClaimIsWhole, ProjectedOnce,
             BecomeDue, BeginDeletion
<1>3. CASE Expire
  <2>1. TypeOK'
      BY <1>3 DEF RowsInv, Typed, TypeOK, Expire
  <2> QED BY <1>3, <2>1 DEF RowsInv, Typed, Bound, ClaimIsWhole, ProjectedOnce, Expire
<1>4. ASSUME NEW u \in Units, Lapse(u)
      PROVE  RowsInv'
  <2>1. TypeOK'
      BY <1>4 DEF RowsInv, Typed, TypeOK, Lapse
  <2> QED BY <1>4, <2>1 DEF RowsInv, Typed, Bound, ClaimIsWhole, ProjectedOnce, Lapse
<1>5. ASSUME NEW a \in Attempts, SweepStarted(a)
      PROVE  RowsInv'
  <2>1. TypeOK'
      BY <1>5 DEF RowsInv, Typed, TypeOK, SweepStarted, Outcome
  <2> QED BY <1>5, <2>1 DEF RowsInv, Typed, Bound, ClaimIsWhole, ProjectedOnce, SweepStarted
<1> QED BY <1>1, <1>2, <1>3, <1>4, <1>5

\* The parts of RowsInv a worker's own step can disturb.
WorkersTyped ==
    /\ pc \in [Workers -> PC] /\ wu \in [Workers -> Units \cup {NoUnit}]
    /\ wn \in [Workers -> Numbers] /\ wb \in [Workers -> Bodies]
    /\ wans \in [Workers -> Answer] /\ wdisp \in [Workers -> Disposition]
    /\ wcode \in [Workers -> Code]
    /\ \A w \in Workers : pc[w] # "idle" => wu[w] # NoUnit
JournalTyped ==
    /\ journal \in [Units -> Seq(Entries)]
    /\ \A u \in Units : Len(journal[u]) <= MAX_MEDIA_PROVIDER_ATTEMPTS
    /\ \A u \in Units : unit[u] = "absent" => journal[u] = << >>
LedgerTyped == ledger \in [Attempts -> Outcome] /\ charged \subseteq Attempts

\* RowsInv has these parts.
LEMMA RowsParts == RowsInv => WorkersTyped /\ JournalTyped /\ LedgerTyped
BY DEF RowsInv, Typed, TypeOK, Bound, WorkersTyped, JournalTyped, LedgerTyped

\* A worker's own step has only these parts to keep.
LEMMA RowsKept ==
    ASSUME RowsInv, WorkersTyped', JournalTyped', LedgerTyped',
           UNCHANGED <<job, code, attempts, due, expired, fenced, member, unit, ucode,
                       tries, recovered, owner, live, projected>>
    PROVE  RowsInv'
<1>1. \A u \in Units : \A i \in 1..Len(journal'[u]) : journal'[u][i] \in Entries
    BY DEF JournalTyped
<1>2. TypeOK'
    BY <1>1 DEF RowsInv, Typed, TypeOK, WorkersTyped, LedgerTyped, Entries
<1>3. Typed' /\ Bound'
    BY <1>2 DEF RowsInv, Typed, Bound, WorkersTyped, JournalTyped
<1>4. ClaimIsWhole' /\ ProjectedOnce'
    BY DEF RowsInv, ClaimIsWhole, ProjectedOnce
<1> QED BY <1>3, <1>4 DEF RowsInv

\* A busy worker speaks for an attempt of its unit.
LEMMA BusyFacts ==
    ASSUME WorkersTyped, NEW w \in Workers, pc[w] # "idle"
    PROVE  wu[w] \in Units /\ WAttempt(w) \in Attempts
BY DEF WorkersTyped, WAttempt, Attempts

\* A worker that releases its claim stays typed.
LEMMA WorkerRelease ==
    ASSUME WorkersTyped, NEW w \in Workers, Release(w) PROVE WorkersTyped'
<1>1. AnyBody \in Bodies /\ 1 \in Numbers
    BY MediaAssumption DEF AnyBody, Numbers
<1> QED BY <1>1 DEF WorkersTyped, Release, Goto, PC, Answer, Disposition, Code

\* So does one that goes on.
LEMMA WorkerGoto ==
    ASSUME WorkersTyped, NEW w \in Workers, pc[w] # "idle", NEW l \in PC, Goto(w, l),
           KeepClaim, UNCHANGED <<wdisp, wcode>>
    PROVE  WorkersTyped'
BY DEF WorkersTyped, Goto, KeepClaim

\* And one whose request failed.
LEMMA WorkerFail ==
    ASSUME WorkersTyped, NEW w \in Workers, pc[w] # "idle",
           NEW d \in Disposition, NEW c \in Code, FailWith(w, d, c), KeepClaim
    PROVE  WorkersTyped'
BY DEF WorkersTyped, Goto, FailWith, KeepClaim, PC

\* A journal whose unit exists takes any typed content within the cap.
LEMMA JournalPut ==
    ASSUME JournalTyped, NEW u \in Units, NEW s \in Seq(Entries),
           Len(s) <= MAX_MEDIA_PROVIDER_ATTEMPTS, unit[u] # "absent",
           journal' = [journal EXCEPT ![u] = s], unit' = unit
    PROVE  JournalTyped'
BY DEF JournalTyped

\* So does the ledger take any outcome.
LEMMA LedgerPut ==
    ASSUME LedgerTyped, NEW a \in Attempts, NEW o \in Outcome,
           ledger' = [ledger EXCEPT ![a] = o], charged' = charged
    PROVE  LedgerTyped'
BY DEF LedgerTyped

\* The steps of an owner that write no row but the journal's and the ledger's.
LEMMA RowsOwner ==
    ASSUME RowsInv, NEW w \in Workers,
           \/ PrepareFails(w) \/ \E b \in Bodies : PrepareBegins(w, b)
           \/ Authorize(w) \/ AuthorizeUnacknowledged(w) \/ Refuse(w)
           \/ SendLost(w) \/ \E ans \in Answers : SendAnswered(w, ans)
           \/ Stage(w) \/ Parse(w) \/ SettleUsage(w) \/ SettleUsageRefused(w)
           \/ ProjectRefused(w) \/ SettleFailureRefused(w) \/ Crash(w)
    PROVE  RowsInv'
<1> USE DEF jobvars, unitvars, wvars, KeepRows
<1>0. WorkersTyped /\ JournalTyped /\ LedgerTyped
    BY RowsParts
<1>1. CASE SettleUsageRefused(w) \/ ProjectRefused(w) \/ SettleFailureRefused(w) \/ Crash(w)
  <2>1. Release(w) /\ UNCHANGED <<journal, ledger, charged>>
        /\ UNCHANGED <<job, code, attempts, due, expired, fenced, member, unit, ucode,
                       tries, recovered, owner, live, projected>>
      BY <1>1 DEF SettleUsageRefused, ProjectRefused, SettleFailureRefused, Crash
  <2>2. WorkersTyped' /\ JournalTyped' /\ LedgerTyped'
      BY <1>0, <2>1, WorkerRelease DEF JournalTyped, LedgerTyped
  <2> QED BY <2>1, <2>2, RowsKept
<1>2. CASE PrepareFails(w)
  <2>1. PICK c \in LocalFailures : FailWith(w, "before_egress", c)
      BY <1>2 DEF PrepareFails
  <2>2. c \in Code /\ "before_egress" \in Disposition
      BY MediaAssumption DEF Code, NonResurrectable, Disposition
  <2>3. pc[w] # "idle" /\ KeepClaim /\ UNCHANGED <<journal, ledger, charged>>
        /\ UNCHANGED <<job, code, attempts, due, expired, fenced, member, unit, ucode,
                       tries, recovered, owner, live, projected>>
      BY <1>2 DEF PrepareFails, KeepClaim
  <2>4. WorkersTyped' /\ JournalTyped' /\ LedgerTyped'
      BY <1>0, <2>1, <2>2, <2>3, WorkerFail DEF JournalTyped, LedgerTyped
  <2> QED BY <2>3, <2>4, RowsKept
<1>3. ASSUME NEW b \in Bodies, PrepareBegins(w, b)
      PROVE  RowsInv'
  <2>1. wu[w] \in Units /\ <<wu[w], wn[w], b>> \in Attempts
      BY <1>0, <1>3, BusyFacts DEF PrepareBegins, WorkersTyped, Attempts
  <2>2. ledger[<<wu[w], wn[w], b>>] \in Outcome
      BY <1>0, <2>1 DEF LedgerTyped
  <2>3. WorkersTyped'
      BY <1>0, <1>3 DEF WorkersTyped, PrepareBegins, Goto, FailWith, PC, Disposition, Code,
         NonResurrectable
  <2>4. LedgerTyped' /\ JournalTyped'
      BY <1>0, <1>3, <2>1, <2>2 DEF LedgerTyped, JournalTyped, PrepareBegins, Outcome
  <2>5. UNCHANGED <<job, code, attempts, due, expired, fenced, member, unit, ucode,
                    tries, recovered, owner, live, projected>>
      BY <1>3 DEF PrepareBegins
  <2> QED BY <2>3, <2>4, <2>5, RowsKept
<1>4. CASE Authorize(w) \/ AuthorizeUnacknowledged(w)
  <2> DEFINE e == [body |-> wb[w], st |-> "admitted", ans |-> "ok"]
  <2>1. wu[w] \in Units /\ pc[w] # "idle"
      BY <1>0, <1>4, BusyFacts DEF Authorize, AuthorizeUnacknowledged
  <2>2. UNCHANGED <<job, code, attempts, due, expired, fenced, member, unit, ucode,
                    tries, recovered, owner, live, projected, wu, wn, wb, wans, wdisp,
                    wcode, ledger, charged>>
      BY <1>4 DEF Authorize, AuthorizeUnacknowledged
  <2>3. Goto(w, "send") \/ Goto(w, "refused")
      BY <1>4 DEF Authorize, AuthorizeUnacknowledged
  <2>4. WorkersTyped' /\ LedgerTyped'
      BY <1>0, <2>1, <2>2, <2>3, WorkerGoto DEF LedgerTyped, KeepClaim, PC
  <2>5. JournalTyped'
    <3>1. CASE journal' = journal
        BY <1>0, <2>2, <3>1 DEF JournalTyped
    <3>2. CASE journal' # journal
      <4>1. Authorized(w) /\ Admit(w)
          BY <1>4, <3>2 DEF Authorize, AuthorizeUnacknowledged
      <4>2. e \in Entries
          BY <1>0 DEF WorkersTyped, Entries, EntryState, Answer
      <4>3. wn[w] \in Nat /\ wn[w] <= MAX_MEDIA_PROVIDER_ATTEMPTS
          BY <1>0, MediaAssumption DEF WorkersTyped, Numbers
      <4>4. journal[wu[w]] \in Seq(Entries) /\ unit[wu[w]] # "absent"
            /\ Len(journal[wu[w]]) = wn[w] - 1
          BY <1>0, <2>1, <4>1 DEF JournalTyped, Authorized, Holds
      <4>5. journal' = [journal EXCEPT ![wu[w]] = Append(journal[wu[w]], e)]
          BY <4>1 DEF Admit
      <4> HIDE DEF e
      <4>6. Append(journal[wu[w]], e) \in Seq(Entries)
            /\ Len(Append(journal[wu[w]], e)) <= MAX_MEDIA_PROVIDER_ATTEMPTS
          BY <4>2, <4>3, <4>4, AppendFacts, MediaAssumption
      <4> QED BY <1>0, <2>1, <2>2, <4>4, <4>5, <4>6, JournalPut
    <3> QED BY <3>1, <3>2
  <2> QED BY <2>2, <2>4, <2>5, RowsKept
<1>5. CASE Refuse(w)
  <2>1. pc[w] # "idle" /\ KeepClaim /\ UNCHANGED <<journal, charged>>
        /\ UNCHANGED <<job, code, attempts, due, expired, fenced, member, unit, ucode,
                       tries, recovered, owner, live, projected>>
      BY <1>5 DEF Refuse, KeepClaim
  <2>2. \/ FailWith(w, "not_billed", "vertex_not_billed")
        \/ FailWith(w, "ambiguous", "vertex_ambiguous")
      BY <1>5 DEF Refuse
  <2>3. WorkersTyped' /\ JournalTyped'
      BY <1>0, <2>1, <2>2, WorkerFail
      DEF JournalTyped, Disposition, Code, NonResurrectable
  <2>4. LedgerTyped'
      BY <1>0, <1>5 DEF LedgerTyped, Refuse, Outcome
  <2> QED BY <2>1, <2>3, <2>4, RowsKept
<1>6. CASE SendLost(w) \/ \E ans \in Answers : SendAnswered(w, ans)
  <2>1. pc[w] # "idle" /\ UNCHANGED <<wu, wn, wb, journal, ledger>>
        /\ UNCHANGED <<job, code, attempts, due, expired, fenced, member, unit, ucode,
                       tries, recovered, owner, live, projected>>
      BY <1>6 DEF SendLost, SendAnswered
  <2>2. WorkersTyped'
      BY <1>0, <1>6, MediaAssumption DEF WorkersTyped, SendLost, SendAnswered, Goto, FailWith, PC,
         Disposition, Code, NonResurrectable, Answer
  <2>3. charged' = charged \/ charged' = charged \cup {WAttempt(w)}
      BY <1>6 DEF SendLost, SendAnswered
  <2>4. LedgerTyped' /\ JournalTyped'
      BY <1>0, <2>1, <2>3, BusyFacts DEF LedgerTyped, JournalTyped
  <2> QED BY <2>1, <2>2, <2>4, RowsKept
<1>7. CASE Stage(w)
  <2>1. pc[w] # "idle" /\ KeepClaim /\ UNCHANGED charged
        /\ UNCHANGED <<job, code, attempts, due, expired, fenced, member, unit, ucode,
                       tries, recovered, owner, live, projected>>
      BY <1>7 DEF Stage, KeepClaim
  <2>2. \/ Goto(w, "parse") /\ UNCHANGED <<wdisp, wcode>>
        \/ FailWith(w, "ambiguous", "vertex_ambiguous")
      BY <1>7 DEF Stage
  <2>3. WorkersTyped'
      BY <1>0, <2>1, <2>2, WorkerFail, WorkerGoto
      DEF Disposition, Code, NonResurrectable, PC
  <2>4. wu[w] \in Units /\ WAttempt(w) \in Attempts /\ ledger[WAttempt(w)] \in Outcome
      BY <1>0, <2>1, BusyFacts DEF LedgerTyped
  <2>5. LedgerTyped'
    <3>1. ledger' = ledger \/ ledger' = [ledger EXCEPT ![WAttempt(w)] =
                                 IF @ = "started" THEN "ambiguous" ELSE @]
        BY <1>7 DEF Stage
    <3> QED BY <1>0, <2>1, <2>4, <3>1 DEF LedgerTyped, Outcome
  <2>6. JournalTyped'
    <3>1. CASE journal' = journal
        BY <1>0, <2>1, <3>1 DEF JournalTyped
    <3>2. CASE journal' # journal
      <4> DEFINE s == journal[wu[w]]
                 t == Staged(s, wans[w])
      <4>1. CanStage(w) /\ journal' = [journal EXCEPT ![wu[w]] = t]
          BY <1>7, <3>2 DEF Stage, Staged
      <4>2. s \in Seq(Entries) /\ s # << >> /\ Len(s) <= MAX_MEDIA_PROVIDER_ATTEMPTS
            /\ unit[wu[w]] # "absent" /\ wans[w] \in Answer
          BY <1>0, <2>4, <4>1 DEF JournalTyped, WorkersTyped, CanStage, SpeaksFor, Holds
      <4> HIDE DEF s
      <4>3. t \in Seq(Entries) /\ Len(t) = Len(s)
          BY <4>2, StageFacts
      <4> HIDE DEF t
      <4> QED BY <1>0, <2>1, <2>4, <4>1, <4>2, <4>3, JournalPut
    <3> QED BY <3>1, <3>2
  <2> QED BY <2>1, <2>3, <2>5, <2>6, RowsKept
<1>8. CASE Parse(w)
  <2>1. pc[w] # "idle" /\ UNCHANGED <<journal, charged>>
        /\ UNCHANGED <<job, code, attempts, due, expired, fenced, member, unit, ucode,
                       tries, recovered, owner, live, projected>>
      BY <1>8 DEF Parse
  <2>2. HttpDisposition(wans[w]) \in {"not_billed", "ambiguous", "none"}
      BY DEF HttpDisposition
  <2>3. \/ /\ KeepClaim
           /\ \/ FailWith(w, "not_billed", "vertex_not_billed")
              \/ FailWith(w, "ambiguous", "vertex_ambiguous")
        \/ KeepClaim /\ Goto(w, "usage") /\ UNCHANGED <<wdisp, wcode>>
        \/ Release(w)
      BY <1>8, <2>2 DEF Parse
  <2>4. WorkersTyped'
      BY <1>0, <2>1, <2>3, WorkerFail, WorkerGoto, WorkerRelease
      DEF Disposition, Code, NonResurrectable, PC
  <2>5. WAttempt(w) \in Attempts /\ ledger[WAttempt(w)] \in Outcome
      BY <1>0, <2>1, BusyFacts DEF LedgerTyped
  <2>6. PICK o \in Outcome : ledger' = [ledger EXCEPT ![WAttempt(w)] = o]
      BY <1>8, <2>2, <2>5 DEF Parse, Outcome
  <2>7. LedgerTyped' /\ JournalTyped'
      BY <1>0, <2>1, <2>5, <2>6, LedgerPut DEF JournalTyped
  <2> QED BY <2>1, <2>4, <2>7, RowsKept
<1>9. CASE SettleUsage(w)
  <2>1. pc[w] # "idle" /\ KeepClaim /\ UNCHANGED <<ledger, charged>>
        /\ UNCHANGED <<job, code, attempts, due, expired, fenced, member, unit, ucode,
                       tries, recovered, owner, live, projected>>
      BY <1>9 DEF SettleUsage
  <2>2. \/ Goto(w, "project") /\ UNCHANGED <<wdisp, wcode>>
        \/ FailWith(w, "confirmed_invalid", "invalid_model_output")
      BY <1>9 DEF SettleUsage
  <2>3. WorkersTyped' /\ LedgerTyped'
      BY <1>0, <2>1, <2>2, WorkerFail, WorkerGoto
      DEF Disposition, Code, NonResurrectable, PC, LedgerTyped
  <2>4. wu[w] \in Units
      BY <1>0, <2>1, BusyFacts
  <2>5. journal[wu[w]] \in Seq(Entries) /\ journal[wu[w]] # << >>
        /\ Len(journal[wu[w]]) <= MAX_MEDIA_PROVIDER_ATTEMPTS /\ unit[wu[w]] # "absent"
      BY <1>0, <1>9, <2>4 DEF JournalTyped, SettleUsage, UsageSettles, SpeaksFor, Holds
  <2>6. journal' = [journal EXCEPT ![wu[w]] = SetLast(journal[wu[w]], "usage_settled")]
      BY <1>9 DEF SettleUsage
  <2>7. SetLast(journal[wu[w]], "usage_settled") \in Seq(Entries)
        /\ Len(SetLast(journal[wu[w]], "usage_settled")) = Len(journal[wu[w]])
      BY <2>5, MarkFacts DEF EntryState
  <2>8. JournalTyped'
      BY <1>0, <2>1, <2>4, <2>5, <2>6, <2>7, JournalPut
  <2> QED BY <2>1, <2>3, <2>8, RowsKept
<1> QED BY <1>1, <1>2, <1>3, <1>4, <1>5, <1>6, <1>7, <1>8, <1>9

\* The other parts of RowsInv: the job rows and the unit rows.
JobsTyped ==
    /\ job \in [Jobs -> JobState] /\ code \in [Jobs -> Code]
    /\ attempts \in [Jobs -> 0..AttemptBound] /\ due \in [Jobs -> BOOLEAN]
    /\ member \in [Jobs -> Units \cup {NoUnit}]
    /\ projected \in [Jobs -> 0..2]
    /\ \A j \in Jobs : member[j] # NoUnit => j \in member[j]
UnitsTyped ==
    /\ unit \in [Units -> UnitState] /\ ucode \in [Units -> Code]
    /\ tries \in [Units -> 0..TriesBound] /\ recovered \in [Units -> BOOLEAN]
    /\ owner \in [Units -> Workers \cup {Nobody}] /\ live \in [Units -> BOOLEAN]

\* RowsInv has these parts too.
LEMMA RowsWhole ==
    RowsInv => /\ JobsTyped /\ UnitsTyped /\ WorkersTyped /\ JournalTyped /\ LedgerTyped
               /\ expired \in BOOLEAN /\ fenced \subseteq Jobs
               /\ ClaimIsWhole /\ ProjectedOnce
BY RowsParts DEF RowsInv, Typed, TypeOK, Bound, JobsTyped, UnitsTyped

\* It holds after a step that keeps all of them.
LEMMA RowsJoin ==
    ASSUME JobsTyped', UnitsTyped', WorkersTyped', JournalTyped', LedgerTyped',
           (expired \in BOOLEAN)', (fenced \subseteq Jobs)', ClaimIsWhole', ProjectedOnce'
    PROVE  RowsInv'
<1>1. \A u \in Units : \A i \in 1..Len(journal'[u]) : journal'[u][i] \in Entries
    BY DEF JournalTyped
<1>2. TypeOK'
    BY <1>1 DEF TypeOK, JobsTyped, UnitsTyped, WorkersTyped, LedgerTyped, Entries
<1>3. Bound'
    BY DEF Bound, JobsTyped, JournalTyped, WorkersTyped
<1> QED BY <1>2, <1>3 DEF RowsInv, Typed, JournalTyped

\* Counters stay within their bounds.
LEMMA CounterFacts ==
    /\ \A n \in 0..AttemptBound :
          Bump(n, AttemptBound) \in 0..AttemptBound /\ Unbump(n) \in 0..AttemptBound
    /\ \A n \in 0..TriesBound : Bump(n, TriesBound) \in 0..TriesBound
    /\ \A n \in 0..2 : Bump(n, 2) \in 0..2 /\ (n = 0 => Bump(n, 2) = 1)
<1>1. AttemptBound \in Nat
    BY MediaAssumption DEF AttemptBound
<1>2. \A n \in 0..AttemptBound :
          Bump(n, AttemptBound) \in 0..AttemptBound /\ Unbump(n) \in 0..AttemptBound
    BY <1>1 DEF Bump, Unbump
<1> QED BY <1>2 DEF Bump, TriesBound

\* A unit whose members are all bound to it is closed, its members with it.
LEMMA CloseFacts ==
    ASSUME RowsInv, NEW u \in Units, \A j \in u : member[j] = u,
           NEW st \in {"succeeded", "failed_terminal", "retry_wait"}, NEW c \in Code,
           job' = Put(job, u, st), code' = Put(code, u, c),
           CloseUnit(u, st, c), UNCHANGED <<fenced, member, tries, recovered>>,
           attempts' \in [Jobs -> 0..AttemptBound], due' \in [Jobs -> BOOLEAN],
           projected' \in [Jobs -> 0..2]
    PROVE  JobsTyped' /\ UnitsTyped' /\ ClaimIsWhole'
<1>0. JobsTyped /\ UnitsTyped /\ ClaimIsWhole
    BY RowsWhole
<1>1. /\ job' \in [Jobs -> JobState] /\ code' \in [Jobs -> Code]
      /\ \A j \in Jobs : job'[j] = IF j \in u THEN st ELSE job[j]
    BY <1>0 DEF JobsTyped, JobState, Put
<1>2. JobsTyped'
    BY <1>0, <1>1 DEF JobsTyped
<1>3. UnitsTyped'
    BY <1>0 DEF UnitsTyped, CloseUnit, UnitState
<1>4. ClaimIsWhole'
    BY <1>0, <1>1, UnitFacts DEF JobsTyped, UnitsTyped, ClaimIsWhole, CloseUnit
<1> QED BY <1>2, <1>3, <1>4

\* A journal entry may be marked or added while its unit is closed.
LEMMA JournalClose ==
    ASSUME JournalTyped, UnitsTyped, NEW u \in Units, NEW s \in Seq(Entries),
           Len(s) <= MAX_MEDIA_PROVIDER_ATTEMPTS,
           NEW st \in {"succeeded", "failed_terminal", "retry_wait"},
           journal' = [journal EXCEPT ![u] = s], unit' = [unit EXCEPT ![u] = st]
    PROVE  JournalTyped'
BY DEF JournalTyped, UnitsTyped

\* Whoever holds a claim holds all of it.
LEMMA HoldFacts ==
    ASSUME RowsInv, NEW w \in Workers, pc[w] # "idle", Holds(w)
    PROVE  /\ wu[w] \in Units /\ unit[wu[w]] = "processing" /\ owner[wu[w]] = w
           /\ \A j \in wu[w] : j \in Jobs /\ member[j] = wu[w] /\ job[j] = "processing"
BY RowsParts, BusyFacts, UnitFacts DEF Holds

\* The projection of a result.
LEMMA RowsProject ==
    ASSUME RowsInv, NEW w \in Workers, Project(w) PROVE RowsInv'
<1> USE DEF jobvars, unitvars, wvars
<1> DEFINE u == wu[w]
<1>0. JobsTyped /\ UnitsTyped /\ WorkersTyped /\ JournalTyped /\ LedgerTyped
      /\ ClaimIsWhole /\ ProjectedOnce /\ expired \in BOOLEAN /\ fenced \subseteq Jobs
    BY RowsWhole
<1>1. /\ u \in Units /\ \A j \in u : member[j] = u /\ job[j] = "processing" /\ j \in Jobs
    BY HoldFacts DEF Project, CanProject
<1>2. /\ job' = Put(job, u, "succeeded") /\ code' = Put(code, u, "none")
      /\ CloseUnit(u, "succeeded", "none")
      /\ journal' = [journal EXCEPT ![u] = SetLast(journal[u], "settled")]
      /\ projected' = [j \in Jobs |-> IF j \in u THEN Bump(projected[j], 2) ELSE projected[j]]
      /\ Release(w)
      /\ UNCHANGED <<attempts, due, expired, fenced, member, tries, recovered, ledger, charged>>
      /\ SpeaksFor(w)
    BY DEF Project, CanProject
<1>3. projected' \in [Jobs -> 0..2]
    BY <1>0, <1>2, CounterFacts DEF JobsTyped
<1>4. "none" \in Code
    BY DEF Code
<1>5. JobsTyped' /\ UnitsTyped' /\ ClaimIsWhole'
  <2> HIDE DEF u
  <2> QED BY <1>0, <1>1, <1>2, <1>3, <1>4, CloseFacts DEF JobsTyped
<1>6. journal[u] \in Seq(Entries) /\ journal[u] # << >>
      /\ Len(journal[u]) <= MAX_MEDIA_PROVIDER_ATTEMPTS
    BY <1>0, <1>1, <1>2 DEF JournalTyped, SpeaksFor
<1>7. SetLast(journal[u], "settled") \in Seq(Entries)
      /\ Len(SetLast(journal[u], "settled")) = Len(journal[u])
  <2> HIDE DEF u
  <2> QED BY <1>6, MarkFacts DEF EntryState
<1>8. JournalTyped' /\ WorkersTyped' /\ LedgerTyped'
  <2> HIDE DEF u
  <2> QED BY <1>0, <1>1, <1>2, <1>6, <1>7, JournalClose, WorkerRelease
          DEF LedgerTyped, CloseUnit
<1>9. ProjectedOnce'
  <2>1. \A j \in Jobs : job'[j] = IF j \in u THEN "succeeded" ELSE job[j]
    <3> HIDE DEF u
    <3> QED BY <1>0, <1>2 DEF JobsTyped, Put
  <2>2. \A j \in u : projected[j] = 0
      BY <1>0, <1>1 DEF ProjectedOnce, JobsTyped
  <2> QED BY <1>0, <1>1, <1>2, <2>1, <2>2, CounterFacts DEF ProjectedOnce
<1> QED BY <1>0, <1>2, <1>5, <1>8, <1>9, RowsJoin

\* What settle_failure leaves in the journal is typed and within the cap.
LEMMA FailureJournal ==
    ASSUME RowsInv, NEW w \in Workers, pc[w] = "fail", FailureSettles(w),
           NEW s, s = IF wdisp[w] = "before_egress" THEN journal[wu[w]]
                      ELSE IF Appends(w)
                      THEN Append(journal[wu[w]],
                                  [body |-> wb[w], st |-> EntryFor(wdisp[w]), ans |-> "ok"])
                      ELSE SetLast(journal[wu[w]], EntryFor(wdisp[w]))
    PROVE  s \in Seq(Entries) /\ Len(s) <= MAX_MEDIA_PROVIDER_ATTEMPTS
<1>0. WorkersTyped /\ JournalTyped /\ wu[w] \in Units
    BY RowsParts, BusyFacts
<1>1. journal[wu[w]] \in Seq(Entries) /\ Len(journal[wu[w]]) <= MAX_MEDIA_PROVIDER_ATTEMPTS
    BY <1>0 DEF JournalTyped
<1>2. wn[w] \in Nat /\ wn[w] <= MAX_MEDIA_PROVIDER_ATTEMPTS
    BY <1>0, MediaAssumption DEF WorkersTyped, Numbers
<1>3. EntryFor(wdisp[w]) \in EntryState
    BY DEF EntryFor, EntryState
<1>4. CASE wdisp[w] = "before_egress"
    BY <1>1, <1>4
<1>5. CASE wdisp[w] # "before_egress" /\ Appends(w)
  <2> DEFINE e == [body |-> wb[w], st |-> EntryFor(wdisp[w]), ans |-> "ok"]
  <2>1. e \in Entries
      BY <1>0, <1>3 DEF WorkersTyped, Entries, Answer
  <2>2. s = Append(journal[wu[w]], e) /\ Len(journal[wu[w]]) = wn[w] - 1
      BY <1>5 DEF Appends
  <2> HIDE DEF e
  <2>3. s \in Seq(Entries) /\ Len(s) = Len(journal[wu[w]]) + 1
      BY <1>1, <2>1, <2>2, AppendFacts
  <2> QED BY <1>1, <1>2, <2>2, <2>3
<1>6. CASE wdisp[w] # "before_egress" /\ ~Appends(w)
  <2>1. journal[wu[w]] # << >> /\ s = SetLast(journal[wu[w]], EntryFor(wdisp[w]))
      BY <1>6 DEF FailureSettles, SpeaksFor
  <2>2. s \in Seq(Entries) /\ Len(s) = Len(journal[wu[w]])
      BY <1>1, <1>3, <2>1, MarkFacts
  <2> QED BY <1>1, <2>2
<1> QED BY <1>4, <1>5, <1>6

\* A failure is settled.
LEMMA RowsFailure ==
    ASSUME RowsInv, NEW w \in Workers, SettleFailure(w) PROVE RowsInv'
<1> USE DEF jobvars, unitvars, wvars
<1> DEFINE u == wu[w]
           st == IF Terminal(w) THEN "failed_terminal" ELSE "retry_wait"
           s == IF wdisp[w] = "before_egress" THEN journal[u]
                ELSE IF Appends(w)
                THEN Append(journal[u],
                            [body |-> wb[w], st |-> EntryFor(wdisp[w]), ans |-> "ok"])
                ELSE SetLast(journal[u], EntryFor(wdisp[w]))
<1>0. JobsTyped /\ UnitsTyped /\ WorkersTyped /\ JournalTyped /\ LedgerTyped
      /\ ClaimIsWhole /\ ProjectedOnce /\ expired \in BOOLEAN /\ fenced \subseteq Jobs
    BY RowsWhole
<1>1. /\ u \in Units /\ \A j \in u : member[j] = u /\ job[j] = "processing" /\ j \in Jobs
    BY HoldFacts DEF SettleFailure, FailureSettles
<1>2. /\ job' = Put(job, u, st) /\ code' = Put(code, u, wcode[w])
      /\ CloseUnit(u, st, wcode[w])
      /\ journal' = [journal EXCEPT ![u] = s]
      /\ due' = Put(due, u, FALSE)
      /\ Release(w)
      /\ UNCHANGED <<expired, fenced, member, tries, recovered, ledger, charged, projected>>
      /\ pc[w] = "fail" /\ FailureSettles(w)
    BY DEF SettleFailure
<1>3. attempts' \in [Jobs -> 0..AttemptBound] /\ due' \in [Jobs -> BOOLEAN]
  <2>1. due' \in [Jobs -> BOOLEAN]
      BY <1>0, <1>2 DEF JobsTyped, Put
  <2>2. attempts' \in [Jobs -> 0..AttemptBound]
      BY <1>0, CounterFacts DEF JobsTyped, SettleFailure
  <2> QED BY <2>1, <2>2
<1>4. wcode[w] \in Code /\ st \in {"succeeded", "failed_terminal", "retry_wait"}
    BY <1>0 DEF WorkersTyped
<1>5. s \in Seq(Entries) /\ Len(s) <= MAX_MEDIA_PROVIDER_ATTEMPTS
    BY <1>2, FailureJournal
<1> HIDE DEF u, st, s
<1>6. JobsTyped' /\ UnitsTyped' /\ ClaimIsWhole'
    BY <1>0, <1>1, <1>2, <1>3, <1>4, CloseFacts DEF JobsTyped
<1>7. JournalTyped' /\ WorkersTyped' /\ LedgerTyped'
    BY <1>0, <1>1, <1>2, <1>4, <1>5, JournalClose, WorkerRelease DEF LedgerTyped, CloseUnit
<1>8. ProjectedOnce'
  <2>1. \A j \in Jobs : job'[j] = IF j \in u THEN st ELSE job[j]
      BY <1>0, <1>2 DEF JobsTyped, Put
  <2>2. \A j \in u : projected[j] # 1
      BY <1>0, <1>1 DEF ProjectedOnce
  <2> QED BY <1>0, <1>2, <2>1, <2>2 DEF ProjectedOnce
<1> QED BY <1>0, <1>2, <1>6, <1>7, <1>8, RowsJoin

\* What a claim selects: a unit of eligible jobs, bound to it or to none.
LEMMA SelectionFacts ==
    ASSUME RowsInv, Candidates # {}, Selected(Selection)
    PROVE  /\ Selection \in Units
           /\ unit[Selection] \in {"absent", "processing", "retry_wait"}
           /\ \A j \in Selection :
                 /\ j \in Jobs /\ member[j] \in {Selection, NoUnit}
                 /\ job[j] \in {"pending", "retry_wait", "processing"}
           /\ unit[Selection] # "absent" => \A j \in Selection : member[j] = Selection
<1>0. JobsTyped /\ HeadJob \in Jobs
    BY RowsWhole, HeadFacts
<1>1. CASE member[HeadJob] # NoUnit
  <2>1. Selection = member[HeadJob] /\ Selection \in Units /\ ~Invalid(Selection)
      BY <1>0, <1>1 DEF Selection, Selected, JobsTyped
  <2>2. \A j \in Selection : j \in Jobs
      BY <2>1, UnitFacts
  <2> QED BY <2>1, <2>2 DEF Invalid, Eligible
<1>2. CASE member[HeadJob] = NoUnit
  <2>1. Selection = PlanFirst /\ Selection # {} /\ unit[Selection] = "absent"
        /\ \A j \in Selection : member[j] = NoUnit
      BY <1>2 DEF Selection, Selected
  <2>2. \A j \in PlanFirst : j \in Jobs /\ Eligible(j)
      BY DEF PlanFirst, Candidates
  <2>3. Selection \in Units
      BY <2>1, <2>2 DEF Units
  <2>4. \A j \in PlanFirst : job[j] \in {"pending", "retry_wait", "processing"}
      BY <2>2 DEF Eligible
  <2> QED BY <2>1, <2>2, <2>3, <2>4
<1> QED BY <1>1, <1>2

\* An attempt whose owner was lost.
LEMMA RowsLost ==
    ASSUME RowsInv, NEW w \in Workers, ClaimLost(w) PROVE RowsInv'
<1> USE DEF jobvars, unitvars, wvars
<1> DEFINE u == Selection
           s == SetLast(journal[u], "ambiguous")
           a == LastAttempt(u)
<1>0. JobsTyped /\ UnitsTyped /\ WorkersTyped /\ JournalTyped /\ LedgerTyped
      /\ ClaimIsWhole /\ ProjectedOnce /\ expired \in BOOLEAN /\ fenced \subseteq Jobs
    BY RowsWhole
<1>1. /\ Candidates # {} /\ Selected(u) /\ journal[u] # << >>
      /\ job' = Put(job, u, "failed_terminal") /\ code' = Put(code, u, "vertex_ambiguous")
      /\ CloseUnit(u, "failed_terminal", "vertex_ambiguous")
      /\ journal' = [journal EXCEPT ![u] = s]
      /\ ledger' = [ledger EXCEPT ![a] = IF @ = "started" THEN "ambiguous" ELSE @]
      /\ UNCHANGED <<attempts, due, expired, fenced, member, tries, recovered,
                     pc, wu, wn, wb, wans, wdisp, wcode, charged, projected>>
    BY DEF ClaimLost, FailJobs, IsLost
<1>2. /\ u \in Units /\ \A j \in u : member[j] = u /\ j \in Jobs /\ job[j] # "succeeded"
  <2>1. u \in Units /\ \A j \in u : j \in Jobs /\ job[j] # "succeeded"
      BY <1>1, SelectionFacts
  <2>2. unit[u] # "absent"
      BY <1>0, <1>1, <2>1 DEF JournalTyped
  <2> QED BY <1>1, <2>1, <2>2, SelectionFacts
<1>3. journal[u] \in Seq(Entries) /\ Len(journal[u]) <= MAX_MEDIA_PROVIDER_ATTEMPTS
    BY <1>0, <1>2 DEF JournalTyped
<1>4. s \in Seq(Entries) /\ Len(s) <= MAX_MEDIA_PROVIDER_ATTEMPTS
  <2> HIDE DEF u
  <2>1. s \in Seq(Entries) /\ Len(s) = Len(journal[u])
      BY <1>1, <1>3, MarkFacts DEF EntryState
  <2> QED BY <1>3, <2>1
<1>5. a \in Attempts
  <2> HIDE DEF u
  <2>1. Len(journal[u]) \in Numbers /\ Last(journal[u]).body \in Bodies
      BY <1>1, <1>3, LastFacts, MediaAssumption DEF Numbers
  <2> QED BY <1>2, <2>1 DEF LastAttempt, Attempts
<1>6. "vertex_ambiguous" \in Code
    BY DEF Code, NonResurrectable
<1> HIDE DEF u, s, a
<1>7. JobsTyped' /\ UnitsTyped' /\ ClaimIsWhole'
    BY <1>0, <1>1, <1>2, <1>6, CloseFacts DEF JobsTyped
<1>8. JournalTyped' /\ WorkersTyped'
    BY <1>0, <1>1, <1>2, <1>4, JournalClose DEF WorkersTyped, CloseUnit
<1>9. LedgerTyped'
    BY <1>0, <1>1, <1>5 DEF LedgerTyped, Outcome
<1>10. ProjectedOnce'
  <2>1. \A j \in Jobs : job'[j] = IF j \in u THEN "failed_terminal" ELSE job[j]
      BY <1>0, <1>1 DEF JobsTyped, Put
  <2>2. \A j \in u : projected[j] # 1
      BY <1>0, <1>2 DEF ProjectedOnce
  <2> QED BY <1>0, <1>1, <2>1, <2>2 DEF ProjectedOnce
<1> QED BY <1>0, <1>1, <1>7, <1>8, <1>9, <1>10, RowsJoin

\* A head that fits no window.
LEMMA RowsUnplannable ==
    ASSUME RowsInv, NEW w \in Workers, ClaimUnplannable(w) PROVE RowsInv'
<1> USE DEF jobvars, unitvars, wvars
<1> DEFINE h == HeadJob
<1>0. JobsTyped /\ UnitsTyped /\ WorkersTyped /\ JournalTyped /\ LedgerTyped
      /\ ClaimIsWhole /\ ProjectedOnce /\ expired \in BOOLEAN /\ fenced \subseteq Jobs
    BY RowsWhole
<1>1. /\ Candidates # {} /\ member[h] = NoUnit
      /\ job' = Put(job, {h}, "failed_terminal") /\ code' = Put(code, {h}, "unplannable_media")
      /\ UNCHANGED <<attempts, due, expired, fenced, member, unit, ucode, tries, recovered,
                     owner, live, journal, ledger, pc, wu, wn, wb, wans, wdisp, wcode,
                     charged, projected>>
    BY DEF ClaimUnplannable, FailJobs
<1>2. h \in Jobs /\ job[h] # "succeeded"
    BY <1>1, HeadFacts DEF Candidates, Eligible
<1> HIDE DEF h
<1>3. /\ job' \in [Jobs -> JobState] /\ code' \in [Jobs -> Code]
      /\ \A j \in Jobs : job'[j] = IF j = h THEN "failed_terminal" ELSE job[j]
    BY <1>0, <1>1 DEF JobsTyped, JobState, Code, NonResurrectable, Put
<1>4. JobsTyped' /\ UnitsTyped' /\ WorkersTyped' /\ JournalTyped' /\ LedgerTyped'
    BY <1>0, <1>1, <1>3 DEF JobsTyped, UnitsTyped, WorkersTyped, JournalTyped, LedgerTyped
<1>5. ClaimIsWhole'
  <2>1. \A v \in Units : unit[v] = "processing" => h \notin v
      BY <1>0, <1>1, UnitFacts DEF ClaimIsWhole
  <2>2. \A v \in Units : unit[v] = "processing" =>
           owner[v] # Nobody /\ \A j \in v : j \in Jobs /\ member[j] = v /\ job'[j] = "processing"
      BY <1>0, <1>3, <2>1, UnitFacts DEF ClaimIsWhole
  <2>3. \A j \in Jobs \ fenced : job'[j] = "processing" => job[j] = "processing"
      BY <1>3
  <2> QED BY <1>0, <1>1, <2>2, <2>3 DEF ClaimIsWhole
<1>6. ProjectedOnce'
    BY <1>0, <1>1, <1>2, <1>3 DEF ProjectedOnce
<1> QED BY <1>0, <1>1, <1>4, <1>5, <1>6, RowsJoin

\* Persisted work that is held for good.
LEMMA RowsHold ==
    ASSUME RowsInv, NEW w \in Workers, ClaimHold(w) PROVE RowsInv'
<1> USE DEF jobvars, unitvars, wvars
<1> DEFINE u == member[HeadJob]
           S == {j \in Members(u) : job[j] \in {"pending", "retry_wait", "processing"}}
           lost == IF u # NoUnit /\ journal[u] # << >> /\ Last(journal[u]).st = "admitted"
                   THEN {a \in {LastAttempt(u)} : ledger[a] # "not_billed"} ELSE {}
           s == IF lost # {} THEN SetLast(journal[u], "ambiguous") ELSE journal[u]
<1>0. JobsTyped /\ UnitsTyped /\ WorkersTyped /\ JournalTyped /\ LedgerTyped
      /\ ClaimIsWhole /\ ProjectedOnce /\ expired \in BOOLEAN /\ fenced \subseteq Jobs
    BY RowsWhole
<1>1. /\ Candidates # {} /\ u # NoUnit
      /\ job' = Put(job, S, "failed_terminal") /\ code' = Put(code, S, "compatibility_hold")
      /\ \/ unit[u] = "succeeded" /\ UNCHANGED <<unit, ucode, owner, live>>
         \/ unit[u] # "succeeded" /\ CloseUnit(u, "failed_terminal", "compatibility_hold")
      /\ journal' = [journal EXCEPT ![u] = s]
      /\ ledger' = [a \in Attempts |->
             IF a \in lost /\ ledger[a] = "started" THEN "ambiguous" ELSE ledger[a]]
      /\ UNCHANGED <<attempts, due, expired, fenced, member, tries, recovered,
                     pc, wu, wn, wb, wans, wdisp, wcode, charged, projected>>
    BY DEF ClaimHold, FailJobs
<1>2. u \in Units /\ HeadJob \in Jobs
    BY <1>0, <1>1, HeadFacts DEF JobsTyped
<1>3. lost # {} => journal[u] # << >>
    OBVIOUS
<1>4. LedgerTyped'
    BY <1>0, <1>1 DEF LedgerTyped, Outcome
<1> HIDE DEF lost
<1>5. journal[u] \in Seq(Entries) /\ Len(journal[u]) <= MAX_MEDIA_PROVIDER_ATTEMPTS
    BY <1>0, <1>2 DEF JournalTyped
<1>6. s \in Seq(Entries) /\ Len(s) <= MAX_MEDIA_PROVIDER_ATTEMPTS
      /\ (journal[u] = << >> => s = << >>)
  <2> HIDE DEF u
  <2>1. CASE lost # {}
      BY <1>3, <1>5, <2>1, MarkFacts DEF EntryState
  <2>2. CASE lost = {}
      BY <1>5, <2>2
  <2> QED BY <2>1, <2>2
<1>7. \A j \in Jobs : j \in S <=> /\ member[j] = u
                                  /\ job[j] \in {"pending", "retry_wait", "processing"}
    BY DEF Members
<1> HIDE DEF u, S, s
<1>8. /\ job' \in [Jobs -> JobState] /\ code' \in [Jobs -> Code]
      /\ \A j \in Jobs : job'[j] = IF j \in S THEN "failed_terminal" ELSE job[j]
    BY <1>0, <1>1 DEF JobsTyped, JobState, Code, NonResurrectable, Put
<1>9. JobsTyped' /\ UnitsTyped' /\ WorkersTyped'
  <2>1. "compatibility_hold" \in Code /\ "failed_terminal" \in UnitState
      BY DEF Code, NonResurrectable, UnitState
  <2>2. UnitsTyped'
    <3>1. CASE UNCHANGED <<unit, ucode, owner, live>>
        BY <1>0, <1>1, <3>1 DEF UnitsTyped
    <3>2. CASE CloseUnit(u, "failed_terminal", "compatibility_hold")
        BY <1>0, <1>1, <2>1, <3>2 DEF UnitsTyped, CloseUnit
    <3> QED BY <1>1, <3>1, <3>2
  <2>3. JobsTyped' /\ WorkersTyped'
      BY <1>0, <1>1, <1>8 DEF JobsTyped, WorkersTyped
  <2> QED BY <2>2, <2>3
<1>10. JournalTyped'
    BY <1>0, <1>1, <1>2, <1>5, <1>6 DEF JournalTyped, UnitsTyped, CloseUnit
<1>11. ClaimIsWhole'
  <2>1. \A v \in Units : unit'[v] = "processing" => v # u /\ unit[v] = "processing"
                                                  /\ owner'[v] = owner[v]
      BY <1>0, <1>1, <1>2 DEF UnitsTyped, CloseUnit
  <2>2. \A j \in Jobs : job'[j] = "processing" => member[j] # u
      BY <1>7, <1>8
  <2>3. \A v \in Units : v # u => unit'[v] = unit[v]
      BY <1>0, <1>1, <1>2 DEF UnitsTyped, CloseUnit
  <2> QED BY <1>0, <1>1, <1>7, <1>8, <2>1, <2>2, <2>3, UnitFacts DEF JobsTyped, ClaimIsWhole
<1>12. ProjectedOnce'
    BY <1>0, <1>1, <1>7, <1>8 DEF ProjectedOnce
<1> QED BY <1>0, <1>1, <1>4, <1>9, <1>10, <1>11, <1>12, RowsJoin

\* A worker that takes a unit speaks for its next attempt.
LEMMA TakeFacts ==
    ASSUME RowsInv, NEW w \in Workers, NEW u \in Units, Take(w, u), Reclaimable(journal[u])
    PROVE  /\ WorkersTyped'
           /\ job' = Put(job, u, "processing") /\ code' = Put(code, u, "none")
           /\ due' = Put(due, u, FALSE) /\ attempts' \in [Jobs -> 0..AttemptBound]
<1>0. WorkersTyped /\ JournalTyped /\ JobsTyped
    BY RowsWhole
<1>1. journal[u] \in Seq(Entries)
    BY <1>0 DEF JournalTyped
<1>2. NextNumber(journal[u]) \in Numbers
    BY <1>1, LastFacts, MediaAssumption DEF NextNumber, Reclaimable, Numbers
<1>3. IsStaged(journal[u]) => Last(journal[u]).body \in Bodies /\ Last(journal[u]).ans \in Answer
    BY <1>1, LastFacts DEF IsStaged
<1>4. u # NoUnit
    BY UnitFacts
<1>5. WorkersTyped'
  <2>1. /\ wu' = [wu EXCEPT ![w] = u] /\ wn' = [wn EXCEPT ![w] = NextNumber(journal[u])]
        /\ UNCHANGED <<wdisp, wcode>>
        /\ \/ /\ IsStaged(journal[u]) /\ pc' = [pc EXCEPT ![w] = "parse"]
              /\ wb' = [wb EXCEPT ![w] = Last(journal[u]).body]
              /\ wans' = [wans EXCEPT ![w] = Last(journal[u]).ans]
           \/ pc' = [pc EXCEPT ![w] = "prepare"] /\ UNCHANGED <<wb, wans>>
      BY DEF Take
  <2>2. pc' \in [Workers -> PC] /\ wb' \in [Workers -> Bodies] /\ wans' \in [Workers -> Answer]
      BY <1>0, <1>3, <2>1 DEF WorkersTyped, PC
  <2>3. /\ wu' \in [Workers -> Units \cup {NoUnit}] /\ wn' \in [Workers -> Numbers]
        /\ wdisp' \in [Workers -> Disposition] /\ wcode' \in [Workers -> Code]
      BY <1>0, <1>2, <2>1 DEF WorkersTyped
  <2>4. \A v \in Workers : pc'[v] # "idle" => wu'[v] # NoUnit
      BY <1>0, <1>4, <2>1 DEF WorkersTyped
  <2> QED BY <2>2, <2>3, <2>4 DEF WorkersTyped
<1>6. attempts' \in [Jobs -> 0..AttemptBound]
    BY <1>0, CounterFacts DEF Take, JobsTyped
<1> QED BY <1>5, <1>6 DEF Take

\* A claim: the unit is whole, and no other unit in process loses a member.
LEMMA RowsClaim ==
    ASSUME RowsInv, NEW w \in Workers, ClaimWork(w) PROVE RowsInv'
<1> USE DEF jobvars, unitvars, wvars
<1> DEFINE u == Selection
<1>0. JobsTyped /\ UnitsTyped /\ WorkersTyped /\ JournalTyped /\ LedgerTyped
      /\ ClaimIsWhole /\ ProjectedOnce /\ expired \in BOOLEAN /\ fenced \subseteq Jobs
    BY RowsWhole
<1>1. /\ Candidates # {} /\ Selected(u) /\ Reclaimable(journal[u])
      /\ member' = Put(member, u, u)
      /\ unit' = [unit EXCEPT ![u] = "processing"]
      /\ ucode' = [ucode EXCEPT ![u] = "none"]
      /\ tries' = [tries EXCEPT ![u] = Bump(@, TriesBound)]
      /\ owner' = [owner EXCEPT ![u] = w]
      /\ live' = [live EXCEPT ![u] = TRUE]
      /\ Take(w, u)
      /\ UNCHANGED <<expired, fenced, recovered, journal, ledger, charged, projected>>
    BY DEF ClaimWork
<1>2. /\ u \in Units
      /\ \A j \in u : /\ j \in Jobs /\ member[j] \in {u, NoUnit}
                      /\ job[j] \in {"pending", "retry_wait", "processing"}
    BY <1>1, SelectionFacts
<1> HIDE DEF u
<1>3. /\ WorkersTyped'
      /\ job' = Put(job, u, "processing") /\ code' = Put(code, u, "none")
      /\ due' = Put(due, u, FALSE) /\ attempts' \in [Jobs -> 0..AttemptBound]
    BY <1>1, <1>2, TakeFacts
<1>4. /\ job' \in [Jobs -> JobState] /\ code' \in [Jobs -> Code]
      /\ due' \in [Jobs -> BOOLEAN] /\ member' \in [Jobs -> Units \cup {NoUnit}]
      /\ \A j \in Jobs : job'[j] = IF j \in u THEN "processing" ELSE job[j]
      /\ \A j \in Jobs : member'[j] = IF j \in u THEN u ELSE member[j]
    BY <1>0, <1>1, <1>2, <1>3 DEF JobsTyped, JobState, Code, Put
<1>5. JobsTyped'
    BY <1>0, <1>1, <1>3, <1>4 DEF JobsTyped
<1>6. UnitsTyped'
  <2>1. tries[u] \in 0..TriesBound
      BY <1>0, <1>2 DEF UnitsTyped
  <2>2. Bump(tries[u], TriesBound) \in 0..TriesBound
      BY <2>1, CounterFacts
  <2>3. tries' \in [Units -> 0..TriesBound]
      BY <1>0, <1>1, <2>2 DEF UnitsTyped
  <2> QED BY <1>0, <1>1, <2>3 DEF UnitsTyped, UnitState, Code
<1>7. JournalTyped' /\ LedgerTyped'
    BY <1>0, <1>1, <1>2 DEF JournalTyped, LedgerTyped, UnitsTyped
<1>8. ClaimIsWhole'
  <2>1. ASSUME NEW v \in Units, unit'[v] = "processing"
        PROVE  owner'[v] # Nobody /\ \A j \in v : member'[j] = v /\ job'[j] = "processing"
    <3>1. CASE v = u
        BY <1>0, <1>1, <1>2, <1>4, <3>1, MediaAssumption DEF UnitsTyped
    <3>2. CASE v # u
      <4>1. unit[v] = "processing" /\ owner'[v] = owner[v]
          BY <1>0, <1>1, <2>1, <3>2 DEF UnitsTyped
      <4>2. owner[v] # Nobody /\ \A j \in v : j \in Jobs /\ member[j] = v /\ job[j] = "processing"
          BY <1>0, <4>1, UnitFacts DEF ClaimIsWhole
      <4>3. \A j \in v : j \notin u
          BY <1>2, <3>2, <4>2, UnitFacts
      <4> QED BY <1>4, <4>1, <4>2, <4>3
    <3> QED BY <3>1, <3>2
  <2>2. ASSUME NEW j \in Jobs \ fenced', job'[j] = "processing"
        PROVE  member'[j] # NoUnit /\ unit'[member'[j]] = "processing"
      BY <1>0, <1>1, <1>2, <1>4, <2>2, UnitFacts DEF ClaimIsWhole, UnitsTyped, JobsTyped
  <2> QED BY <2>1, <2>2 DEF ClaimIsWhole
<1>9. ProjectedOnce'
    BY <1>0, <1>1, <1>2, <1>4 DEF ProjectedOnce
<1> QED BY <1>0, <1>1, <1>3, <1>5, <1>6, <1>7, <1>8, <1>9, RowsJoin

\* Untouched work that is planned afresh.
LEMMA RowsReplan ==
    ASSUME RowsInv, NEW w \in Workers, ClaimReplan(w) PROVE RowsInv'
<1> USE DEF jobvars, unitvars, wvars
<1> DEFINE u == member[HeadJob]
           p == PlanFirst
<1>0. JobsTyped /\ UnitsTyped /\ WorkersTyped /\ JournalTyped /\ LedgerTyped
      /\ ClaimIsWhole /\ ProjectedOnce /\ expired \in BOOLEAN /\ fenced \subseteq Jobs
    BY RowsWhole
<1>1. /\ Candidates # {} /\ u # NoUnit /\ SafeShape(u) /\ p # {} /\ p # u
      /\ unit[p] = "absent" /\ \A j \in p : member[j] \in {NoUnit, u}
      /\ member' = [j \in Jobs |-> IF j \in p THEN p
                                   ELSE IF member[j] = u THEN NoUnit ELSE member[j]]
      /\ unit' = [unit EXCEPT ![u] = "absent", ![p] = "processing"]
      /\ ucode' = [ucode EXCEPT ![u] = "none", ![p] = "none"]
      /\ tries' = [tries EXCEPT ![u] = 0, ![p] = 1]
      /\ recovered' = [recovered EXCEPT ![p] = TRUE]
      /\ owner' = [owner EXCEPT ![p] = w]
      /\ live' = [live EXCEPT ![p] = TRUE]
      /\ Take(w, p)
      /\ UNCHANGED <<expired, fenced, journal, ledger, charged, projected>>
    BY DEF ClaimReplan
<1>2. u \in Units
    BY <1>0, <1>1, HeadFacts DEF JobsTyped
<1>3. \A j \in p : j \in Jobs /\ job[j] \in {"pending", "retry_wait", "processing"}
    BY DEF PlanFirst, Candidates, Eligible
<1>4. p \in Units
    BY <1>1, <1>3 DEF Units
<1>5. unit[u] # "processing" /\ journal[u] = << >>
    BY <1>1 DEF SafeShape
<1>6. journal[p] = << >> /\ Reclaimable(journal[p])
    BY <1>0, <1>1, <1>4, MediaAssumption DEF JournalTyped, Reclaimable, NextNumber
<1> HIDE DEF u, p
<1>7. /\ WorkersTyped'
      /\ job' = Put(job, p, "processing") /\ code' = Put(code, p, "none")
      /\ due' = Put(due, p, FALSE) /\ attempts' \in [Jobs -> 0..AttemptBound]
    BY <1>1, <1>4, <1>6, TakeFacts
<1>8. /\ job' \in [Jobs -> JobState] /\ code' \in [Jobs -> Code]
      /\ due' \in [Jobs -> BOOLEAN] /\ member' \in [Jobs -> Units \cup {NoUnit}]
      /\ \A j \in Jobs : job'[j] = IF j \in p THEN "processing" ELSE job[j]
      /\ \A j \in Jobs : member'[j] = IF j \in p THEN p
                                      ELSE IF member[j] = u THEN NoUnit ELSE member[j]
    BY <1>0, <1>1, <1>4, <1>7 DEF JobsTyped, JobState, Code, Put
<1>9. JobsTyped'
    BY <1>0, <1>1, <1>7, <1>8 DEF JobsTyped
<1>10. /\ \A v \in Units : unit'[v] = IF v = p THEN "processing"
                                      ELSE IF v = u THEN "absent" ELSE unit[v]
       /\ \A v \in Units : owner'[v] = IF v = p THEN w ELSE owner[v]
    BY <1>0, <1>1, <1>2, <1>4 DEF UnitsTyped
<1>11. UnitsTyped'
  <2>1. unit' \in [Units -> UnitState] /\ ucode' \in [Units -> Code]
      BY <1>0, <1>1 DEF UnitsTyped, UnitState, Code
  <2>2. tries' \in [Units -> 0..TriesBound]
    <3>1. tries \in [Units -> 0..TriesBound] /\ 0 \in 0..TriesBound /\ 1 \in 0..TriesBound
        BY <1>0 DEF UnitsTyped, TriesBound
    <3>2. tries' = [tries EXCEPT ![u] = 0, ![p] = 1]
        BY <1>1
    <3> QED BY <3>1, <3>2
  <2>3. recovered \in [Units -> BOOLEAN] /\ live \in [Units -> BOOLEAN]
        /\ owner \in [Units -> Workers \cup {Nobody}]
      BY <1>0 DEF UnitsTyped
  <2>4. recovered' \in [Units -> BOOLEAN]
      BY <1>1, <2>3
  <2>5. live' \in [Units -> BOOLEAN]
      BY <1>1, <2>3
  <2>6. owner' \in [Units -> Workers \cup {Nobody}]
      BY <1>1, <2>3
  <2> QED BY <2>1, <2>2, <2>4, <2>5, <2>6 DEF UnitsTyped
<1>12. JournalTyped' /\ LedgerTyped'
    BY <1>0, <1>1, <1>5, <1>10 DEF JournalTyped, LedgerTyped
<1>13. ClaimIsWhole'
  <2>1. ASSUME NEW v \in Units, unit'[v] = "processing"
        PROVE  owner'[v] # Nobody /\ \A j \in v : member'[j] = v /\ job'[j] = "processing"
    <3>1. CASE v = p
        BY <1>3, <1>8, <1>10, <3>1, MediaAssumption
    <3>2. CASE v # p
      <4>1. unit[v] = "processing" /\ owner'[v] = owner[v] /\ v # u
          BY <1>10, <2>1, <3>2
      <4>2. owner[v] # Nobody /\ \A j \in v : j \in Jobs /\ member[j] = v /\ job[j] = "processing"
          BY <1>0, <4>1, UnitFacts DEF ClaimIsWhole
      <4>3. \A j \in v : j \notin p
          BY <1>1, <4>1, <4>2, UnitFacts
      <4> QED BY <1>8, <4>1, <4>2, <4>3
    <3> QED BY <3>1, <3>2
  <2>2. ASSUME NEW j \in Jobs \ fenced', job'[j] = "processing"
        PROVE  member'[j] # NoUnit /\ unit'[member'[j]] = "processing"
    <3>1. CASE j \in p
        BY <1>4, <1>8, <1>10, <3>1, UnitFacts
    <3>2. CASE j \notin p
      <4>1. job[j] = "processing" /\ member[j] # NoUnit /\ unit[member[j]] = "processing"
          BY <1>0, <1>1, <1>8, <2>2, <3>2 DEF ClaimIsWhole
      <4>2. member[j] \in Units /\ member[j] # u /\ member[j] # p
          BY <1>0, <1>1, <1>5, <4>1 DEF JobsTyped
      <4> QED BY <1>8, <1>10, <3>2, <4>1, <4>2
    <3> QED BY <3>1, <3>2
  <2> QED BY <2>1, <2>2 DEF ClaimIsWhole
<1>14. ProjectedOnce'
    BY <1>0, <1>1, <1>3, <1>8 DEF ProjectedOnce
<1> QED BY <1>0, <1>1, <1>7, <1>9, <1>11, <1>12, <1>13, <1>14, RowsJoin

\* The purge of a deleted memory's event.
LEMMA RowsPurge ==
    ASSUME RowsInv, NEW j \in Jobs, Purge(j) PROVE RowsInv'
<1> USE DEF jobvars, unitvars, wvars
<1> DEFINE u == member[j]
           open == Unfinished(u)
           rest == Others(j)
           gone == u # NoUnit /\ (open \/ rest = {})
<1>0. JobsTyped /\ UnitsTyped /\ WorkersTyped /\ JournalTyped /\ LedgerTyped
      /\ ClaimIsWhole /\ ProjectedOnce /\ expired \in BOOLEAN /\ fenced \subseteq Jobs
    BY RowsWhole
<1>1a. PICK planned \in SUBSET (fenced \ {j}) :
         LET back == Restarted(j, planned)
         IN /\ job' = [Put(job, back, "pending") EXCEPT ![j] = "erased"]
            /\ code' = [Put(code, back, "none") EXCEPT ![j] = "none"]
            /\ due' = [Put(due, back, FALSE) EXCEPT ![j] = FALSE]
    BY DEF Purge
<1> DEFINE back == Restarted(j, planned)
<1>1. /\ fenced' = fenced \ {j}
      /\ job' = [Put(job, back, "pending") EXCEPT ![j] = "erased"]
      /\ code' = [Put(code, back, "none") EXCEPT ![j] = "none"]
      /\ due' = [Put(due, back, FALSE) EXCEPT ![j] = FALSE]
      /\ attempts' = [attempts EXCEPT ![j] = 0]
      /\ member' = [k \in Jobs |->
            IF k = j \/ (open /\ k \in rest) THEN NoUnit ELSE member[k]]
      /\ projected' = [projected EXCEPT ![j] = 0]
      /\ \/ /\ gone /\ CloseUnit(u, "absent", "none")
            /\ tries' = [tries EXCEPT ![u] = 0]
            /\ recovered' = [recovered EXCEPT ![u] = FALSE]
            /\ journal' = [journal EXCEPT ![u] = << >>]
         \/ ~gone /\ UNCHANGED <<unit, ucode, tries, recovered, owner, live, journal>>
      /\ UNCHANGED <<expired, ledger, pc, wu, wn, wb, wans, wdisp, wcode, charged>>
    BY <1>1a DEF Purge
<1>2. /\ \A k \in Jobs : k \in rest <=> u # NoUnit /\ member[k] = u /\ k # j
      /\ \A k \in rest : k \in Jobs
    BY DEF Others, Members
<1>3. /\ \A k \in Jobs : k \in back => k \in rest /\ open /\ job[k] \in {"processing", "retry_wait"}
      /\ \A k \in Jobs \ fenced : k \in rest /\ open /\ job[k] = "processing" => k \in back
    BY DEF Restarted
<1>4. /\ open => u # NoUnit /\ u \in Units /\ gone
      /\ u # NoUnit => u \in Units
      /\ u # NoUnit /\ u \in Units /\ unit[u] = "processing" => open
    BY <1>0 DEF Unfinished, JobsTyped
<1>5. gone => u # NoUnit /\ (rest # {} => open)
    OBVIOUS
<1> HIDE DEF u, open, rest, gone, back
<1>6. /\ job' \in [Jobs -> JobState]
      /\ \A k \in Jobs : job'[k] = IF k = j THEN "erased"
                                   ELSE IF k \in back THEN "pending" ELSE job[k]
    BY <1>0, <1>1 DEF JobsTyped, JobState, Put
<1>7. code' \in [Jobs -> Code] /\ due' \in [Jobs -> BOOLEAN]
    BY <1>0, <1>1 DEF JobsTyped, Code, Put
<1>8. attempts' \in [Jobs -> 0..AttemptBound] /\ projected' \in [Jobs -> 0..2]
  <2>1. 0 \in 0..AttemptBound
      BY MediaAssumption DEF AttemptBound
  <2> QED BY <1>0, <1>1, <2>1 DEF JobsTyped
<1>9. JobsTyped'
    BY <1>0, <1>1, <1>6, <1>7, <1>8 DEF JobsTyped
<1>10. UnitsTyped' /\ JournalTyped'
  <2>1. CASE gone
    <3>1. u \in Units /\ u # NoUnit
        BY <1>4, <1>5, <2>1
    <3>2. /\ CloseUnit(u, "absent", "none")
          /\ tries' = [tries EXCEPT ![u] = 0]
          /\ recovered' = [recovered EXCEPT ![u] = FALSE]
          /\ journal' = [journal EXCEPT ![u] = << >>]
        BY <1>1, <2>1
    <3>3. UnitsTyped'
        BY <1>0, <3>1, <3>2 DEF UnitsTyped, CloseUnit, UnitState, Code, TriesBound
    <3>4. << >> \in Seq(Entries) /\ Len(<< >>) = 0
        OBVIOUS
    <3>5. JournalTyped'
        BY <1>0, <3>1, <3>2, <3>4, MediaAssumption DEF UnitsTyped, JournalTyped, CloseUnit
    <3> QED BY <3>3, <3>5
  <2>2. CASE ~gone
      BY <1>0, <1>1, <2>2 DEF UnitsTyped, JournalTyped
  <2> QED BY <2>1, <2>2
<1>11. WorkersTyped' /\ LedgerTyped' /\ expired' \in BOOLEAN /\ fenced' \subseteq Jobs
    BY <1>0, <1>1 DEF WorkersTyped, LedgerTyped
<1>12. \A v \in Units : /\ unit'[v] = IF gone /\ v = u THEN "absent" ELSE unit[v]
                        /\ ~(gone /\ v = u) => owner'[v] = owner[v]
    BY <1>0, <1>1, <1>4, <1>5 DEF UnitsTyped, CloseUnit
<1>14. ClaimIsWhole'
  <2>1. ASSUME NEW v \in Units, unit'[v] = "processing"
        PROVE  owner'[v] # Nobody /\ \A k \in v : member'[k] = v /\ job'[k] = "processing"
    <3>1. unit[v] = "processing" /\ owner'[v] = owner[v] /\ ~(gone /\ v = u)
        BY <1>12, <2>1
    <3>2. owner[v] # Nobody /\ \A k \in v : k \in Jobs /\ member[k] = v /\ job[k] = "processing"
        BY <1>0, <3>1, UnitFacts DEF ClaimIsWhole
    <3>3. v # u
        BY <1>4, <3>1, UnitFacts
    <3>4. \A k \in v : k # j /\ k \notin rest
        BY <1>2, <3>2, <3>3 DEF u
    <3> QED BY <1>1, <1>3, <1>6, <3>1, <3>2, <3>4
  <2>2. ASSUME NEW k \in Jobs, k \notin fenced', job'[k] = "processing"
        PROVE  member'[k] # NoUnit /\ unit'[member'[k]] = "processing"
    <3>1. k # j /\ k \notin back /\ job[k] = "processing" /\ k \notin fenced
        BY <1>1, <1>6, <2>2
    <3>2. member[k] # NoUnit /\ member[k] \in Units /\ unit[member[k]] = "processing"
        BY <1>0, <3>1 DEF ClaimIsWhole, JobsTyped
    <3>3. member[k] # u
        BY <1>2, <1>3, <1>4, <3>1, <3>2
    <3>4. member'[k] = member[k]
        BY <1>1, <1>2, <3>1, <3>3
    <3> QED BY <1>12, <3>2, <3>3, <3>4
  <2> QED BY <2>1, <2>2 DEF ClaimIsWhole
<1>15. ProjectedOnce'
  <2>1. ASSUME NEW k \in Jobs
        PROVE  projected'[k] <= 1 /\ (projected'[k] = 1 => job'[k] = "succeeded")
    <3>1. CASE k = j
        BY <1>0, <1>1, <3>1 DEF JobsTyped
    <3>2. CASE k # j
      <4>1. projected'[k] = projected[k]
          BY <1>0, <1>1, <3>2 DEF JobsTyped
      <4>2. projected[k] <= 1 /\ (projected[k] = 1 => job[k] = "succeeded")
          BY <1>0 DEF ProjectedOnce
      <4> QED BY <1>3, <1>6, <3>2, <4>1, <4>2
    <3> QED BY <3>1, <3>2
  <2> QED BY <2>1 DEF ProjectedOnce
<1> QED BY <1>9, <1>10, <1>11, <1>14, <1>15, RowsJoin

\* Every step keeps the jobs, the units and the claims in order.
LEMMA RowsStep == RowsInv /\ [Next]_vars => RowsInv'
<1> SUFFICES ASSUME RowsInv, [Next]_vars PROVE RowsInv'
    OBVIOUS
<1>1. CASE UNCHANGED vars
  <2>1. UNCHANGED <<job, code, attempts, due, expired, fenced, member, unit, ucode, tries,
                    recovered, owner, live, projected, journal, ledger, pc, wu, wn, wb,
                    wans, wdisp, wcode, charged>>
      BY <1>1 DEF vars, jobvars, unitvars, wvars
  <2>2. WorkersTyped' /\ JournalTyped' /\ LedgerTyped'
      BY <2>1, RowsParts DEF WorkersTyped, JournalTyped, LedgerTyped
  <2> QED BY <2>1, <2>2, RowsKept
<1>2. ASSUME NEW w \in Workers, WorkerStep(w) \/ AuthorizeUnacknowledged(w) \/ Crash(w)
      PROVE  RowsInv'
    BY <1>2, RowsOwner, RowsProject, RowsFailure, RowsLost, RowsUnplannable, RowsHold,
       RowsClaim, RowsReplan DEF WorkerStep
<1>3. ASSUME NEW j \in Jobs, Purge(j) PROVE RowsInv'
    BY <1>3, RowsPurge
<1> QED BY <1>1, <1>2, <1>3, RowsTime DEF Next

\* Jobs, units, claims and counters keep their types in every reachable state.
THEOREM MediaRows == Spec => []RowsInv
BY InitRows, RowsStep, PTL DEF Spec

\* Every variable of media processing keeps its type, whatever is claimed, lost,
\* retried or deleted.
THEOREM MediaTypeOK == Spec => []TypeOK
<1>1. RowsInv => TypeOK
    BY DEF RowsInv, Typed
<1> QED BY <1>1, MediaRows, PTL

\* A claim is whole in every reachable state.
THEOREM MediaClaimIsWhole == Spec => []ClaimIsWhole
<1>1. RowsInv => ClaimIsWhole
    BY DEF RowsInv
<1> QED BY <1>1, MediaRows, PTL

\* No job's evidence is written twice or survives the job.
THEOREM MediaProjectedOnce == Spec => []ProjectedOnce
<1>1. RowsInv => ProjectedOnce
    BY DEF RowsInv
<1> QED BY <1>1, MediaRows, PTL

-----------------------------------------------------------------------------
\* The provider protocol.

\* A unit that lost a member to a deletion is never claimed again.
Erased(u) == \E j \in u : job[j] = "erased"
\* The worker drew its attempt and has no staged response yet.
Asking(w) == pc[w] \in {"authorize", "refused", "send", "stage"}

\* While a request is out, the journal names it as the unit's last attempt and
\* nobody else has claimed the unit.
RequestIsOnRecord ==
    \A w \in Workers : pc[w] \in {"send", "stage"} /\ ~Erased(wu[w]) =>
        /\ SpeaksFor(w)
        /\ Last(journal[wu[w]]).st \in {"admitted", "ambiguous"}
        /\ owner[wu[w]] \in {w, Nobody}

\* An owner's number is the journal's last or the next one, and it is the next
\* one only behind an attempt that was not billed.
NumberIsNext ==
    \A w \in Workers : pc[w] # "idle" /\ owner[wu[w]] = w =>
        /\ Len(journal[wu[w]]) \in {wn[w] - 1, wn[w]}
        /\ Len(journal[wu[w]]) = wn[w] - 1 /\ journal[wu[w]] # << >> =>
              Last(journal[wu[w]]).st = "confirmed_not_billed"

\* The intent of a worker that asks is its alone, is not settled, and was not
\* charged before it was sent.
IntentIsExclusive ==
    /\ \A v, w \in Workers : Asking(v) /\ Asking(w) /\ WAttempt(v) = WAttempt(w) => v = w
    /\ \A w \in Workers : Asking(w) => ledger[WAttempt(w)] \in {"started", "ambiguous"}
    /\ \A w \in Workers : pc[w] \in {"authorize", "refused", "send"} =>
          WAttempt(w) \notin charged

\* A staged response is that of an attempt nobody is asking for any more, and
\* a refusal among them was not charged.
ResponseIsFinal ==
    /\ \A w \in Workers : pc[w] = "parse" =>
          /\ ledger[WAttempt(w)] # "none"
          /\ \A v \in Workers : Asking(v) => WAttempt(v) # WAttempt(w)
    /\ \A u \in Units : IsStaged(journal[u]) =>
          /\ ledger[LastAttempt(u)] # "none"
          /\ \A v \in Workers : Asking(v) => WAttempt(v) # LastAttempt(u)
    /\ \A w \in Workers : pc[w] \in {"stage", "parse"} /\ wans[w] = "rejected" =>
          WAttempt(w) \notin charged
    /\ \A u \in Units : IsStaged(journal[u]) /\ Last(journal[u]).ans = "rejected" =>
          LastAttempt(u) \notin charged

\* A charge is recorded: the ledger has it and does not deny it, the journal of
\* a unit that still exists ends with it, and no request is out beside it.
ChargeIsOnRecord ==
    /\ \A a \in charged : ledger[a] \notin {"none", "not_billed"}
    /\ \A a \in charged : ~Erased(a[1]) =>
          /\ journal[a[1]] # << >> /\ Len(journal[a[1]]) = a[2]
          /\ Last(journal[a[1]]).body = a[3]
          /\ Last(journal[a[1]]).st # "confirmed_not_billed"
    /\ \A w \in Workers : pc[w] = "send" => \A a \in charged : a[1] # wu[w]
    /\ \A v, w \in Workers : pc[v] = "send" /\ pc[w] = "send" /\ wu[v] = wu[w] => v = w
    /\ PaidOnce

\* A settled journal entry is metered.
SettledIsMetered ==
    /\ \A u \in Units : journal[u] # << >> /\ Last(journal[u]).st \in {"usage_settled", "settled"}
          => ledger[LastAttempt(u)] = "metered"
    /\ SuccessIsMetered

\* The invariant of the provider protocol.
ProtocolInv ==
    /\ RequestIsOnRecord /\ NumberIsNext /\ IntentIsExclusive
    /\ ResponseIsFinal /\ ChargeIsOnRecord /\ SettledIsMetered

\* The first state satisfies it.
LEMMA InitProtocol == Init => ProtocolInv
<1> SUFFICES ASSUME Init PROVE ProtocolInv
    OBVIOUS
<1>1. /\ \A w \in Workers : pc[w] = "idle"
      /\ \A u \in Units : journal[u] = << >> /\ unit[u] = "absent"
      /\ charged = {}
    BY DEF Init
<1>2. RequestIsOnRecord /\ NumberIsNext
    BY <1>1 DEF RequestIsOnRecord, NumberIsNext
<1>3. IntentIsExclusive /\ ResponseIsFinal
    BY <1>1 DEF IntentIsExclusive, ResponseIsFinal, Asking, IsStaged
<1>4. ChargeIsOnRecord /\ SettledIsMetered
    BY <1>1 DEF ChargeIsOnRecord, SettledIsMetered, PaidOnce, SuccessIsMetered
<1> QED BY <1>2, <1>3, <1>4 DEF ProtocolInv

\* What an attempt is.
LEMMA AttemptFacts ==
    \A a \in Attempts : a = <<a[1], a[2], a[3]>> /\ a[1] \in Units
BY DEF Attempts

\* Steps that touch neither the workers nor what they record.
LEMMA ProtocolKept ==
    ASSUME RowsInv, ProtocolInv,
           UNCHANGED <<journal, ledger, pc, wu, wn, wb, wans, owner, unit, charged>>,
           \A u \in Units : Erased(u) => Erased(u)'
    PROVE  ProtocolInv'
<1>0. WorkersTyped /\ LedgerTyped
    BY RowsParts
<1>1. \A w \in Workers : pc[w] # "idle" => wu[w] \in Units
    BY <1>0 DEF WorkersTyped
<1>2. RequestIsOnRecord' /\ NumberIsNext'
    BY <1>1 DEF ProtocolInv, RequestIsOnRecord, NumberIsNext, SpeaksFor
<1>3. IntentIsExclusive' /\ ResponseIsFinal'
    BY DEF ProtocolInv, IntentIsExclusive, ResponseIsFinal, Asking, IsStaged, WAttempt, LastAttempt
<1>4. ChargeIsOnRecord' /\ SettledIsMetered'
    BY <1>0, AttemptFacts DEF ProtocolInv, ChargeIsOnRecord, SettledIsMetered, PaidOnce,
       SuccessIsMetered, LedgerTyped, LastAttempt
<1> QED BY <1>2, <1>3, <1>4 DEF ProtocolInv

\* Capture and time, and a head that fits no window.
LEMMA ProtocolTime ==
    ASSUME RowsInv, ProtocolInv,
           \/ \E j \in Jobs : Arrive(j) \/ BecomeDue(j) \/ Resurrect(j) \/ BeginDeletion(j)
           \/ Expire
           \/ \E u \in Units : Lapse(u)
           \/ \E w \in Workers : ClaimUnplannable(w)
    PROVE  ProtocolInv'
<1> USE DEF jobvars, unitvars, wvars
<1>1. UNCHANGED <<journal, ledger, pc, wu, wn, wb, wans, owner, unit, charged>>
    BY DEF Arrive, BecomeDue, Resurrect, BeginDeletion, Expire, Lapse, ClaimUnplannable
<1>2. \A j \in Jobs : job[j] = "erased" => job'[j] = "erased"
  <2>0. JobsTyped
      BY RowsWhole
  <2>1. ASSUME NEW j \in Jobs, Arrive(j) \/ BecomeDue(j) \/ Resurrect(j) \/ BeginDeletion(j)
        PROVE  \A k \in Jobs : job[k] = "erased" => job'[k] = "erased"
      BY <2>0, <2>1 DEF JobsTyped, Arrive, BecomeDue, Resurrect, BeginDeletion
  <2>2. CASE Expire \/ \E u \in Units : Lapse(u)
      BY <2>2 DEF Expire, Lapse
  <2>3. ASSUME NEW w \in Workers, ClaimUnplannable(w)
        PROVE  \A k \in Jobs : job[k] = "erased" => job'[k] = "erased"
    <3>1. job[HeadJob] # "erased"
        BY <2>3, HeadFacts DEF ClaimUnplannable, Candidates, Eligible
    <3>2. \A k \in Jobs : job'[k] = IF k \in {HeadJob} THEN "failed_terminal" ELSE job[k]
        BY <2>0, <2>3 DEF JobsTyped, ClaimUnplannable, FailJobs, Put
    <3> QED BY <3>1, <3>2
  <2> QED BY <2>1, <2>2, <2>3
<1>3. \A u \in Units : Erased(u) => Erased(u)'
    BY <1>2, UnitFacts DEF Erased
<1> QED BY <1>1, <1>3, ProtocolKept

\* The last entry of a journal names an attempt.
LEMMA JournalAttempt ==
    ASSUME RowsInv, NEW u \in Units, journal[u] # << >>
    PROVE  LastAttempt(u) \in Attempts
<1>1. journal[u] \in Seq(Entries) /\ Len(journal[u]) <= MAX_MEDIA_PROVIDER_ATTEMPTS
    BY RowsParts DEF JournalTyped
<1>2. Len(journal[u]) \in Numbers /\ Last(journal[u]).body \in Bodies
    BY <1>1, LastFacts, MediaAssumption DEF Numbers
<1> QED BY <1>2 DEF LastAttempt, Attempts

\* The usage drain gives up an intent.
LEMMA ProtocolSweep ==
    ASSUME RowsInv, ProtocolInv, NEW a \in Attempts, SweepStarted(a)
    PROVE  ProtocolInv'
<1> USE DEF jobvars, unitvars, wvars
<1>0. WorkersTyped /\ LedgerTyped
    BY RowsParts
<1>1. /\ UNCHANGED <<job, journal, pc, wu, wn, wb, wans, owner, unit, charged>>
      /\ \A c \in Attempts : \/ ledger'[c] = ledger[c]
                             \/ ledger[c] = "started" /\ ledger'[c] = "ambiguous"
    BY <1>0 DEF SweepStarted, GivenUp, LedgerTyped
<1>2. \A w \in Workers : pc[w] # "idle" => wu[w] \in Units /\ WAttempt(w) \in Attempts
    BY <1>0, BusyFacts
<1>3. \A u \in Units : journal[u] # << >> => LastAttempt(u) \in Attempts
    BY JournalAttempt
<1>4. RequestIsOnRecord' /\ NumberIsNext'
    BY <1>1, <1>2 DEF ProtocolInv, RequestIsOnRecord, NumberIsNext, SpeaksFor, Erased
<1>5. \A w \in Workers : WAttempt(w)' = WAttempt(w) /\ (Asking(w)' <=> Asking(w))
    BY <1>1 DEF WAttempt, Asking
<1>6. \A u \in Units : LastAttempt(u)' = LastAttempt(u) /\ journal'[u] = journal[u]
    BY <1>1 DEF LastAttempt
<1>7. \A w \in Workers : Asking(w) => pc[w] # "idle"
    BY DEF Asking
<1>8. IntentIsExclusive'
    BY <1>1, <1>2, <1>5, <1>7 DEF ProtocolInv, IntentIsExclusive
<1>9. ResponseIsFinal'
    BY <1>1, <1>2, <1>3, <1>5, <1>6 DEF ProtocolInv, ResponseIsFinal, IsStaged
<1>10. ChargeIsOnRecord'
    BY <1>0, <1>1 DEF ProtocolInv, ChargeIsOnRecord, PaidOnce, Erased, LedgerTyped
<1>11. SettledIsMetered'
    BY <1>1, <1>3, <1>6 DEF ProtocolInv, SettledIsMetered, SuccessIsMetered
<1> QED BY <1>4, <1>8, <1>9, <1>10, <1>11 DEF ProtocolInv

\* The step of a worker that asks for nothing any more.
Leaves(w) ==
    /\ pc'[w] \in {"idle", "fail", "usage", "project"}
    /\ pc'[w] # "idle" => pc[w] # "idle" /\ wu'[w] = wu[w] /\ wn'[w] = wn[w]
OthersKept(w) ==
    \A v \in Workers \ {w} : /\ pc'[v] = pc[v] /\ wu'[v] = wu[v] /\ wn'[v] = wn[v]
                             /\ wb'[v] = wb[v] /\ wans'[v] = wans[v]
\* What may happen to the ledger meanwhile: an intent is given up, or the one
\* of w is settled, as not billed only when it was not charged.
LedgerMoves(w) ==
    \A c \in Attempts :
        \/ ledger'[c] = ledger[c]
        \/ ledger[c] = "started" /\ ledger'[c] = "ambiguous"
        \/ /\ c = WAttempt(w) /\ pc[w] \in {"refused", "parse"} /\ ledger[c] = "started"
           /\ ledger'[c] = "metered" \/ (ledger'[c] = "not_billed" /\ c \notin charged)

\* Such a step keeps the protocol.
LEMMA ProtocolLeave ==
    ASSUME RowsInv, ProtocolInv, NEW w \in Workers, Leaves(w), OthersKept(w), LedgerMoves(w),
           UNCHANGED <<job, journal, owner, unit, charged>>
    PROVE  ProtocolInv'
<1>0. WorkersTyped /\ LedgerTyped
    BY RowsParts
<1>2. \A v \in Workers : pc[v] # "idle" => wu[v] \in Units /\ WAttempt(v) \in Attempts
    BY <1>0, BusyFacts
<1>3. \A u \in Units : journal[u] # << >> => LastAttempt(u) \in Attempts
    BY JournalAttempt
<1>4. RequestIsOnRecord' /\ NumberIsNext'
    BY <1>2 DEF ProtocolInv, RequestIsOnRecord, NumberIsNext, SpeaksFor, Erased, Leaves,
       OthersKept
<1>5. \A v \in Workers : /\ Asking(v)' => v # w /\ Asking(v)
                         /\ v # w => WAttempt(v)' = WAttempt(v) /\ pc'[v] = pc[v]
                                     /\ wans'[v] = wans[v]
    BY DEF WAttempt, Asking, Leaves, OthersKept
<1>6. \A u \in Units : LastAttempt(u)' = LastAttempt(u) /\ journal'[u] = journal[u]
    BY DEF LastAttempt
<1>7. \A v \in Workers : Asking(v) => pc[v] # "idle"
    BY DEF Asking
<1>8. pc'[w] \notin {"authorize", "refused", "send", "stage", "parse"}
    BY DEF Leaves
<1>9. \A v \in Workers : v # w /\ Asking(v) => 
          ~(pc[w] \in {"refused", "parse"} /\ WAttempt(v) = WAttempt(w))
    BY DEF ProtocolInv, IntentIsExclusive, ResponseIsFinal, Asking
<1>10. IntentIsExclusive'
  <2>1. \A v \in Workers : Asking(v)' => (ledger[WAttempt(v)] \in {"started", "ambiguous"})'
      BY <1>2, <1>5, <1>7, <1>9 DEF ProtocolInv, IntentIsExclusive, LedgerMoves
  <2> QED BY <1>5, <1>8, <2>1 DEF ProtocolInv, IntentIsExclusive
<1>11. ResponseIsFinal'
    BY <1>2, <1>3, <1>5, <1>6, <1>8 DEF ProtocolInv, ResponseIsFinal, IsStaged, LedgerMoves
<1>12. ChargeIsOnRecord'
  <2>1. \A a \in charged : ledger'[a] \notin {"none", "not_billed"}
      BY <1>0 DEF ProtocolInv, ChargeIsOnRecord, LedgerTyped, LedgerMoves
  <2>2. \A v \in Workers : pc'[v] = "send" => v # w /\ pc[v] = "send" /\ wu'[v] = wu[v]
      BY DEF Leaves, OthersKept
  <2> QED BY <2>1, <2>2 DEF ProtocolInv, ChargeIsOnRecord, PaidOnce, Erased
<1>13. SettledIsMetered'
    BY <1>3, <1>6 DEF ProtocolInv, SettledIsMetered, SuccessIsMetered, LedgerMoves
<1> QED BY <1>4, <1>10, <1>11, <1>12, <1>13 DEF ProtocolInv

\* The steps in which a worker gives up, is refused or parses its response.
LEMMA ProtocolOwner ==
    ASSUME RowsInv, ProtocolInv, NEW w \in Workers,
           \/ PrepareFails(w) \/ Refuse(w) \/ (Stage(w) /\ ~CanStage(w)) \/ Parse(w)
           \/ SettleUsageRefused(w) \/ ProjectRefused(w) \/ SettleFailureRefused(w)
           \/ Crash(w)
           \/ \E b \in Bodies : PrepareBegins(w, b) /\ ledger[<<wu[w], wn[w], b>>] # "none"
    PROVE  ProtocolInv'
<1> USE DEF jobvars, unitvars, wvars, KeepRows, KeepClaim, Goto, FailWith
<1>0. WorkersTyped /\ LedgerTyped
    BY RowsParts
<1>1. UNCHANGED <<job, journal, owner, unit, charged>>
    BY DEF PrepareFails, Refuse, Stage, Parse, SettleUsageRefused, ProjectRefused,
       SettleFailureRefused, Crash, PrepareBegins
<1>2. CASE SettleUsageRefused(w) \/ ProjectRefused(w) \/ SettleFailureRefused(w) \/ Crash(w)
  <2>1. Release(w) /\ UNCHANGED ledger
      BY <1>2 DEF SettleUsageRefused, ProjectRefused, SettleFailureRefused, Crash
  <2>2. Leaves(w) /\ OthersKept(w) /\ LedgerMoves(w)
      BY <1>0, <2>1 DEF Release, WorkersTyped, Leaves, OthersKept, LedgerMoves
  <2> QED BY <1>1, <2>2, ProtocolLeave
<1>3. CASE PrepareFails(w)
  <2>1. Leaves(w) /\ OthersKept(w) /\ LedgerMoves(w)
      BY <1>0, <1>3 DEF PrepareFails, WorkersTyped, Leaves, OthersKept, LedgerMoves
  <2> QED BY <1>1, <2>1, ProtocolLeave
<1>4. CASE Refuse(w)
  <2>1. Leaves(w) /\ OthersKept(w)
      BY <1>0, <1>4 DEF Refuse, WorkersTyped, Leaves, OthersKept
  <2>2. /\ ledger[WAttempt(w)] \in {"started", "ambiguous"} /\ WAttempt(w) \notin charged
      BY <1>4 DEF Refuse, ProtocolInv, IntentIsExclusive, Asking
  <2>3. LedgerMoves(w)
      BY <1>0, <1>4, <2>2 DEF Refuse, LedgerMoves, LedgerTyped
  <2> QED BY <1>1, <2>1, <2>3, ProtocolLeave
<1>5. CASE Stage(w) /\ ~CanStage(w)
  <2>1. Leaves(w) /\ OthersKept(w)
      BY <1>0, <1>5 DEF Stage, WorkersTyped, Leaves, OthersKept
  <2>2. LedgerMoves(w)
      BY <1>0, <1>5 DEF Stage, LedgerMoves, LedgerTyped
  <2> QED BY <1>1, <2>1, <2>2, ProtocolLeave
<1>6. CASE Parse(w)
  <2>1. Leaves(w) /\ OthersKept(w)
    <3>1. \/ pc' = [pc EXCEPT ![w] = "fail"] /\ UNCHANGED <<wu, wn, wb, wans>>
          \/ pc' = [pc EXCEPT ![w] = "usage"] /\ UNCHANGED <<wu, wn, wb, wans>>
          \/ Release(w)
        BY <1>6 DEF Parse
    <3>2. pc[w] = "parse"
        BY <1>6 DEF Parse
    <3> QED BY <1>0, <3>1, <3>2 DEF Release, WorkersTyped, Leaves, OthersKept
  <2>2. LedgerMoves(w)
    <3>1. /\ HttpDisposition(wans[w]) \in {"none", "not_billed", "ambiguous"}
          /\ HttpDisposition(wans[w]) = "not_billed" => wans[w] = "rejected"
        BY DEF HttpDisposition
    <3>2. wans[w] = "rejected" => WAttempt(w) \notin charged
        BY <1>6 DEF Parse, ProtocolInv, ResponseIsFinal
    <3> QED BY <1>0, <1>6, <3>1, <3>2 DEF Parse, LedgerMoves, LedgerTyped
  <2> QED BY <1>1, <2>1, <2>2, ProtocolLeave
<1>7. ASSUME NEW b \in Bodies, PrepareBegins(w, b), ledger[<<wu[w], wn[w], b>>] # "none"
      PROVE  ProtocolInv'
  <2>1. pc' = [pc EXCEPT ![w] = "fail"] /\ pc[w] = "prepare"
        /\ wb' = [wb EXCEPT ![w] = b] /\ UNCHANGED <<wu, wn, wans>>
      BY <1>7 DEF PrepareBegins
  <2>2. Leaves(w) /\ OthersKept(w)
      BY <1>0, <2>1 DEF WorkersTyped, Leaves, OthersKept
  <2>3. LedgerMoves(w)
      BY <1>0, <1>7 DEF PrepareBegins, LedgerMoves, LedgerTyped
  <2> QED BY <1>1, <2>2, <2>3, ProtocolLeave
<1> QED BY <1>2, <1>3, <1>4, <1>5, <1>6, <1>7

\* A worker that draws an attempt nobody has drawn.
LEMMA ProtocolDraw ==
    ASSUME RowsInv, ProtocolInv, NEW w \in Workers, NEW b \in Bodies, PrepareBegins(w, b),
           ledger[<<wu[w], wn[w], b>>] = "none"
    PROVE  ProtocolInv'
<1> USE DEF jobvars, unitvars, wvars, KeepRows, KeepClaim, Goto, FailWith
<1> DEFINE a == <<wu[w], wn[w], b>>
<1>0. WorkersTyped /\ LedgerTyped
    BY RowsParts
<1>1. /\ pc[w] = "prepare" /\ pc' = [pc EXCEPT ![w] = "authorize"]
      /\ wb' = [wb EXCEPT ![w] = b]
      /\ ledger' = [ledger EXCEPT ![a] = "started"]
      /\ UNCHANGED <<job, journal, owner, unit, charged, wu, wn, wans>>
    BY DEF PrepareBegins
<1>2. \A v \in Workers : pc[v] # "idle" => wu[v] \in Units /\ WAttempt(v) \in Attempts
    BY <1>0, BusyFacts
<1>3. \A u \in Units : journal[u] # << >> => LastAttempt(u) \in Attempts
    BY JournalAttempt
<1>4. a \in Attempts
    BY <1>0, <1>1, <1>2 DEF WorkersTyped, Attempts
<1>5. /\ WAttempt(w)' = a
      /\ \A v \in Workers : v # w => WAttempt(v)' = WAttempt(v) /\ pc'[v] = pc[v]
      /\ pc'[w] = "authorize"
    BY <1>0, <1>1 DEF WorkersTyped, WAttempt
<1>6. \A u \in Units : LastAttempt(u)' = LastAttempt(u) /\ journal'[u] = journal[u]
    BY <1>1 DEF LastAttempt
<1>7. \A v \in Workers : /\ Asking(v) => pc[v] # "idle"
                         /\ v # w => (Asking(v)' <=> Asking(v))
                         /\ Asking(w)'
    BY <1>5 DEF Asking
<1>8. /\ ledger[a] = "none" /\ ledger'[a] = "started"
      /\ \A c \in Attempts : c # a => ledger'[c] = ledger[c]
    BY <1>0, <1>1, <1>4 DEF LedgerTyped
<1>9. \A v \in Workers : Asking(v) \/ pc[v] = "parse" => WAttempt(v) # a
    BY <1>8 DEF ProtocolInv, IntentIsExclusive, ResponseIsFinal
<1>10. \A u \in Units : IsStaged(journal[u]) => LastAttempt(u) # a
    BY <1>8 DEF ProtocolInv, ResponseIsFinal
<1>11. a \notin charged
    BY <1>8 DEF ProtocolInv, ChargeIsOnRecord
<1> HIDE DEF a
<1>12. RequestIsOnRecord' /\ NumberIsNext'
    BY <1>0, <1>1, <1>5 DEF ProtocolInv, RequestIsOnRecord, NumberIsNext, SpeaksFor, Erased,
       WorkersTyped
<1>13. IntentIsExclusive'
    BY <1>1, <1>2, <1>5, <1>7, <1>8, <1>9, <1>11 DEF ProtocolInv, IntentIsExclusive
<1>14. ResponseIsFinal'
    BY <1>1, <1>2, <1>3, <1>5, <1>6, <1>7, <1>8, <1>9, <1>10
    DEF ProtocolInv, ResponseIsFinal, IsStaged
<1>15. ChargeIsOnRecord'
    BY <1>0, <1>1, <1>5, <1>8, <1>11
    DEF ProtocolInv, ChargeIsOnRecord, PaidOnce, Erased, LedgerTyped
<1>16. SettledIsMetered'
    BY <1>1, <1>3, <1>6, <1>8 DEF ProtocolInv, SettledIsMetered, SuccessIsMetered
<1> QED BY <1>12, <1>13, <1>14, <1>15, <1>16 DEF ProtocolInv

\* Whoever holds a claim is alone with it, and its unit lost no member.
LEMMA HolderIsAlone ==
    ASSUME RowsInv, ProtocolInv, NEW w \in Workers, pc[w] # "idle", Holds(w)
    PROVE  /\ ~Erased(wu[w])
           /\ \A v \in Workers : v # w =>
                 owner[wu[w]] # v /\ ~(pc[v] \in {"send", "stage"} /\ wu[v] = wu[w])
<1>1. owner[wu[w]] = w /\ \A j \in wu[w] : job[j] = "processing"
    BY HoldFacts
<1>2. ~Erased(wu[w])
    BY <1>1 DEF Erased
<1> QED BY <1>1, <1>2, MediaAssumption DEF ProtocolInv, RequestIsOnRecord

\* A request crosses the boundary: it is charged unless it is refused.
LEMMA ProtocolSend ==
    ASSUME RowsInv, ProtocolInv, NEW w \in Workers,
           SendLost(w) \/ \E ans \in Answers : SendAnswered(w, ans)
    PROVE  ProtocolInv'
<1> USE DEF jobvars, unitvars, wvars, KeepRows, KeepClaim, Goto, FailWith
<1>0. WorkersTyped /\ LedgerTyped
    BY RowsParts
<1>1. /\ pc[w] = "send" /\ pc'[w] \in {"stage", "fail"}
      /\ charged' = charged \/ charged' = charged \cup {WAttempt(w)}
      /\ pc'[w] = "stage" /\ wans'[w] = "rejected" => charged' = charged
      /\ UNCHANGED <<job, journal, ledger, owner, unit, wu, wn, wb>>
      /\ \A v \in Workers : v # w => pc'[v] = pc[v] /\ wans'[v] = wans[v]
    BY <1>0 DEF SendLost, SendAnswered, WorkersTyped
<1>2. \A v \in Workers : pc[v] # "idle" => wu[v] \in Units /\ WAttempt(v) \in Attempts
    BY <1>0, BusyFacts
<1>3. \A v \in Workers : WAttempt(v)' = WAttempt(v)
    BY <1>1 DEF WAttempt
<1>4. \A v \in Workers : /\ Asking(v)' => Asking(v)
                         /\ v # w /\ Asking(v) => WAttempt(v) # WAttempt(w)
                         /\ pc[v] = "parse" => WAttempt(v) # WAttempt(w)
    BY <1>1 DEF Asking, ProtocolInv, IntentIsExclusive, ResponseIsFinal
<1>5. \A u \in Units : /\ LastAttempt(u)' = LastAttempt(u) /\ journal'[u] = journal[u]
                       /\ IsStaged(journal[u]) => LastAttempt(u) # WAttempt(w)
    BY <1>1 DEF LastAttempt, Asking, ProtocolInv, ResponseIsFinal
<1>6. /\ ledger[WAttempt(w)] \in {"started", "ambiguous"} /\ WAttempt(w) \notin charged
    BY <1>1 DEF Asking, ProtocolInv, IntentIsExclusive
<1>7. RequestIsOnRecord'
    BY <1>0, <1>1 DEF ProtocolInv, RequestIsOnRecord, SpeaksFor, Erased
<1>8. NumberIsNext'
    BY <1>0, <1>1 DEF ProtocolInv, NumberIsNext
<1>9. IntentIsExclusive'
    BY <1>1, <1>3, <1>4, <1>6 DEF ProtocolInv, IntentIsExclusive, Asking
<1>10. ResponseIsFinal'
  <2>1. \A v \in Workers : v # w /\ pc[v] \in {"stage", "parse"} => WAttempt(v) # WAttempt(w)
      BY <1>4 DEF Asking
  <2> QED BY <1>1, <1>3, <1>4, <1>5, <1>6, <2>1 DEF ProtocolInv, ResponseIsFinal, IsStaged
<1>11. ChargeIsOnRecord'
  <2>1. WAttempt(w)[1] = wu[w] /\ WAttempt(w)[2] = wn[w] /\ WAttempt(w)[3] = wb[w]
      BY DEF WAttempt
  <2>2. \A a \in charged : a[1] # wu[w]
      BY <1>1 DEF ProtocolInv, ChargeIsOnRecord
  <2>3. \A a \in charged' : a \in charged \/ a = WAttempt(w)
      BY <1>1
  <2>4. PaidOnce'
      BY <2>1, <2>2, <2>3 DEF ProtocolInv, ChargeIsOnRecord, PaidOnce
  <2>5. \A v \in Workers : pc'[v] = "send" => pc[v] = "send" /\ v # w
      BY <1>1
  <2>6. \A v \in Workers : pc'[v] = "send" => \A a \in charged' : a[1] # wu[v]
      BY <1>1, <2>1, <2>3, <2>5 DEF ProtocolInv, ChargeIsOnRecord
  <2>7. ~Erased(wu[w]) => /\ journal[wu[w]] # << >> /\ Len(journal[wu[w]]) = wn[w]
                          /\ Last(journal[wu[w]]).body = wb[w]
                          /\ Last(journal[wu[w]]).st # "confirmed_not_billed"
      BY <1>1 DEF ProtocolInv, RequestIsOnRecord, SpeaksFor
  <2>8. \A a \in charged' : (ledger[a] \notin {"none", "not_billed"})'
      BY <1>1, <1>6, <2>3 DEF ProtocolInv, ChargeIsOnRecord
  <2>9. \A a \in charged' : ~Erased(a[1])' =>
           /\ journal'[a[1]] # << >> /\ Len(journal'[a[1]]) = a[2]
           /\ Last(journal'[a[1]]).body = a[3]
           /\ Last(journal'[a[1]]).st # "confirmed_not_billed"
      BY <1>1, <2>1, <2>3, <2>7 DEF ProtocolInv, ChargeIsOnRecord, Erased
  <2> QED BY <1>1, <2>4, <2>5, <2>6, <2>8, <2>9 DEF ProtocolInv, ChargeIsOnRecord
<1>12. SettledIsMetered'
    BY <1>1, <1>5 DEF ProtocolInv, SettledIsMetered, SuccessIsMetered
<1> QED BY <1>7, <1>8, <1>9, <1>10, <1>11, <1>12 DEF ProtocolInv

\* An authorisation is refused: nothing is admitted.
LEMMA ProtocolDeny ==
    ASSUME RowsInv, ProtocolInv, NEW w \in Workers, Authorize(w), ~Authorized(w)
    PROVE  ProtocolInv'
<1> USE DEF jobvars, unitvars, wvars, KeepRows, Goto
<1>0. WorkersTyped /\ LedgerTyped
    BY RowsParts
<1>1. /\ pc[w] = "authorize" /\ pc'[w] = "refused"
      /\ UNCHANGED <<job, journal, ledger, owner, unit, charged, wu, wn, wb, wans>>
      /\ \A v \in Workers : v # w => pc'[v] = pc[v]
    BY <1>0 DEF Authorize, WorkersTyped
<1>2. \A v \in Workers : WAttempt(v)' = WAttempt(v) /\ (Asking(v)' <=> Asking(v))
    BY <1>1 DEF WAttempt, Asking
<1>3. \A u \in Units : LastAttempt(u)' = LastAttempt(u) /\ journal'[u] = journal[u]
    BY <1>1 DEF LastAttempt
<1>4. RequestIsOnRecord' /\ NumberIsNext'
    BY <1>1 DEF ProtocolInv, RequestIsOnRecord, NumberIsNext, SpeaksFor, Erased
<1>5. IntentIsExclusive'
    BY <1>1, <1>2 DEF ProtocolInv, IntentIsExclusive
<1>6. ResponseIsFinal'
    BY <1>1, <1>2, <1>3 DEF ProtocolInv, ResponseIsFinal, IsStaged
<1>7. ChargeIsOnRecord'
    BY <1>1 DEF ProtocolInv, ChargeIsOnRecord, PaidOnce, Erased
<1>8. SettledIsMetered'
    BY <1>1, <1>3 DEF ProtocolInv, SettledIsMetered, SuccessIsMetered
<1> QED BY <1>4, <1>5, <1>6, <1>7, <1>8 DEF ProtocolInv

\* An attempt is admitted: its unit was never charged and nobody else is out.
LEMMA ProtocolAdmit ==
    ASSUME RowsInv, ProtocolInv, NEW w \in Workers, Authorized(w),
           Authorize(w) \/ AuthorizeUnacknowledged(w)
    PROVE  ProtocolInv'
<1> USE DEF jobvars, unitvars, wvars, KeepRows, Goto
<1> DEFINE u == wu[w]
           e == [body |-> wb[w], st |-> "admitted", ans |-> "ok"]
<1>0. WorkersTyped /\ LedgerTyped /\ JournalTyped
    BY RowsParts
<1>1. /\ pc[w] = "authorize" /\ pc'[w] \in {"send", "refused"}
      /\ journal' = [journal EXCEPT ![u] = Append(journal[u], e)]
      /\ UNCHANGED <<job, ledger, owner, unit, charged, wu, wn, wb, wans>>
      /\ \A v \in Workers : v # w => pc'[v] = pc[v]
    BY <1>0 DEF Authorize, AuthorizeUnacknowledged, Admit, WorkersTyped
<1>2. /\ u \in Units /\ ~Erased(u) /\ owner[u] = w /\ unit[u] = "processing"
      /\ \A v \in Workers : v # w =>
            owner[u] # v /\ ~(pc[v] \in {"send", "stage"} /\ wu[v] = u)
    BY <1>1, HolderIsAlone, HoldFacts DEF Authorized
<1>3. /\ Len(journal[u]) = wn[w] - 1 /\ wn[w] \in Nat
      /\ journal[u] # << >> => Last(journal[u]).st = "confirmed_not_billed"
  <2>1. journal[u] \in Seq(Entries) /\ wn[w] \in Nat /\ wn[w] >= 1
      BY <1>0, <1>2, MediaAssumption DEF JournalTyped, WorkersTyped, Numbers
  <2> QED BY <2>1, LastFacts DEF Authorized
<1>4. /\ journal'[u] # << >> /\ Len(journal'[u]) = wn[w]
      /\ Last(journal'[u]).st = "admitted" /\ Last(journal'[u]).body = wb[w]
      /\ \A v \in Units : v # u => journal'[v] = journal[v]
  <2>1. e \in Entries /\ e.st = "admitted" /\ e.body = wb[w]
      BY <1>0 DEF WorkersTyped, Entries, EntryState, Answer
  <2>2. journal[u] \in Seq(Entries) /\ journal'[u] = Append(journal[u], e)
        /\ \A v \in Units : v # u => journal'[v] = journal[v]
      BY <1>0, <1>1, <1>2 DEF JournalTyped
  <2> HIDE DEF u, e
  <2>3. journal'[u] # << >> /\ Len(journal'[u]) = Len(journal[u]) + 1 /\ Last(journal'[u]) = e
      BY <2>1, <2>2, AppendFacts
  <2> QED BY <1>3, <2>1, <2>2, <2>3
<1>5. \A v \in Workers : pc[v] # "idle" => wu[v] \in Units
    BY <1>0, BusyFacts
<1>6. \A a \in charged : a[1] # u
    BY <1>2, <1>3 DEF ProtocolInv, ChargeIsOnRecord
<1>7. \A v \in Workers : WAttempt(v)' = WAttempt(v) /\ (Asking(v)' <=> Asking(v))
    BY <1>1 DEF WAttempt, Asking
<1>8. \A v \in Units : v # u => LastAttempt(v)' = LastAttempt(v)
    BY <1>4 DEF LastAttempt
<1>9. RequestIsOnRecord'
  <2>1. ASSUME NEW v \in Workers, pc'[v] \in {"send", "stage"}, ~Erased(wu[v])'
        PROVE  (/\ SpeaksFor(v) /\ Last(journal[wu[v]]).st \in {"admitted", "ambiguous"}
                /\ owner[wu[v]] \in {v, Nobody})'
    <3>1. CASE v = w
        BY <1>1, <1>2, <1>4, <3>1 DEF SpeaksFor
    <3>2. CASE v # w
      <4>1. pc[v] \in {"send", "stage"} /\ ~Erased(wu[v]) /\ wu[v] # u /\ wu[v] \in Units
          BY <1>1, <1>2, <1>5, <2>1, <3>2 DEF Erased
      <4> QED BY <1>1, <1>4, <4>1 DEF ProtocolInv, RequestIsOnRecord, SpeaksFor
    <3> QED BY <3>1, <3>2
  <2> QED BY <2>1 DEF RequestIsOnRecord
<1> HIDE DEF u, e
<1>10. NumberIsNext'
  <2>1. ASSUME NEW v \in Workers, pc'[v] # "idle", owner'[wu'[v]] = v
        PROVE  (/\ Len(journal[wu[v]]) \in {wn[v] - 1, wn[v]}
                /\ Len(journal[wu[v]]) = wn[v] - 1 /\ journal[wu[v]] # << >> =>
                      Last(journal[wu[v]]).st = "confirmed_not_billed")'
    <3>1. CASE v = w
        BY <1>1, <1>3, <1>4, <3>1 DEF u
    <3>2. CASE v # w
      <4>1. pc[v] # "idle" /\ owner[wu[v]] = v /\ wu[v] # u /\ wu[v] \in Units
          BY <1>1, <1>2, <1>5, <2>1, <3>2
      <4> QED BY <1>1, <1>4, <4>1 DEF ProtocolInv, NumberIsNext
    <3> QED BY <3>1, <3>2
  <2> QED BY <2>1 DEF NumberIsNext
<1>11. IntentIsExclusive'
    BY <1>1, <1>7 DEF ProtocolInv, IntentIsExclusive
<1>12. ResponseIsFinal'
  <2>1. \A v \in Units : IsStaged(journal'[v]) => v # u /\ IsStaged(journal[v])
      BY <1>4 DEF IsStaged
  <2> QED BY <1>1, <1>4, <1>7, <1>8, <2>1 DEF ProtocolInv, ResponseIsFinal
<1>13. ChargeIsOnRecord'
  <2>1. \A a \in charged : a[1] \in Units
      BY <1>0, AttemptFacts DEF LedgerTyped
  <2>2. \A v \in Workers : pc'[v] = "send" => v = w \/ pc[v] = "send"
      BY <1>1
  <2>3. \A v \in Workers : v # w /\ pc'[v] = "send" => wu[v] # u
      BY <1>1, <1>2
  <2> QED BY <1>1, <1>4, <1>6, <2>1, <2>2, <2>3
          DEF ProtocolInv, ChargeIsOnRecord, PaidOnce, Erased, u
<1>14. SettledIsMetered'
    BY <1>1, <1>2, <1>4, <1>8 DEF ProtocolInv, SettledIsMetered, SuccessIsMetered
<1> QED BY <1>9, <1>10, <1>11, <1>12, <1>13, <1>14 DEF ProtocolInv

\* The holder of a claim marks its journal's last entry, which it speaks for:
\* the response is staged, or its usage is settled.
LEMMA ProtocolMark ==
    ASSUME RowsInv, ProtocolInv, NEW w \in Workers, (Stage(w) /\ CanStage(w)) \/ SettleUsage(w)
    PROVE  ProtocolInv'
<1> USE DEF jobvars, unitvars, wvars, KeepRows, KeepClaim, Goto, FailWith
<1> DEFINE u == wu[w]
<1>0. WorkersTyped /\ LedgerTyped /\ JournalTyped
    BY RowsParts
<1>1. /\ pc[w] \in {"stage", "usage"} /\ pc'[w] \in {"parse", "fail", "project"}
      /\ Holds(w) /\ SpeaksFor(w)
      /\ UNCHANGED <<job, ledger, owner, unit, charged, wu, wn, wb, wans>>
      /\ \A v \in Workers : v # w => pc'[v] = pc[v]
    BY <1>0 DEF Stage, CanStage, SettleUsage, UsageSettles, WorkersTyped
<1>2. /\ u \in Units /\ ~Erased(u) /\ owner[u] = w /\ unit[u] = "processing"
      /\ \A v \in Workers : v # w =>
            owner[u] # v /\ ~(pc[v] \in {"send", "stage"} /\ wu[v] = u)
    BY <1>1, HolderIsAlone, HoldFacts
<1>3. /\ journal[u] # << >> /\ journal[u] \in Seq(Entries) /\ LastAttempt(u) = WAttempt(w)
      /\ Len(journal[u]) = wn[w]
    BY <1>0, <1>1, <1>2 DEF SpeaksFor, JournalTyped, LastAttempt, WAttempt
<1>4. /\ journal'[u] # << >> /\ Len(journal'[u]) = Len(journal[u])
      /\ Last(journal'[u]).body = Last(journal[u]).body
      /\ \A v \in Units : v # u => journal'[v] = journal[v]
      /\ \/ /\ pc[w] = "stage" /\ Last(journal'[u]).st = "response_staged"
            /\ Last(journal'[u]).ans = wans[w] /\ ledger[WAttempt(w)] = "started"
         \/ /\ pc[w] = "usage" /\ Last(journal'[u]).st = "usage_settled" /\ IsStaged(journal[u])
            /\ Last(journal'[u]).ans = Last(journal[u]).ans
            /\ ledger[WAttempt(w)] = "metered" /\ pc'[w] # "parse"
  <2>1. CASE Stage(w) /\ CanStage(w)
    <3>1. journal' = [journal EXCEPT ![u] = Staged(journal[u], wans[w])]
          /\ pc[w] = "stage" /\ ledger[WAttempt(w)] = "started" /\ wans[w] \in Answer
        BY <1>0, <2>1 DEF Stage, CanStage, Staged, WorkersTyped
    <3> HIDE DEF u
    <3>2. journal'[u] = Staged(journal[u], wans[w])
          /\ \A v \in Units : v # u => journal'[v] = journal[v]
        BY <1>0, <1>2, <3>1 DEF JournalTyped
    <3> QED BY <1>3, <3>1, <3>2, StageFacts
  <2>2. CASE SettleUsage(w)
    <3>1. journal' = [journal EXCEPT ![u] = SetLast(journal[u], "usage_settled")]
          /\ pc[w] = "usage" /\ ledger[WAttempt(w)] = "metered" /\ IsStaged(journal[u])
          /\ pc'[w] # "parse"
        BY <1>0, <2>2 DEF SettleUsage, UsageSettles, WorkersTyped
    <3> HIDE DEF u
    <3>2. journal'[u] = SetLast(journal[u], "usage_settled")
          /\ \A v \in Units : v # u => journal'[v] = journal[v]
        BY <1>0, <1>2, <3>1 DEF JournalTyped
    <3>3. "usage_settled" \in EntryState
        BY DEF EntryState
    <3> QED BY <1>3, <3>1, <3>2, <3>3, MarkFacts
  <2> QED BY <2>1, <2>2
<1>5. \A v \in Workers : pc[v] # "idle" => wu[v] \in Units
    BY <1>0, BusyFacts
<1>6. \A v \in Workers : /\ WAttempt(v)' = WAttempt(v)
                         /\ Asking(v)' => v # w /\ Asking(v)
    BY <1>1 DEF WAttempt, Asking
<1>7. \A v \in Units : LastAttempt(v)' = LastAttempt(v)
    BY <1>4 DEF LastAttempt
<1>8. \A v \in Workers : v # w /\ Asking(v) => WAttempt(v) # WAttempt(w)
  <2>1. CASE pc[w] = "stage"
      BY <2>1 DEF ProtocolInv, IntentIsExclusive, Asking
  <2>2. CASE pc[w] = "usage"
      BY <1>2, <1>3, <1>4, <2>2 DEF ProtocolInv, ResponseIsFinal
  <2> QED BY <1>1, <2>1, <2>2
<1> HIDE DEF u
<1>9. RequestIsOnRecord'
  <2>1. ASSUME NEW v \in Workers, pc'[v] \in {"send", "stage"}, ~Erased(wu[v])'
        PROVE  (/\ SpeaksFor(v) /\ Last(journal[wu[v]]).st \in {"admitted", "ambiguous"}
                /\ owner[wu[v]] \in {v, Nobody})'
    <3>1. v # w /\ pc[v] \in {"send", "stage"} /\ ~Erased(wu[v]) /\ wu[v] # u /\ wu[v] \in Units
        BY <1>1, <1>2, <1>5, <2>1 DEF Erased
    <3> QED BY <1>1, <1>4, <3>1 DEF ProtocolInv, RequestIsOnRecord, SpeaksFor
  <2> QED BY <2>1 DEF RequestIsOnRecord
<1>10. NumberIsNext'
  <2>1. ASSUME NEW v \in Workers, pc'[v] # "idle", owner'[wu'[v]] = v
        PROVE  (/\ Len(journal[wu[v]]) \in {wn[v] - 1, wn[v]}
                /\ Len(journal[wu[v]]) = wn[v] - 1 /\ journal[wu[v]] # << >> =>
                      Last(journal[wu[v]]).st = "confirmed_not_billed")'
    <3>1. CASE v = w
      <4>1. wn[w] \in Nat
          BY <1>0, MediaAssumption DEF WorkersTyped, Numbers
      <4> QED BY <1>1, <1>3, <1>4, <3>1, <4>1 DEF u
    <3>2. CASE v # w
      <4>1. pc[v] # "idle" /\ owner[wu[v]] = v /\ wu[v] # u /\ wu[v] \in Units
          BY <1>1, <1>2, <1>5, <2>1, <3>2
      <4> QED BY <1>1, <1>4, <4>1 DEF ProtocolInv, NumberIsNext
    <3> QED BY <3>1, <3>2
  <2> QED BY <2>1 DEF NumberIsNext
<1>11. IntentIsExclusive'
    BY <1>1, <1>6 DEF ProtocolInv, IntentIsExclusive
<1>12. ResponseIsFinal'
  <2>1. ledger[WAttempt(w)] # "none"
      BY <1>4
  <2>2. \A v \in Units : IsStaged(journal'[v]) => v = u \/ IsStaged(journal[v])
      BY <1>4
  <2>3. Last(journal'[u]).ans = "rejected" => LastAttempt(u) \notin charged
      BY <1>1, <1>2, <1>3, <1>4, <1>7 DEF ProtocolInv, ResponseIsFinal
  <2>4. \A x \in Workers : pc'[x] = "parse" =>
          /\ ledger[WAttempt(x)] # "none"
          /\ \A v \in Workers : Asking(v)' => WAttempt(v) # WAttempt(x)
      BY <1>1, <1>6, <1>8, <2>1 DEF ProtocolInv, ResponseIsFinal
  <2>5. \A x \in Units : IsStaged(journal'[x]) =>
          /\ ledger[LastAttempt(x)] # "none"
          /\ \A v \in Workers : Asking(v)' => WAttempt(v) # LastAttempt(x)
      BY <1>3, <1>6, <1>8, <2>1, <2>2 DEF ProtocolInv, ResponseIsFinal
  <2>6. \A x \in Workers : pc'[x] \in {"stage", "parse"} /\ wans[x] = "rejected" =>
          WAttempt(x) \notin charged
      BY <1>1, <1>4 DEF ProtocolInv, ResponseIsFinal
  <2>7. \A x \in Units : IsStaged(journal'[x]) /\ Last(journal'[x]).ans = "rejected" =>
                            LastAttempt(x) \notin charged
      BY <1>1, <1>4, <1>7, <2>2, <2>3 DEF ProtocolInv, ResponseIsFinal
  <2> QED BY <1>1, <1>6, <1>7, <2>4, <2>5, <2>6, <2>7 DEF ResponseIsFinal
<1>13. ChargeIsOnRecord'
  <2>1. \A a \in charged : a[1] \in Units
      BY <1>0, AttemptFacts DEF LedgerTyped
  <2>2. \A v \in Workers : pc'[v] = "send" => pc[v] = "send"
      BY <1>1
  <2>3. Last(journal'[u]).st # "confirmed_not_billed"
      BY <1>4
  <2> QED BY <1>1, <1>4, <2>1, <2>2, <2>3 DEF ProtocolInv, ChargeIsOnRecord, PaidOnce, Erased
<1>14. SettledIsMetered'
  <2>1. Last(journal'[u]).st \in {"usage_settled", "settled"} => ledger[LastAttempt(u)] = "metered"
      BY <1>3, <1>4
  <2> QED BY <1>1, <1>2, <1>4, <1>7, <2>1 DEF ProtocolInv, SettledIsMetered, SuccessIsMetered
<1> QED BY <1>9, <1>10, <1>11, <1>12, <1>13, <1>14 DEF ProtocolInv

\* The holder of a claim closes it: the result is projected, or a failure is
\* settled.  A charged attempt is not marked as unbilled, and none is added
\* behind it.
LEMMA ProtocolClose ==
    ASSUME RowsInv, ProtocolInv, NEW w \in Workers, Project(w) \/ SettleFailure(w)
    PROVE  ProtocolInv'
<1> USE DEF jobvars, unitvars, wvars, KeepRows, KeepClaim, Goto, FailWith
<1> DEFINE u == wu[w]
<1>0. WorkersTyped /\ LedgerTyped /\ JournalTyped /\ UnitsTyped /\ JobsTyped
    BY RowsWhole
<1>1. /\ pc[w] \in {"project", "fail"} /\ Holds(w) /\ Release(w)
      /\ UNCHANGED <<ledger, charged>>
      /\ owner' = [owner EXCEPT ![u] = Nobody]
    BY DEF Project, CanProject, SettleFailure, FailureSettles, CloseUnit
<1>2. /\ u \in Units /\ ~Erased(u) /\ owner[u] = w
      /\ \A j \in u : job[j] = "processing"
      /\ \A v \in Workers : v # w =>
            owner[u] # v /\ ~(pc[v] \in {"send", "stage"} /\ wu[v] = u)
    BY <1>1, HolderIsAlone, HoldFacts
<1>3. \A v \in Workers : /\ v # w => /\ pc'[v] = pc[v] /\ wu'[v] = wu[v] /\ wn'[v] = wn[v]
                                     /\ wb'[v] = wb[v] /\ wans'[v] = wans[v]
                         /\ v = w => pc'[v] = "idle"
    BY <1>0, <1>1 DEF Release, WorkersTyped
<1>4. \A v \in Units : /\ v # u => /\ journal'[v] = journal[v] /\ unit'[v] = unit[v]
                                   /\ owner'[v] = owner[v]
                       /\ v = u => owner'[v] = Nobody
    BY <1>0, <1>1 DEF JournalTyped, UnitsTyped, Project, SettleFailure, CloseUnit
<1>5. \A v \in Units : Erased(v) => Erased(v)'
  <2>1. \A j \in Jobs : j \notin u => job'[j] = job[j]
      BY <1>0 DEF JobsTyped, Project, SettleFailure, Put
  <2> QED BY <1>2, <2>1, UnitFacts DEF Erased
<1>6. \A v \in Workers : pc[v] # "idle" => wu[v] \in Units
    BY <1>0, BusyFacts
<1>7. \A v \in Workers : /\ Asking(v)' => v # w /\ Asking(v)
                         /\ v # w => WAttempt(v)' = WAttempt(v)
    BY <1>3 DEF WAttempt, Asking
<1>8. \A v \in Units : v # u => LastAttempt(v)' = LastAttempt(v)
    BY <1>4 DEF LastAttempt
<1>9. RequestIsOnRecord' /\ NumberIsNext'
  <2>1. \A v \in Workers : pc'[v] \in {"send", "stage"} =>
           /\ v # w /\ pc[v] \in {"send", "stage"} /\ wu[v] \in Units /\ wu[v] # u
           /\ wu'[v] = wu[v] /\ wn'[v] = wn[v] /\ wb'[v] = wb[v]
      BY <1>2, <1>3, <1>6
  <2>2. RequestIsOnRecord'
      BY <1>4, <1>5, <2>1 DEF ProtocolInv, RequestIsOnRecord, SpeaksFor
  <2>3. \A v \in Workers : pc'[v] # "idle" /\ owner'[wu'[v]] = v =>
           /\ v # w /\ pc[v] # "idle" /\ wu[v] \in Units /\ wu[v] # u /\ owner[wu[v]] = v
           /\ wu'[v] = wu[v] /\ wn'[v] = wn[v]
      BY <1>3, <1>4, <1>6, MediaAssumption
  <2>4. NumberIsNext'
      BY <1>4, <2>3 DEF ProtocolInv, NumberIsNext
  <2> QED BY <2>2, <2>4
<1>10. IntentIsExclusive'
  <2>1. \A v \in Workers : pc'[v] \in {"authorize", "refused", "send"} => v # w /\ pc'[v] = pc[v]
      BY <1>3
  <2> QED BY <1>1, <1>7, <2>1 DEF ProtocolInv, IntentIsExclusive
\* What becomes of the unit's journal.
<1>11. CASE Project(w)
  <2>1. /\ Last(journal'[u]).st = "settled"
        /\ Last(journal[u]).st = "usage_settled" /\ journal[u] # << >> /\ journal'[u] # << >>
        /\ Len(journal'[u]) = Len(journal[u])
        /\ Last(journal'[u]).body = Last(journal[u]).body
    <3>1. /\ journal[u] \in Seq(Entries) /\ journal[u] # << >>
          /\ Last(journal[u]).st = "usage_settled"
          /\ journal'[u] = SetLast(journal[u], "settled")
        BY <1>0, <1>2, <1>11 DEF JournalTyped, Project, CanProject, SpeaksFor
    <3>2. "settled" \in EntryState
        BY DEF EntryState
    <3> QED BY <3>1, <3>2, MarkFacts
  <2>2. ResponseIsFinal'
    <3>1. \A v \in Units : IsStaged(journal'[v]) => v # u /\ IsStaged(journal[v])
        BY <1>4, <2>1 DEF IsStaged
    <3> QED BY <1>1, <1>3, <1>4, <1>7, <1>8, <3>1 DEF ProtocolInv, ResponseIsFinal
  <2>3. ChargeIsOnRecord'
    <3>1. \A a \in charged : a[1] \in Units
        BY <1>0, AttemptFacts DEF LedgerTyped
    <3>2. \A v \in Workers : pc'[v] = "send" => v # w /\ pc[v] = "send" /\ wu'[v] = wu[v]
        BY <1>3
    <3>3. \A a \in charged : ~Erased(a[1])' => ~Erased(a[1])
        BY <1>5, <3>1
    <3> QED BY <1>1, <1>4, <2>1, <3>1, <3>2, <3>3 DEF ProtocolInv, ChargeIsOnRecord, PaidOnce
  <2>4. SettledIsMetered'
    <3>1. ledger[LastAttempt(u)] = "metered"
        BY <1>2, <2>1 DEF ProtocolInv, SettledIsMetered
    <3>2. \A v \in Units : LastAttempt(v)' = LastAttempt(v)
        BY <1>4, <2>1 DEF LastAttempt
    <3> QED BY <1>1, <1>4, <2>1, <3>1, <3>2 DEF ProtocolInv, SettledIsMetered, SuccessIsMetered
  <2> QED BY <1>9, <1>10, <2>2, <2>3, <2>4 DEF ProtocolInv
<1>12. CASE SettleFailure(w)
  <2>0. /\ journal[u] \in Seq(Entries) /\ EntryFor(wdisp[w]) \in EntryState
        /\ EntryFor(wdisp[w]) \in {"confirmed_not_billed", "confirmed_invalid", "ambiguous"}
        /\ wdisp[w] # "not_billed" => EntryFor(wdisp[w]) # "confirmed_not_billed"
        /\ wn[w] \in Nat
    <3>1. wn[w] \in Nat
        BY <1>0, MediaAssumption DEF WorkersTyped, Numbers
    <3> QED BY <1>0, <1>2, <3>1 DEF JournalTyped, EntryFor, EntryState
  <2>1. \/ journal'[u] = journal[u]
        \/ /\ Last(journal'[u]).st = EntryFor(wdisp[w]) /\ journal'[u] # << >>
           /\ \/ Len(journal[u]) = wn[w] - 1
              \/ /\ journal[u] # << >> /\ Len(journal[u]) = wn[w] /\ Last(journal[u]).body = wb[w]
                 /\ Len(journal'[u]) = Len(journal[u])
                 /\ Last(journal'[u]).body = Last(journal[u]).body
                 /\ EntryFor(wdisp[w]) = "confirmed_not_billed" =>
                       ledger[WAttempt(w)] = "not_billed"
    <3> DEFINE e == [body |-> wb[w], st |-> EntryFor(wdisp[w]), ans |-> "ok"]
    <3>1. journal' = [journal EXCEPT ![u] =
             IF wdisp[w] = "before_egress" THEN journal[u]
             ELSE IF Appends(w) THEN Append(journal[u], e)
             ELSE SetLast(journal[u], EntryFor(wdisp[w]))]
        BY <1>12 DEF SettleFailure
    <3>2. e \in Entries /\ e.st = EntryFor(wdisp[w])
        BY <1>0, <2>0 DEF WorkersTyped, Entries, Answer
    <3> HIDE DEF e
    <3>3. CASE wdisp[w] = "before_egress"
        BY <1>0, <1>2, <3>1, <3>3 DEF JournalTyped
    <3>4. CASE wdisp[w] # "before_egress" /\ Appends(w)
      <4>1. journal'[u] = Append(journal[u], e) /\ Len(journal[u]) = wn[w] - 1
          BY <1>0, <1>2, <3>1, <3>4 DEF JournalTyped, Appends
      <4>2. journal'[u] # << >> /\ Last(journal'[u]) = e
          BY <2>0, <3>2, <4>1, AppendFacts
      <4> QED BY <3>2, <4>1, <4>2
    <3>5. CASE wdisp[w] # "before_egress" /\ ~Appends(w)
      <4>1. journal'[u] = SetLast(journal[u], EntryFor(wdisp[w]))
          BY <1>0, <1>2, <3>1, <3>5 DEF JournalTyped
      <4>2. journal[u] # << >> /\ Len(journal[u]) = wn[w] /\ Last(journal[u]).body = wb[w]
          BY <1>12, <3>5 DEF SettleFailure, FailureSettles, SpeaksFor
      <4>3. EntryFor(wdisp[w]) = "confirmed_not_billed" => ledger[WAttempt(w)] = "not_billed"
          BY <1>12, <2>0 DEF SettleFailure, FailureSettles, UsageAgrees
      <4>4. journal'[u] # << >> /\ Last(journal'[u]).st = EntryFor(wdisp[w])
            /\ Len(journal'[u]) = Len(journal[u])
            /\ Last(journal'[u]).body = Last(journal[u]).body
          BY <2>0, <4>1, <4>2, MarkFacts
      <4> QED BY <4>2, <4>3, <4>4
    <3> QED BY <3>3, <3>4, <3>5
  <2>2. /\ unit'[u] # "succeeded"
        /\ journal'[u] = journal[u] \/ Last(journal'[u]).st
              \in {"confirmed_not_billed", "confirmed_invalid", "ambiguous"}
    <3>1. unit'[u] # "succeeded"
        BY <1>0, <1>2, <1>12 DEF UnitsTyped, SettleFailure, CloseUnit
    <3> QED BY <2>0, <2>1, <3>1
  <2>3. ResponseIsFinal'
    <3>1. \A v \in Units : IsStaged(journal'[v]) => journal'[v] = journal[v] /\ IsStaged(journal[v])
        BY <1>4, <2>2 DEF IsStaged
    <3>2. \A v \in Units : journal'[v] = journal[v] => LastAttempt(v)' = LastAttempt(v)
        BY DEF LastAttempt
    <3> QED BY <1>1, <1>3, <1>4, <1>7, <3>1, <3>2 DEF ProtocolInv, ResponseIsFinal
  <2>4. ChargeIsOnRecord'
    <3>1. \A a \in charged : a[1] \in Units /\ a = <<a[1], a[2], a[3]>>
        BY <1>0, AttemptFacts DEF LedgerTyped
    <3>2. \A v \in Workers : pc'[v] = "send" => v # w /\ pc[v] = "send" /\ wu'[v] = wu[v]
        BY <1>3
    <3>3. \A a \in charged : ~Erased(a[1])' => ~Erased(a[1])
        BY <1>5, <3>1
    <3>4. \A a \in charged : a[1] = u =>
             /\ journal[u] # << >> /\ Len(journal[u]) = a[2] /\ Last(journal[u]).body = a[3]
             /\ Last(journal[u]).st # "confirmed_not_billed"
        BY <1>2 DEF ProtocolInv, ChargeIsOnRecord
    <3>5. \A a \in charged : a[1] = u => Len(journal[u]) # wn[w] - 1
        BY <1>1, <1>2, <3>4 DEF ProtocolInv, NumberIsNext
    <3>6. \A a \in charged : a[1] = u /\ Len(journal[u]) = wn[w] /\ Last(journal[u]).body = wb[w]
             => ledger[WAttempt(w)] # "not_billed"
      <4>1. ASSUME NEW a \in charged, a[1] = u, Len(journal[u]) = wn[w], Last(journal[u]).body = wb[w]
            PROVE  ledger[WAttempt(w)] # "not_billed"
        <5>1. a = WAttempt(w)
            BY <3>1, <3>4, <4>1 DEF WAttempt
        <5> QED BY <5>1 DEF ProtocolInv, ChargeIsOnRecord
      <4> QED BY <4>1
    <3>7. \A a \in charged : a[1] = u =>
             /\ journal'[u] # << >> /\ Len(journal'[u]) = a[2] /\ Last(journal'[u]).body = a[3]
             /\ Last(journal'[u]).st # "confirmed_not_billed"
        BY <2>1, <3>4, <3>5, <3>6
    <3> QED BY <1>1, <1>4, <3>1, <3>2, <3>3, <3>7 DEF ProtocolInv, ChargeIsOnRecord, PaidOnce
  <2>5. SettledIsMetered'
    <3>1. \A v \in Units : journal'[v] = journal[v] => LastAttempt(v)' = LastAttempt(v)
        BY DEF LastAttempt
    <3> QED BY <1>1, <1>4, <2>2, <3>1 DEF ProtocolInv, SettledIsMetered, SuccessIsMetered
  <2> QED BY <1>9, <1>10, <2>3, <2>4, <2>5 DEF ProtocolInv
<1> QED BY <1>11, <1>12

\* A unit is claimed or planned afresh: no request is out for it, and the new
\* owner's number follows its journal.
LEMMA ProtocolClaim ==
    ASSUME RowsInv, ProtocolInv, NEW w \in Workers, ClaimWork(w) \/ ClaimReplan(w)
    PROVE  ProtocolInv'
<1> USE DEF jobvars, unitvars, wvars
<1>0. WorkersTyped /\ LedgerTyped /\ JournalTyped /\ UnitsTyped /\ JobsTyped
    BY RowsWhole
<1>1. PICK u \in Units :
         /\ pc[w] = "idle" /\ Take(w, u) /\ ~IsLost(journal[u])
         /\ UNCHANGED <<journal, ledger, charged>>
         /\ owner' = [owner EXCEPT ![u] = w]
         /\ \A v \in Units : unit'[v] = "succeeded" => unit[v] = "succeeded"
         /\ \A j \in u : job[j] # "erased"
  <2>1. CASE ClaimWork(w)
    <3>1. /\ Selection \in Units /\ Selected(Selection) /\ Candidates # {}
          /\ \A j \in Selection : job[j] # "erased"
        BY <2>1, SelectionFacts DEF ClaimWork
    <3> QED BY <1>0, <2>1, <3>1 DEF ClaimWork, UnitsTyped
  <2>2. CASE ClaimReplan(w)
    <3>1. PlanFirst # {} /\ unit[PlanFirst] = "absent"
        BY <2>2 DEF ClaimReplan
    <3>2. \A j \in PlanFirst : j \in Jobs /\ job[j] # "erased"
        BY DEF PlanFirst, Candidates, Eligible
    <3>3. PlanFirst \in Units
        BY <3>1, <3>2 DEF Units
    <3>4. ~IsLost(journal[PlanFirst])
        BY <1>0, <3>1, <3>3 DEF JournalTyped, IsLost
    <3>5. \A v \in Units : unit'[v] = "succeeded" => unit[v] = "succeeded"
      <4>1. unit' = [unit EXCEPT ![member[HeadJob]] = "absent", ![PlanFirst] = "processing"]
          BY <2>2 DEF ClaimReplan
      <4> QED BY <1>0, <4>1 DEF UnitsTyped
    <3> QED BY <2>2, <3>2, <3>3, <3>4, <3>5 DEF ClaimReplan
  <2> QED BY <2>1, <2>2
<1>2. /\ \A v \in Workers : v # w => /\ pc'[v] = pc[v] /\ wu'[v] = wu[v] /\ wn'[v] = wn[v]
                                     /\ wb'[v] = wb[v] /\ wans'[v] = wans[v]
      /\ wu'[w] = u /\ wn'[w] = NextNumber(journal[u])
      /\ \/ pc'[w] = "prepare"
         \/ /\ pc'[w] = "parse" /\ IsStaged(journal[u])
            /\ wb'[w] = Last(journal[u]).body /\ wans'[w] = Last(journal[u]).ans
    BY <1>0, <1>1 DEF Take, WorkersTyped
<1>3. \A v \in Units : Erased(v) => Erased(v)'
  <2>1. \A j \in Jobs : j \notin u => job'[j] = job[j]
      BY <1>0, <1>1 DEF JobsTyped, Take, Put
  <2> QED BY <1>1, <2>1, UnitFacts DEF Erased
<1>4. \A v \in Workers : pc[v] # "idle" => wu[v] \in Units
    BY <1>0, BusyFacts
<1>5. \A v \in Workers : /\ Asking(v)' => v # w /\ Asking(v)
                         /\ v # w => WAttempt(v)' = WAttempt(v)
    BY <1>2 DEF WAttempt, Asking
<1>6. \A v \in Units : LastAttempt(v)' = LastAttempt(v)
    BY <1>1 DEF LastAttempt
<1>7. journal[u] \in Seq(Entries)
    BY <1>0 DEF JournalTyped
<1>8. \A v \in Units : owner'[v] = IF v = u THEN w ELSE owner[v]
    BY <1>0, <1>1 DEF UnitsTyped
<1>9. RequestIsOnRecord'
  <2>1. \A v \in Workers : pc'[v] \in {"send", "stage"} =>
           /\ v # w /\ pc[v] \in {"send", "stage"} /\ wu[v] \in Units
           /\ wu'[v] = wu[v] /\ wn'[v] = wn[v] /\ wb'[v] = wb[v]
      BY <1>2, <1>4
  <2>2. \A v \in Workers : pc[v] \in {"send", "stage"} /\ ~Erased(wu[v]) => wu[v] # u
      BY <1>1 DEF ProtocolInv, RequestIsOnRecord, SpeaksFor, IsLost
  <2> QED BY <1>1, <1>3, <1>8, <2>1, <2>2 DEF ProtocolInv, RequestIsOnRecord, SpeaksFor
<1>10. NumberIsNext'
  <2>1. /\ Len(journal[u]) \in {wn'[w] - 1, wn'[w]}
        /\ Len(journal[u]) = wn'[w] - 1 /\ journal[u] # << >> =>
              Last(journal[u]).st = "confirmed_not_billed"
      BY <1>2, <1>7, LastFacts DEF NextNumber
  <2>2. \A v \in Workers : v # w /\ pc'[v] # "idle" /\ owner'[wu'[v]] = v =>
           /\ pc[v] # "idle" /\ wu[v] \in Units /\ owner[wu[v]] = v
           /\ wu'[v] = wu[v] /\ wn'[v] = wn[v]
      BY <1>2, <1>4, <1>8
  <2> QED BY <1>1, <1>2, <2>1, <2>2 DEF ProtocolInv, NumberIsNext
<1>11. IntentIsExclusive'
  <2>1. \A v \in Workers : pc'[v] \in {"authorize", "refused", "send"} => v # w /\ pc'[v] = pc[v]
      BY <1>2
  <2> QED BY <1>1, <1>5, <2>1 DEF ProtocolInv, IntentIsExclusive
<1>12. ResponseIsFinal'
  <2>1. pc'[w] = "parse" => /\ WAttempt(w)' = LastAttempt(u) /\ IsStaged(journal[u])
                            /\ wans'[w] = Last(journal[u]).ans
      BY <1>2 DEF WAttempt, LastAttempt, NextNumber, IsStaged
  <2> QED BY <1>1, <1>2, <1>5, <1>6, <2>1 DEF ProtocolInv, ResponseIsFinal
<1>13. ChargeIsOnRecord'
  <2>1. \A a \in charged : a[1] \in Units
      BY <1>0, AttemptFacts DEF LedgerTyped
  <2>2. \A v \in Workers : pc'[v] = "send" => v # w /\ pc[v] = "send" /\ wu'[v] = wu[v]
      BY <1>2
  <2>3. \A a \in charged : ~Erased(a[1])' => ~Erased(a[1])
      BY <1>3, <2>1
  <2> QED BY <1>1, <2>2, <2>3 DEF ProtocolInv, ChargeIsOnRecord, PaidOnce
<1>14. SettledIsMetered'
    BY <1>1, <1>6 DEF ProtocolInv, SettledIsMetered, SuccessIsMetered
<1> QED BY <1>9, <1>10, <1>11, <1>12, <1>13, <1>14 DEF ProtocolInv

\* A claim writes a unit off: its last attempt may be marked ambiguous, its
\* owner is gone.
LEMMA ProtocolWriteOff ==
    ASSUME RowsInv, ProtocolInv, NEW w \in Workers, ClaimLost(w) \/ ClaimHold(w)
    PROVE  ProtocolInv'
<1> USE DEF jobvars, unitvars, wvars
<1>0. WorkersTyped /\ LedgerTyped /\ JournalTyped /\ UnitsTyped /\ JobsTyped
    BY RowsWhole
<1>1. PICK u \in Units :
         /\ UNCHANGED <<pc, wu, wn, wb, wans, charged>>
         /\ \A v \in Units : v # u => journal'[v] = journal[v] /\ owner'[v] = owner[v]
                                      /\ unit'[v] = unit[v]
         /\ owner'[u] \in {owner[u], Nobody}
         /\ \/ journal'[u] = journal[u]
            \/ /\ IsLost(journal[u]) /\ journal'[u] = SetLast(journal[u], "ambiguous")
         /\ unit'[u] = "succeeded" => unit[u] = "succeeded"
         /\ \A c \in Attempts : \/ ledger'[c] = ledger[c]
                                \/ ledger[c] = "started" /\ ledger'[c] = "ambiguous"
         /\ \A j \in Jobs : job[j] = "erased" => job'[j] = "erased"
         /\ owner'[u] = Nobody \/ unit[u] = "succeeded"
  <2>1. CASE ClaimLost(w)
    <3> DEFINE u == Selection
    <3>1. /\ u \in Units /\ Selected(u) /\ Candidates # {}
          /\ \A j \in u : job[j] # "erased"
        BY <2>1, SelectionFacts DEF ClaimLost
    <3>2. /\ UNCHANGED <<pc, wu, wn, wb, wans, charged>> /\ IsLost(journal[u])
          /\ journal' = [journal EXCEPT ![u] = SetLast(journal[u], "ambiguous")]
          /\ job' = Put(job, u, "failed_terminal")
          /\ unit' = [unit EXCEPT ![u] = "failed_terminal"]
          /\ owner' = [owner EXCEPT ![u] = Nobody]
          /\ ledger' = [ledger EXCEPT ![LastAttempt(u)] =
                           IF @ = "started" THEN "ambiguous" ELSE @]
        BY <2>1 DEF ClaimLost, FailJobs, CloseUnit
    <3> HIDE DEF u
    <3>3. /\ \A v \in Units : v # u => journal'[v] = journal[v] /\ owner'[v] = owner[v]
                                       /\ unit'[v] = unit[v]
          /\ owner'[u] = Nobody /\ unit'[u] = "failed_terminal"
          /\ journal'[u] = SetLast(journal[u], "ambiguous")
        BY <1>0, <3>1, <3>2 DEF JournalTyped, UnitsTyped
    <3>4. \A c \in Attempts : \/ ledger'[c] = ledger[c]
                              \/ ledger[c] = "started" /\ ledger'[c] = "ambiguous"
        BY <1>0, <3>2 DEF LedgerTyped
    <3>5. \A j \in Jobs : job[j] = "erased" => job'[j] = "erased"
        BY <1>0, <3>1, <3>2 DEF JobsTyped, Put
    <3> QED BY <3>1, <3>2, <3>3, <3>4, <3>5
  <2>2. CASE ClaimHold(w)
    <3> DEFINE u == member[HeadJob]
               S == {j \in Members(u) : job[j] \in {"pending", "retry_wait", "processing"}}
               lost == IF u # NoUnit /\ journal[u] # << >> /\ Last(journal[u]).st = "admitted"
                       THEN {a \in {LastAttempt(u)} : ledger[a] # "not_billed"} ELSE {}
    <3>1. /\ UNCHANGED <<pc, wu, wn, wb, wans, charged>>
          /\ Candidates # {} /\ u # NoUnit
          /\ job' = Put(job, S, "failed_terminal")
          /\ journal' = [journal EXCEPT ![u] =
                IF lost # {} THEN SetLast(journal[u], "ambiguous") ELSE journal[u]]
          /\ ledger' = [a \in Attempts |->
                IF a \in lost /\ ledger[a] = "started" THEN "ambiguous" ELSE ledger[a]]
          /\ \/ unit[u] = "succeeded" /\ UNCHANGED <<unit, owner>>
             \/ /\ unit' = [unit EXCEPT ![u] = "failed_terminal"]
                /\ owner' = [owner EXCEPT ![u] = Nobody]
        BY <2>2 DEF ClaimHold, FailJobs, CloseUnit
    <3>2. u \in Units
        BY <1>0, <3>1, HeadFacts DEF JobsTyped
    <3>3. lost # {} => IsLost(journal[u])
        BY DEF IsLost
    <3>4. \A c \in Attempts : \/ ledger'[c] = ledger[c]
                              \/ ledger[c] = "started" /\ ledger'[c] = "ambiguous"
        BY <3>1
    <3>5. \A j \in S : job[j] # "erased"
        OBVIOUS
    <3> HIDE DEF u, S, lost
    <3>6. /\ \A v \in Units : v # u => journal'[v] = journal[v] /\ owner'[v] = owner[v]
                                       /\ unit'[v] = unit[v]
          /\ owner'[u] = Nobody \/ (owner'[u] = owner[u] /\ unit[u] = "succeeded")
          /\ unit'[u] = "succeeded" => unit[u] = "succeeded"
          /\ \/ journal'[u] = journal[u]
             \/ /\ IsLost(journal[u]) /\ journal'[u] = SetLast(journal[u], "ambiguous")
        BY <1>0, <3>1, <3>2, <3>3 DEF JournalTyped, UnitsTyped
    <3>7. \A j \in Jobs : job[j] = "erased" => job'[j] = "erased"
        BY <1>0, <3>1, <3>5 DEF JobsTyped, Put
    <3> QED BY <3>1, <3>2, <3>4, <3>6, <3>7
  <2> QED BY <2>1, <2>2
<1>2. /\ Len(journal'[u]) = Len(journal[u]) /\ (journal'[u] = << >> <=> journal[u] = << >>)
      /\ Last(journal'[u]).body = Last(journal[u]).body
      /\ \/ journal'[u] = journal[u]
         \/ Last(journal'[u]).st = "ambiguous" /\ journal[u] # << >> /\ IsLost(journal[u])
  <2>1. journal[u] \in Seq(Entries) /\ "ambiguous" \in EntryState
      BY <1>0 DEF JournalTyped, EntryState
  <2>2. CASE journal'[u] = journal[u]
      BY <2>2
  <2>3. CASE IsLost(journal[u]) /\ journal'[u] = SetLast(journal[u], "ambiguous")
      BY <2>1, <2>3, MarkFacts DEF IsLost
  <2> QED BY <1>1, <2>2, <2>3
<1>3. \A v \in Units : Erased(v) => Erased(v)'
    BY <1>1, UnitFacts DEF Erased
<1>4. \A v \in Workers : pc[v] # "idle" => wu[v] \in Units /\ WAttempt(v) \in Attempts
    BY <1>0, BusyFacts
<1>5. \A v \in Workers : /\ Asking(v)' <=> Asking(v)
                         /\ Asking(v) => pc[v] # "idle"
                         /\ WAttempt(v)' = WAttempt(v)
    BY <1>1 DEF WAttempt, Asking
<1>6. \A v \in Units : /\ LastAttempt(v)' = LastAttempt(v)
                       /\ journal[v] # << >> => LastAttempt(v) \in Attempts
    BY <1>1, <1>2, JournalAttempt DEF LastAttempt
<1>7. RequestIsOnRecord'
  <2>1. ASSUME NEW v \in Workers, pc[v] \in {"send", "stage"}, ~Erased(wu[v])'
        PROVE  (/\ SpeaksFor(v) /\ Last(journal[wu[v]]).st \in {"admitted", "ambiguous"}
                /\ owner[wu[v]] \in {v, Nobody})'
    <3>1. /\ wu[v] \in Units /\ ~Erased(wu[v]) /\ wu'[v] = wu[v]
        BY <1>1, <1>3, <1>4, <2>1 DEF Erased
    <3>2. /\ SpeaksFor(v) /\ Last(journal[wu[v]]).st \in {"admitted", "ambiguous"}
          /\ owner[wu[v]] \in {v, Nobody}
        BY <2>1, <3>1 DEF ProtocolInv, RequestIsOnRecord
    <3>3. CASE wu[v] = u
        BY <1>1, <1>2, <3>1, <3>2, <3>3 DEF SpeaksFor
    <3>4. CASE wu[v] # u
        BY <1>1, <3>1, <3>2, <3>4 DEF SpeaksFor
    <3> QED BY <3>3, <3>4
  <2> QED BY <1>1, <2>1 DEF RequestIsOnRecord
<1>8. NumberIsNext'
  <2>1. \A v \in Workers : pc'[v] # "idle" /\ owner'[wu'[v]] = v =>
           pc[v] # "idle" /\ wu[v] \in Units /\ owner[wu[v]] = v
      BY <1>1, <1>4, MediaAssumption
  <2>2. IsLost(journal[u]) => Last(journal[u]).st # "confirmed_not_billed"
      BY DEF IsLost
  <2> QED BY <1>1, <1>2, <2>1, <2>2 DEF ProtocolInv, NumberIsNext
<1>9. IntentIsExclusive'
    BY <1>1, <1>4, <1>5 DEF ProtocolInv, IntentIsExclusive
<1>10. ResponseIsFinal'
  <2>1. \A v \in Units : IsStaged(journal'[v]) => journal'[v] = journal[v] /\ journal[v] # << >>
      BY <1>1, <1>2 DEF IsStaged
  <2> QED BY <1>1, <1>4, <1>5, <1>6, <2>1 DEF ProtocolInv, ResponseIsFinal
<1>11. ChargeIsOnRecord'
  <2>1. \A a \in charged : a[1] \in Units /\ a \in Attempts
      BY <1>0, AttemptFacts DEF LedgerTyped
  <2>2. \A a \in charged : ~Erased(a[1])' => ~Erased(a[1])
      BY <1>3, <2>1
  <2> QED BY <1>1, <1>2, <2>1, <2>2 DEF ProtocolInv, ChargeIsOnRecord, PaidOnce
<1>12. SettledIsMetered'
  <2>1. unit[u] = "succeeded" => ~IsLost(journal[u])
      BY DEF ProtocolInv, SettledIsMetered, SuccessIsMetered, IsLost
  <2> QED BY <1>1, <1>2, <1>6, <2>1 DEF ProtocolInv, SettledIsMetered, SuccessIsMetered
<1> QED BY <1>7, <1>8, <1>9, <1>10, <1>11, <1>12 DEF ProtocolInv

\* A purge takes a unit's journal with it, and the unit is erased for good.
LEMMA ProtocolPurge ==
    ASSUME RowsInv, ProtocolInv, NEW j \in Jobs, Purge(j) PROVE ProtocolInv'
<1> USE DEF jobvars, unitvars, wvars
<1> DEFINE u == member[j]
<1>0. WorkersTyped /\ LedgerTyped /\ JournalTyped /\ UnitsTyped /\ JobsTyped
    BY RowsWhole
<1>1a. PICK planned \in SUBSET (fenced \ {j}) :
            job' = [Put(job, Restarted(j, planned), "pending") EXCEPT ![j] = "erased"]
    BY DEF Purge
<1> DEFINE back == Restarted(j, planned)
<1>1. /\ job' = [Put(job, back, "pending") EXCEPT ![j] = "erased"]
      /\ \/ /\ u # NoUnit /\ CloseUnit(u, "absent", "none")
            /\ journal' = [journal EXCEPT ![u] = << >>]
         \/ UNCHANGED <<unit, owner, journal>>
      /\ UNCHANGED <<ledger, pc, wu, wn, wb, wans, charged>>
    BY <1>1a DEF Purge
<1>2. \A k \in Jobs : k \in back => job[k] \in {"processing", "retry_wait"}
    BY DEF Restarted
<1> HIDE DEF back
<1>3. /\ \A k \in Jobs : job[k] = "erased" => job'[k] = "erased"
      /\ job'[j] = "erased"
    BY <1>0, <1>1, <1>2 DEF JobsTyped, Put
<1>4. \A v \in Units : Erased(v) => Erased(v)'
    BY <1>3, UnitFacts DEF Erased
<1>5. CASE UNCHANGED <<unit, owner, journal>>
    BY <1>1, <1>4, <1>5, ProtocolKept
<1>6. CASE /\ u # NoUnit /\ CloseUnit(u, "absent", "none")
           /\ journal' = [journal EXCEPT ![u] = << >>]
  <2>1. u \in Units /\ j \in u
      BY <1>0, <1>6 DEF JobsTyped
  <2>2. PICK g \in Units : g = u
      BY <2>1
  <2>3. Erased(g)'
      BY <1>3, <2>1, <2>2 DEF Erased
  <2>4. /\ journal'[g] = << >> /\ owner'[g] = Nobody /\ unit'[g] = "absent"
        /\ \A v \in Units : v # g => /\ journal'[v] = journal[v] /\ owner'[v] = owner[v]
                                     /\ unit'[v] = unit[v]
      BY <1>0, <1>6, <2>1, <2>2 DEF CloseUnit, JournalTyped, UnitsTyped
  <2>5. \A v \in Workers : pc[v] # "idle" => wu[v] \in Units
      BY <1>0, BusyFacts
  <2>6. \A v \in Workers : (Asking(v)' <=> Asking(v)) /\ WAttempt(v)' = WAttempt(v)
      BY <1>1 DEF Asking, WAttempt
  <2>7. \A v \in Units : v # g => LastAttempt(v)' = LastAttempt(v)
      BY <2>4 DEF LastAttempt
  <2>8. RequestIsOnRecord'
    <3>1. ASSUME NEW v \in Workers, pc[v] \in {"send", "stage"}, ~Erased(wu[v])'
          PROVE  /\ wu[v] \in Units /\ wu[v] # g /\ ~Erased(wu[v])
        BY <1>1, <1>4, <2>3, <2>5, <3>1 DEF Erased
    <3> QED BY <1>1, <2>4, <3>1 DEF ProtocolInv, RequestIsOnRecord, SpeaksFor
  <2>9. NumberIsNext'
      BY <1>1, <2>4, <2>5, MediaAssumption DEF ProtocolInv, NumberIsNext
  <2>10. IntentIsExclusive'
      BY <1>1, <2>6 DEF ProtocolInv, IntentIsExclusive
  <2>11. ResponseIsFinal'
    <3>1. \A v \in Units : IsStaged(journal'[v]) => v # g /\ IsStaged(journal[v])
        BY <2>4 DEF IsStaged
    <3> QED BY <1>1, <2>4, <2>6, <2>7, <3>1 DEF ProtocolInv, ResponseIsFinal
  <2>12. ChargeIsOnRecord'
    <3>1. \A a \in charged : a[1] \in Units
        BY <1>0, AttemptFacts DEF LedgerTyped
    <3>2. \A a \in charged : ~Erased(a[1])' => ~Erased(a[1]) /\ a[1] # g
        BY <1>4, <2>3, <3>1
    <3> QED BY <1>1, <2>4, <3>1, <3>2 DEF ProtocolInv, ChargeIsOnRecord, PaidOnce
  <2>13. SettledIsMetered'
      BY <1>1, <2>4, <2>7 DEF ProtocolInv, SettledIsMetered, SuccessIsMetered
  <2> QED BY <2>8, <2>9, <2>10, <2>11, <2>12, <2>13 DEF ProtocolInv
<1> QED BY <1>1, <1>5, <1>6

\* Every step keeps the provider protocol.
LEMMA ProtocolStep == RowsInv /\ ProtocolInv /\ [Next]_vars => ProtocolInv'
<1> SUFFICES ASSUME RowsInv, ProtocolInv, [Next]_vars PROVE ProtocolInv'
    OBVIOUS
<1>1. CASE UNCHANGED vars
  <2>1. /\ UNCHANGED <<journal, ledger, pc, wu, wn, wb, wans, owner, unit, charged>>
        /\ UNCHANGED job
      BY <1>1 DEF vars, jobvars, unitvars, wvars
  <2>2. \A u \in Units : Erased(u) => Erased(u)'
      BY <2>1 DEF Erased
  <2> QED BY <2>1, <2>2, ProtocolKept
<1>2. ASSUME NEW w \in Workers, WorkerStep(w) \/ AuthorizeUnacknowledged(w) \/ Crash(w)
      PROVE  ProtocolInv'
  <2>1. CASE ClaimWork(w) \/ ClaimLost(w) \/ ClaimUnplannable(w) \/ ClaimHold(w) \/ ClaimReplan(w)
      BY <2>1, ProtocolClaim, ProtocolWriteOff, ProtocolTime
  <2>2. ASSUME NEW b \in Bodies, PrepareBegins(w, b) PROVE ProtocolInv'
      BY <2>2, ProtocolDraw, ProtocolOwner
  <2>3. CASE Authorize(w) \/ AuthorizeUnacknowledged(w)
      BY <2>3, ProtocolAdmit, ProtocolDeny DEF AuthorizeUnacknowledged
  <2>4. CASE \/ PrepareFails(w) \/ Refuse(w) \/ Stage(w) \/ Parse(w) \/ SettleUsage(w)
             \/ SettleUsageRefused(w) \/ ProjectRefused(w) \/ SettleFailureRefused(w) \/ Crash(w)
      BY <2>4, ProtocolOwner, ProtocolMark
  <2>5. CASE \/ SendLost(w) \/ \E ans \in Answers : SendAnswered(w, ans)
             \/ Project(w) \/ SettleFailure(w)
      BY <2>5, ProtocolSend, ProtocolClose
  <2> QED BY <1>2, <2>1, <2>2, <2>3, <2>4, <2>5 DEF WorkerStep
<1>3. ASSUME NEW j \in Jobs, Purge(j) PROVE ProtocolInv'
    BY <1>3, ProtocolPurge
<1>4. ASSUME NEW a \in Attempts, SweepStarted(a) PROVE ProtocolInv'
    BY <1>4, ProtocolSweep
<1> QED BY <1>1, <1>2, <1>3, <1>4, ProtocolTime DEF Next

\* The provider protocol holds in every reachable state.
THEOREM MediaProtocol == Spec => []ProtocolInv
<1>1. RowsInv /\ RowsInv' /\ ProtocolInv /\ [Next]_vars => ProtocolInv'
    BY ProtocolStep
<1> QED BY <1>1, InitProtocol, MediaRows, PTL DEF Spec

\* However owners are lost, leases lapse, request bodies change and failures are
\* retried, a work unit's media is paid for at most once.
THEOREM MediaPaidOnce == Spec => []PaidOnce
<1>1. ProtocolInv => PaidOnce
    BY DEF ProtocolInv, ChargeIsOnRecord
<1> QED BY <1>1, MediaProtocol, PTL

\* What the ledger calls not billed was never acted on by the provider.
THEOREM MediaNotBilledIsTrue == Spec => []NotBilledIsTrue
<1>1. ProtocolInv => NotBilledIsTrue
    BY DEF ProtocolInv, ChargeIsOnRecord, NotBilledIsTrue
<1> QED BY <1>1, MediaProtocol, PTL

\* A unit succeeds only on a response that was metered.
THEOREM MediaSuccessIsMetered == Spec => []SuccessIsMetered
<1>1. ProtocolInv => SuccessIsMetered
    BY DEF ProtocolInv, SettledIsMetered
<1> QED BY <1>1, MediaProtocol, PTL
=============================================================================
