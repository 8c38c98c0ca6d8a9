------------------------ MODULE CaptureSessionProofs ------------------------
(***************************************************************************)
(* Proofs about one capture session, for every finite set of events on any *)
(* streams, every boundary a schema-26 writer may have left and every      *)
(* number of publications.                                                 *)
(***************************************************************************)
EXTENDS CaptureSession, FiniteSetTheorems, WellFoundedInduction, TLAPS

\* The statuses of an accepted event.
Taken == Live \cup Tombed

\* The log entry is a record of three flags and of what it commits to.
EntryTyped ==
    entry \in [sealed : BOOLEAN, current : BOOLEAN, reopened : BOOLEAN,
               maxima : {entry.maxima}]

\* A stream's row exists exactly when it has an accepted event, and the
\* acknowledgement is the prefix it should be on every stream.
RowIsAccepted ==
    /\ \A e \in Events : status[e] \in Taken => e[1] \in row
    /\ \A s \in row : Accepted(status, s) # {}
Prefix(st, s, a, b) ==
    /\ 0..a \subseteq Accepted(st, s)
    /\ a + 1 \in Accepted(st, s) => b # None /\ a >= b
Prefixes == \A s \in Streams : Prefix(status, s, ack[s], seal[s])

\* A deletion is about ready evidence, until its pages are processed.
DeletionIsPlanned ==
    /\ (mode = "none") = (plan = {})
    /\ \A e \in plan : status[e] \in {"ready", "bare", "doomed", "erased"}

\* The seal's entry commits to the present boundaries, whatever tombstones it
\* has seen.
CommitsTo(m) ==
    m = [s \in row |-> <<ack[s], AcceptedMax(status, s), seal[s], m[s][4]>>]

\* While a session is sealed it is over, nothing is in the media queue, every
\* stream ends at its boundary, and the seal log says so.
SealIsRecorded ==
    sealed =>
        /\ ended /\ MediaSettled /\ SealedExactly(status)
        /\ entry.sealed /\ entry.current /\ ~entry.reopened
        /\ CommitsTo(entry.maxima)
        /\ mode # "paged" => entry.maxima = Maxima(status, row, ack, seal)

\* The inductive invariant.
SessionInv ==
    /\ TypeOK /\ EntryTyped /\ RowIsAccepted /\ Prefixes
    /\ DeletionIsPlanned /\ SealIsRecorded /\ CompletionIsCurrent

-----------------------------------------------------------------------------
\* Sequence numbers.

\* A finite set of numbers has a largest one.
LEMMA LargestFacts ==
    ASSUME NEW S \in SUBSET Int, IsFiniteSet(S), S # {}
    PROVE  Max(S) \in S /\ \A y \in S : y <= Max(S)
<1> DEFINE above(x) == {z \in S : z > x}
           U == {above(x) : x \in S}
<1>0. \A z \in S : z \in Int
    OBVIOUS
<1>1. IsWellFoundedOn(StrictSubsetOrdering(S), FiniteSubsetsOf(S))
    BY FS_StrictSubsetOrderingWellFounded
<1>2. FiniteSubsetsOf(S) = SUBSET S
    BY FS_FiniteSubsetsOfFinite
<1>3. U \subseteq FiniteSubsetsOf(S) /\ U # {}
  <2>1. \A x \in S : above(x) \in SUBSET S
      OBVIOUS
  <2>2. PICK x \in S : TRUE
      OBVIOUS
  <2>3. above(x) \in U
      OBVIOUS
  <2> HIDE DEF above
  <2>4. U \subseteq SUBSET S
      BY <2>1
  <2> QED BY <1>2, <2>3, <2>4
<1>4. PICK u \in U : \A v \in U : ~(<<v, u>> \in StrictSubsetOrdering(S))
  <2> HIDE DEF U
  <2> QED BY <1>1, <1>3, WFMin
<1>5. PICK x \in S : u = above(x)
    OBVIOUS
<1>6. ASSUME NEW y \in S PROVE y <= x
  <2>1. SUFFICES ASSUME y > x PROVE FALSE
      OBVIOUS
  <2>2. above(y) \subseteq above(x) /\ y \in above(x) /\ y \notin above(y)
    <3>1. ASSUME NEW z \in S, z > y PROVE z > x
        BY <1>0, <2>1, <3>1
    <3>2. ~(y > y)
        BY <1>0
    <3> QED BY <2>1, <3>1, <3>2
  <2>3. /\ above(y) \in SUBSET S /\ above(x) \in SUBSET S
        /\ above(y) \subseteq above(x) /\ above(y) # above(x)
      BY <2>2
  <2>4. <<above(y), above(x)>> \in StrictSubsetOrdering(S)
    <3> HIDE DEF above
    <3> QED BY <2>3 DEF StrictSubsetOrdering
  <2>5. above(y) \in U
      OBVIOUS
  <2> QED BY <1>4, <1>5, <2>4, <2>5
<1> QED BY <1>6 DEF Max

\* Numbers: an acknowledgement, or a boundary.
Acks == {-1} \cup Nat
Boundaries == {None} \cup Nat

\* The accepted sequence numbers of a stream.
LEMMA AcceptedFacts ==
    ASSUME NEW st, NEW s
    PROVE  /\ Accepted(st, s) \subseteq Nat /\ IsFiniteSet(Accepted(st, s))
           /\ \A e \in Events : e[1] = s /\ st[e] \in Taken => e[2] \in Accepted(st, s)
           /\ \A n \in Accepted(st, s) :
                \E e \in Events : e[1] = s /\ e[2] = n /\ st[e] \in Taken
<1> DEFINE F == {f \in Events : f[1] = s /\ st[f] \in Taken}
           g == [e \in F |-> e[2]]
<1>1. Accepted(st, s) = {e[2] : e \in F}
    BY DEF Accepted, Taken
<1>2. \A e \in Events : e[2] \in Nat
    BY CaptureAssumption
<1>3. IsFiniteSet(F)
  <2>1. F \in SUBSET Events /\ IsFiniteSet(Events)
      BY CaptureAssumption
  <2> QED BY <2>1, FS_Subset
<1>4. IsFiniteSet(Accepted(st, s))
  <2>1. g \in Surjection(F, Accepted(st, s))
      BY <1>1 DEF Surjection
  <2> QED BY <1>3, <2>1, FS_Surjection
<1> QED BY <1>1, <1>2, <1>4

\* It depends on which events are accepted and on nothing else.
LEMMA SameAccepted ==
    ASSUME NEW st, NEW u, NEW s,
           \A e \in Events : e[1] = s => (st[e] \in Taken <=> u[e] \in Taken)
    PROVE  /\ Accepted(st, s) = Accepted(u, s)
           /\ AcceptedMax(st, s) = AcceptedMax(u, s)
           /\ ContiguousThrough(st, s) = ContiguousThrough(u, s)
<1>1. Accepted(st, s) = Accepted(u, s)
    BY DEF Accepted, Taken
<1> QED BY <1>1 DEF AcceptedMax, ContiguousThrough

\* The largest accepted sequence number.
LEMMA AcceptedMaxFacts ==
    ASSUME NEW st, NEW s
    PROVE  /\ AcceptedMax(st, s) \in Acks
           /\ \A n \in Accepted(st, s) : n <= AcceptedMax(st, s)
           /\ Accepted(st, s) # {} => AcceptedMax(st, s) \in Nat
<1>1. Accepted(st, s) \subseteq Nat /\ IsFiniteSet(Accepted(st, s))
    BY AcceptedFacts
<1>2. CASE Accepted(st, s) = {}
    BY <1>2 DEF AcceptedMax, Acks
<1>3. CASE Accepted(st, s) # {}
  <2>1. /\ Max(Accepted(st, s)) \in Accepted(st, s)
        /\ \A n \in Accepted(st, s) : n <= Max(Accepted(st, s))
      BY <1>1, <1>3, LargestFacts
  <2> QED BY <1>1, <1>3, <2>1 DEF AcceptedMax, Acks
<1> QED BY <1>2, <1>3

\* The acknowledgement moves as far as it can and never back.
LEMMA AdvanceFacts ==
    ASSUME NEW st, NEW s, NEW c \in Acks, NEW b \in Boundaries, 0..c \subseteq Accepted(st, s)
    PROVE  /\ AdvanceAck(st, s, c, b) \in Acks /\ AdvanceAck(st, s, c, b) >= c
           /\ Prefix(st, s, AdvanceAck(st, s, c, b), b)
<1> DEFINE A == Accepted(st, s)
           S == {c} \cup {n \in A : (b = None \/ n <= b) /\ (c + 1)..n \subseteq A}
           r == AdvanceAck(st, s, c, b)
<1>1. A \subseteq Nat /\ IsFiniteSet(A)
    BY AcceptedFacts
<1>2. S \subseteq Acks /\ S \subseteq Int /\ IsFiniteSet(S) /\ S # {}
  <2>1. S \subseteq A \cup {c}
      OBVIOUS
  <2>2. IsFiniteSet(A \cup {c})
      BY <1>1, FS_AddElement
  <2>3. IsFiniteSet(S)
      BY <2>1, <2>2, FS_Subset
  <2> QED BY <1>1, <2>3 DEF Acks
<1>3. r = Max(S)
    BY DEF AdvanceAck
<1>4. r \in S /\ \A y \in S : y <= r
  <2> HIDE DEF S, r
  <2> QED BY <1>2, <1>3, LargestFacts
<1> HIDE DEF r
<1>5. r \in Acks /\ r >= c
    BY <1>2, <1>4
<1> HIDE DEF A
<1>6. (c + 1)..r \subseteq A /\ (r = c \/ r \in A)
    BY <1>4, <1>5 DEF Acks
<1>7. 0..r \subseteq A
  <2>1. ASSUME NEW n \in 0..r PROVE n \in A
    <3>1. CASE n <= c
        BY <2>1, <3>1, <1>5 DEF A, Acks
    <3>2. CASE ~(n <= c)
        BY <2>1, <3>2, <1>5, <1>6 DEF Acks
    <3> QED BY <3>1, <3>2
  <2> QED BY <2>1
<1>8. ASSUME r + 1 \in A PROVE b # None /\ r >= b
  <2>1. (c + 1)..(r + 1) \subseteq A
    <3>1. ASSUME NEW n \in (c + 1)..(r + 1) PROVE n \in A
        BY <1>5, <1>6, <1>8, <3>1 DEF Acks
    <3> QED BY <3>1
  <2>2. ~(r + 1 <= r)
      BY <1>5 DEF Acks
  <2>3. r + 1 \notin S
      BY <1>4, <2>2
  <2>4. ~(b = None \/ r + 1 <= b)
      BY <1>8, <2>1, <2>3
  <2> QED BY <1>5, <2>4 DEF Acks, Boundaries
<1>9. Prefix(st, s, r, b)
    BY <1>7, <1>8 DEF Prefix, A
<1> QED BY <1>5, <1>9 DEF r

-----------------------------------------------------------------------------
\* The parts of the invariant.

StreamsTyped ==
    /\ status \in [Events -> Status] /\ row \subseteq Streams
    /\ ack \in [Streams -> Acks] /\ seal \in [Streams -> Boundaries]
FlagsTyped ==
    /\ ended \in BOOLEAN /\ finish \in BOOLEAN /\ idle \in BOOLEAN /\ quiet \in BOOLEAN
    /\ drained \in BOOLEAN
FormationTyped ==
    /\ state \in {"absent", "pending", "complete"} /\ stale \in {"no", "owners", "evidence"}
    /\ page \in {"none", "waiting", "outdated"} /\ claimed \in BOOLEAN
ReceiptTyped == FormationTyped /\ sealed \in BOOLEAN /\ EntryTyped
PlanTyped ==
    /\ plan \subseteq Events /\ mode \in {"none", "whole", "inventory", "paged"}
    /\ publishes \in 0..MaxPublishes

\* The flags of the log entry.
LEMMA EntryFacts ==
    ASSUME NEW x, x \in [sealed : BOOLEAN, current : BOOLEAN, reopened : BOOLEAN,
                         maxima : {x.maxima}]
    PROVE  x.sealed \in BOOLEAN /\ x.current \in BOOLEAN /\ x.reopened \in BOOLEAN
OBVIOUS

\* The parts of a state that satisfies the invariant.
LEMMA SessionParts ==
    ASSUME SessionInv
    PROVE  /\ StreamsTyped /\ FlagsTyped /\ ReceiptTyped /\ PlanTyped
           /\ RowIsAccepted /\ Prefixes /\ DeletionIsPlanned
           /\ SealIsRecorded /\ CompletionIsCurrent
<1>1. TypeOK /\ EntryTyped
    BY DEF SessionInv
<1>2. StreamsTyped
    BY <1>1 DEF TypeOK, StreamsTyped, Acks, Boundaries
<1>3. FlagsTyped
    BY <1>1, Zenon DEF TypeOK, FlagsTyped
<1>4. claimed \in BOOLEAN /\ sealed \in BOOLEAN
    BY <1>1, Zenon DEF TypeOK
<1>5. ReceiptTyped
    BY <1>1, <1>4 DEF TypeOK, ReceiptTyped, FormationTyped
<1>6. PlanTyped
    BY <1>1 DEF TypeOK, PlanTyped
<1> QED BY <1>2, <1>3, <1>5, <1>6 DEF SessionInv

\* The typing invariant from its parts.
LEMMA TypeWhole ==
    ASSUME StreamsTyped, FlagsTyped, ReceiptTyped, PlanTyped PROVE TypeOK
<1>1. {ended, finish, idle, quiet, drained, claimed, sealed} \subseteq BOOLEAN
    BY Zenon DEF FlagsTyped, ReceiptTyped, FormationTyped
<1>2. entry.sealed \in BOOLEAN /\ entry.current \in BOOLEAN /\ entry.reopened \in BOOLEAN
    BY EntryFacts DEF ReceiptTyped, EntryTyped
<1>3. {entry.sealed, entry.current, entry.reopened} \subseteq BOOLEAN
    BY <1>2, Zenon
<1> QED BY <1>1, <1>3 DEF TypeOK, StreamsTyped, ReceiptTyped, FormationTyped, PlanTyped,
                   Acks, Boundaries

\* The same after a step.
LEMMA SessionJoin ==
    ASSUME StreamsTyped', FlagsTyped', ReceiptTyped', PlanTyped',
           RowIsAccepted', Prefixes', DeletionIsPlanned',
           SealIsRecorded', CompletionIsCurrent'
    PROVE  SessionInv'
<1>1. {ended', finish', idle', quiet', drained', claimed', sealed'} \subseteq BOOLEAN
    BY Zenon DEF FlagsTyped, ReceiptTyped, FormationTyped
<1>2. entry'.sealed \in BOOLEAN /\ entry'.current \in BOOLEAN /\ entry'.reopened \in BOOLEAN
    BY EntryFacts DEF ReceiptTyped, EntryTyped
<1>3. {entry'.sealed, entry'.current, entry'.reopened} \subseteq BOOLEAN
    BY <1>2, Zenon
<1>4. TypeOK'
    BY <1>1, <1>3 DEF TypeOK, StreamsTyped, ReceiptTyped, FormationTyped, PlanTyped,
                   Acks, Boundaries
<1> QED BY <1>4 DEF SessionInv, ReceiptTyped

\* Steps that accept nothing and move no boundary.
LEMMA StreamsKept ==
    ASSUME SessionInv, UNCHANGED <<row, ack, seal>>,
           \A e \in Events : status'[e] \in Taken <=> status[e] \in Taken
    PROVE  /\ RowIsAccepted' /\ Prefixes'
           /\ \A s : /\ Accepted(status', s) = Accepted(status, s)
                     /\ AcceptedMax(status', s) = AcceptedMax(status, s)
                     /\ ContiguousThrough(status', s) = ContiguousThrough(status, s)
           /\ SealedExactly(status') <=> SealedExactly(status)
<1>1. ASSUME NEW s
      PROVE  /\ Accepted(status', s) = Accepted(status, s)
             /\ AcceptedMax(status', s) = AcceptedMax(status, s)
             /\ ContiguousThrough(status', s) = ContiguousThrough(status, s)
    BY SameAccepted
<1>2. RowIsAccepted'
    BY <1>1, SessionParts DEF RowIsAccepted
<1>3. Prefixes'
    BY <1>1, SessionParts DEF Prefixes, Prefix
<1>4. SealedExactly(status') <=> SealedExactly(status)
    BY <1>1 DEF SealedExactly, Exact
<1> QED BY <1>1, <1>2, <1>3, <1>4

\* A seal stays recorded while its entry stays, unless tombstones are added
\* outside a paged deletion.
LEMMA SealKept ==
    ASSUME SessionInv, UNCHANGED <<row, ack, seal, sealed, entry>>, ended => ended',
           \A e \in Events : /\ status'[e] \in Taken <=> status[e] \in Taken
                             /\ status'[e] = "queued" => status[e] = "queued",
           \/ mode' = "paged"
           \/ /\ mode # "paged"
              /\ \A e \in Events : status'[e] \in Tombed <=> status[e] \in Tombed
    PROVE  SealIsRecorded'
<1> USE SessionParts
<1>1. SUFFICES ASSUME sealed' PROVE SealIsRecorded'
    BY DEF SealIsRecorded
<1>2. /\ ended /\ MediaSettled /\ SealedExactly(status)
      /\ entry.sealed /\ entry.current /\ ~entry.reopened
      /\ CommitsTo(entry.maxima)
      /\ mode # "paged" => entry.maxima = Maxima(status, row, ack, seal)
    BY <1>1 DEF SealIsRecorded
<1>3. /\ \A s : AcceptedMax(status', s) = AcceptedMax(status, s)
      /\ SealedExactly(status') <=> SealedExactly(status)
    BY StreamsKept
<1>4. MediaSettled' /\ SealedExactly(status)'
  <2>1. MediaSettled'
      BY <1>2 DEF MediaSettled
  <2>2. SealedExactly(status)'
      BY <1>2, <1>3 DEF SealedExactly, Exact
  <2> QED BY <2>1, <2>2
<1>5. CommitsTo(entry.maxima)'
    BY <1>2, <1>3 DEF CommitsTo
<1>6. mode' # "paged" => entry'.maxima = Maxima(status', row', ack', seal')
    BY <1>2, <1>3 DEF Maxima
<1> QED BY <1>1, <1>2, <1>4, <1>5, <1>6 DEF SealIsRecorded

\* What the statuses are.
LEMMA StatusFacts ==
    /\ "absent" \notin Taken /\ "reserved" \notin Taken /\ "queued" \in Taken
    /\ "ready" \in Taken /\ "bare" \in Taken /\ "doomed" \in Taken /\ "erased" \in Taken
    /\ "absent" \notin Tombed /\ "reserved" \notin Tombed /\ "queued" \notin Tombed
    /\ "ready" \notin Tombed /\ "bare" \notin Tombed /\ "doomed" \in Tombed /\ "erased" \in Tombed
    /\ "absent" \in Status /\ "reserved" \in Status /\ "queued" \in Status
    /\ "ready" \in Status /\ "bare" \in Status /\ "doomed" \in Status /\ "erased" \in Status
BY DEF Taken, Live, Tombed, Status

\* One event changes its status.
LEMMA StatusStep ==
    ASSUME SessionInv, NEW e \in Events, NEW x \in Status,
           status' = [status EXCEPT ![e] = x]
    PROVE  /\ status' \in [Events -> Status] /\ status'[e] = x
           /\ \A f \in Events : f # e => status'[f] = status[f]
<1>1. status \in [Events -> Status]
    BY SessionParts DEF StreamsTyped
<1> QED BY <1>1

-----------------------------------------------------------------------------
\* Steps that leave the streams alone.

\* Finishing, recovery, activation and time.
LEMMA SessionOnlyStep ==
    ASSUME SessionInv,
           FinishSession \/ RecoverInactiveSession \/ Drain \/ GoesIdle \/ GoesQuiet
    PROVE  SessionInv'
<1> USE SessionParts
<1>1. /\ UNCHANGED <<status, row, ack, seal, sealed, entry, plan, mode, publishes>>
      /\ UNCHANGED <<state, stale, page, claimed>>
    BY DEF FinishSession, RecoverInactiveSession, Drain, GoesIdle, GoesQuiet,
           stream, receipt, formation, deletion
<1>2. FlagsTyped' /\ (ended => ended')
  <2>1. CASE FinishSession \/ RecoverInactiveSession
    <3>1. ended' = TRUE /\ finish' = TRUE /\ idle' = idle /\ drained' = drained
        BY <2>1 DEF FinishSession, RecoverInactiveSession, RecordFinish
    <3>2. quiet' \in BOOLEAN
        BY <2>1 DEF FinishSession, RecoverInactiveSession
    <3> QED BY <3>1, <3>2 DEF FlagsTyped
  <2>2. CASE Drain
    <3>1. UNCHANGED <<ended, finish, idle, quiet>> /\ drained' = TRUE
        BY <2>2 DEF Drain
    <3> QED BY <3>1, Zenon DEF FlagsTyped
  <2>3. CASE GoesIdle
    <3>1. UNCHANGED <<ended, finish, quiet, drained>> /\ idle' = TRUE
        BY <2>3 DEF GoesIdle
    <3> QED BY <3>1, Zenon DEF FlagsTyped
  <2>4. CASE GoesQuiet
    <3>1. UNCHANGED <<ended, finish, idle, drained>> /\ quiet' = TRUE
        BY <2>4 DEF GoesQuiet
    <3> QED BY <3>1, Zenon DEF FlagsTyped
  <2> QED BY <2>1, <2>2, <2>3, <2>4
<1>3. RowIsAccepted' /\ Prefixes'
    BY <1>1, StreamsKept
<1>4. SealIsRecorded'
    BY <1>1, <1>2, SealKept
<1>5. StreamsTyped' /\ ReceiptTyped' /\ PlanTyped' /\ DeletionIsPlanned' /\ CompletionIsCurrent'
    BY <1>1 DEF StreamsTyped, ReceiptTyped, FormationTyped, EntryTyped, PlanTyped,
                DeletionIsPlanned, CompletionIsCurrent
<1> QED BY <1>2, <1>3, <1>4, <1>5, SessionJoin

\* Uploads are reserved and lapse.
LEMMA ReservationStep ==
    ASSUME SessionInv, NEW e \in Events, ReserveUpload(e) \/ ReservationLapses(e)
    PROVE  SessionInv'
<1> USE SessionParts
<1>1. /\ UNCHANGED <<row, ack, seal, sealed, entry, plan, mode, publishes>>
      /\ UNCHANGED <<state, stale, page, claimed>>
      /\ UNCHANGED <<ended, finish, idle, quiet, drained>>
      /\ status[e] \in {"absent", "reserved"}
    BY DEF ReserveUpload, ReservationLapses, session, receipt, formation, deletion
<1>2. PICK x \in {"absent", "reserved"} : status' = [status EXCEPT ![e] = x]
    BY DEF ReserveUpload, ReservationLapses
<1>3. /\ status' \in [Events -> Status] /\ status'[e] = x
      /\ \A f \in Events : f # e => status'[f] = status[f]
  <2>1. x \in Status
      BY StatusFacts
  <2> QED BY <1>2, <2>1, StatusStep
<1>4. \A f \in Events : /\ status'[f] \in Taken <=> status[f] \in Taken
                        /\ status'[f] = "queued" => status[f] = "queued"
                        /\ status'[f] \in Tombed <=> status[f] \in Tombed
    BY <1>1, <1>3, StatusFacts
<1>5. RowIsAccepted' /\ Prefixes'
    BY <1>1, <1>4, StreamsKept
<1>6. SealIsRecorded'
    BY <1>1, <1>4, SealKept
<1>7. StreamsTyped' /\ FlagsTyped' /\ ReceiptTyped' /\ PlanTyped' /\ CompletionIsCurrent'
    BY <1>1, <1>3 DEF StreamsTyped, FlagsTyped, ReceiptTyped, FormationTyped, EntryTyped,
                PlanTyped, CompletionIsCurrent
<1>8. DeletionIsPlanned'
    BY <1>1, <1>3 DEF DeletionIsPlanned, PlanTyped
<1> QED BY <1>5, <1>6, <1>7, <1>8, SessionJoin

\* The log entry of an older source revision.
LEMMA OutdatedFacts ==
    ASSUME ReceiptTyped
    PROVE  /\ Outdated \in [sealed : BOOLEAN, current : BOOLEAN, reopened : BOOLEAN,
                            maxima : {Outdated.maxima}]
           /\ [Outdated EXCEPT !.reopened = TRUE] \in
                [sealed : BOOLEAN, current : BOOLEAN, reopened : BOOLEAN,
                 maxima : {[Outdated EXCEPT !.reopened = TRUE].maxima}]
BY DEF ReceiptTyped, EntryTyped, Outdated

\* The log entry of a new seal.
LEMMA SealEntryFacts ==
    ASSUME NEW m
    PROVE  /\ SealEntry(m) \in [sealed : BOOLEAN, current : BOOLEAN, reopened : BOOLEAN,
                                maxima : {SealEntry(m).maxima}]
           /\ SealEntry(m).sealed = TRUE /\ SealEntry(m).current = TRUE
           /\ SealEntry(m).reopened = FALSE /\ SealEntry(m).maxima = m
BY DEF SealEntry

\* A media job ends.
LEMMA MediaStep ==
    ASSUME SessionInv, NEW e \in Events, MediaSettles(e)
    PROVE  SessionInv'
<1> USE SessionParts
<1>1. /\ UNCHANGED <<row, ack, seal, sealed, plan, mode, publishes, ended, finish, idle, drained>>
      /\ status[e] = "queued" /\ status' = [status EXCEPT ![e] = "ready"] /\ quiet' = FALSE
    BY DEF MediaSettles, deletion
<1>2. sealed = FALSE
    BY <1>1 DEF SealIsRecorded, MediaSettled, ReceiptTyped
<1>3. /\ status' \in [Events -> Status] /\ status'[e] = "ready"
      /\ \A f \in Events : f # e => status'[f] = status[f]
    BY <1>1, StatusFacts, StatusStep
<1>4. RowIsAccepted' /\ Prefixes'
  <2>1. \A f \in Events : status'[f] \in Taken <=> status[f] \in Taken
      BY <1>1, <1>3, StatusFacts
  <2> QED BY <1>1, <2>1, StreamsKept
<1>5. SealIsRecorded'
    BY <1>1, <1>2 DEF SealIsRecorded
<1>6. StreamsTyped' /\ PlanTyped'
    BY <1>1, <1>3 DEF StreamsTyped, PlanTyped
<1>7. FlagsTyped'
    BY <1>1, Zenon DEF FlagsTyped
<1>8. DeletionIsPlanned'
    BY <1>1, <1>3 DEF DeletionIsPlanned, PlanTyped
<1>9. ReceiptTyped' /\ CompletionIsCurrent'
  <2>1. CASE NextRevision /\ entry' = Outdated
    <3>1. EntryTyped'
        BY <2>1, OutdatedFacts DEF EntryTyped
    <3> QED BY <1>1, <2>1, <3>1 DEF ReceiptTyped, FormationTyped, NextRevision,
                                    CompletionIsCurrent
  <2>2. CASE UNCHANGED <<formation, entry>>
      BY <1>1, <2>2 DEF formation, ReceiptTyped, FormationTyped, EntryTyped,
                        CompletionIsCurrent
  <2> QED BY <2>1, <2>2 DEF MediaSettles
<1> QED BY <1>4, <1>5, <1>6, <1>7, <1>8, <1>9, SessionJoin

\* A page is settled, a claim given back, and the forward lane settles a window.
LEMMA FormationStep ==
    ASSUME SessionInv,
           (\E more \in BOOLEAN : SettleFormation(more)) \/ ReleaseFormation
             \/ SettleSummaryWindow
    PROVE  SessionInv'
<1> USE SessionParts
<1>1. /\ UNCHANGED <<status, row, ack, seal, sealed, entry, plan, mode, publishes>>
      /\ UNCHANGED <<ended, finish, idle, quiet, drained>>
    BY DEF SettleFormation, ReleaseFormation, SettleSummaryWindow, stream, session, deletion
<1>2. RowIsAccepted' /\ Prefixes'
    BY <1>1, StreamsKept
<1>3. SealIsRecorded'
    BY <1>1, SealKept
<1>4. StreamsTyped' /\ FlagsTyped' /\ PlanTyped' /\ DeletionIsPlanned' /\ EntryTyped'
    BY <1>1 DEF StreamsTyped, FlagsTyped, ReceiptTyped, EntryTyped, PlanTyped, DeletionIsPlanned
<1>5. FormationTyped' /\ CompletionIsCurrent'
  <2>1. CASE \E more \in BOOLEAN : SettleFormation(more)
      BY <2>1 DEF SettleFormation, ReceiptTyped, FormationTyped, CompletionIsCurrent
  <2>2. CASE ReleaseFormation
      BY <1>1, <2>2 DEF ReleaseFormation, ReceiptTyped, FormationTyped, CompletionIsCurrent
  <2>3. CASE SettleSummaryWindow
      BY <1>1, <2>3 DEF SettleSummaryWindow, SourceChanges, ReceiptTyped, FormationTyped,
                        CompletionIsCurrent
  <2> QED BY <2>1, <2>2, <2>3
<1>6. ReceiptTyped'
    BY <1>1, <1>4, <1>5 DEF ReceiptTyped
<1> QED BY <1>2, <1>3, <1>4, <1>5, <1>6, SessionJoin

-----------------------------------------------------------------------------
\* Refreshing the receipt, and memory deletion.

\* A refresh after a step that accepts nothing leaves every boundary where it
\* is, commits the entry to the present tombstones, and leaves no completed
\* receipt behind its source.
LEMMA RefreshMove ==
    ASSUME SessionInv, NEW change, Refresh(status', change),
           UNCHANGED <<row, ack>>, ended' = ended,
           \A e \in Events : /\ status'[e] \in Taken <=> status[e] \in Taken
                             /\ status'[e] = "queued" => status[e] = "queued"
    PROVE  /\ seal' = seal /\ sealed' = sealed
           /\ RowIsAccepted' /\ Prefixes' /\ SealIsRecorded' /\ ReceiptTyped'
           /\ state' = "complete" => stale' = "no"
<1> USE SessionParts
<1> DEFINE now == Maxima(status', row, ack, seal)
<1>1. sealed => /\ ended /\ MediaSettled /\ SealedExactly(status)
                /\ entry.sealed /\ entry.current /\ ~entry.reopened
    BY DEF SealIsRecorded
<1>2. sealed => SealedExactly(status')
  <2>1. ASSUME NEW s
        PROVE  /\ AcceptedMax(status', s) = AcceptedMax(status, s)
               /\ ContiguousThrough(status', s) = ContiguousThrough(status, s)
      BY SameAccepted
  <2> QED BY <1>1, <2>1 DEF SealedExactly, Exact
<1>3. \/ /\ NextRevision /\ UNCHANGED <<seal, sealed>>
         /\ \/ ~sealed /\ entry' = Outdated
            \/ sealed /\ entry' = SealEntry(now)
      \/ /\ UNCHANGED <<state, claimed, seal, sealed, entry>> /\ stale' = "no"
         /\ page' \in {page, "outdated"} /\ (sealed => entry.maxima = now)
    BY <1>2 DEF Refresh
<1>4. seal' = seal /\ sealed' = sealed
    BY <1>3
<1>5. RowIsAccepted' /\ Prefixes'
    BY <1>4, StreamsKept
<1>6. sealed => entry'.sealed /\ entry'.current /\ ~entry'.reopened /\ entry'.maxima = now
  <2>1. CASE sealed /\ entry' = SealEntry(now)
    <3> HIDE DEF now
    <3> QED BY <2>1, SealEntryFacts
  <2>2. CASE entry' = entry /\ (sealed => entry.maxima = now)
      BY <1>1, <2>2
  <2> QED BY <1>3, <2>1, <2>2
<1>7. SealIsRecorded'
  <2>1. SUFFICES ASSUME sealed PROVE SealIsRecorded'
      BY <1>4 DEF SealIsRecorded
  <2>2. ended' /\ MediaSettled' /\ SealedExactly(status)'
    <3>1. MediaSettled'
        BY <1>1, <2>1 DEF MediaSettled
    <3>2. SealedExactly(status)'
        BY <1>2, <1>4, <2>1 DEF SealedExactly, Exact
    <3> QED BY <1>1, <2>1, <3>1, <3>2
  <2>3. entry'.maxima = Maxima(status', row', ack', seal')
      BY <1>4, <1>6, <2>1 DEF Maxima
  <2>4. CommitsTo(entry.maxima)'
      BY <2>3 DEF CommitsTo, Maxima
  <2> QED BY <1>6, <2>1, <2>2, <2>3, <2>4 DEF SealIsRecorded
<1>8. ReceiptTyped' /\ (state' = "complete" => stale' = "no")
  <2>1. CASE NextRevision /\ ~sealed /\ entry' = Outdated
    <3>1. EntryTyped'
        BY <2>1, OutdatedFacts DEF EntryTyped
    <3> QED BY <1>4, <2>1, <3>1 DEF ReceiptTyped, FormationTyped, NextRevision
  <2>2. CASE NextRevision /\ sealed /\ entry' = SealEntry(now)
    <3>1. EntryTyped'
      <4> HIDE DEF now
      <4> QED BY <2>2, SealEntryFacts DEF EntryTyped
    <3> QED BY <1>4, <2>2, <3>1 DEF ReceiptTyped, FormationTyped, NextRevision
  <2>3. CASE /\ UNCHANGED <<state, claimed, seal, sealed, entry>> /\ stale' = "no"
             /\ page' \in {page, "outdated"}
      BY <2>3 DEF ReceiptTyped, FormationTyped, EntryTyped
  <2> QED BY <1>3, <2>1, <2>2, <2>3
<1> QED BY <1>4, <1>5, <1>7, <1>8

\* The refreshes that change no event: a publication, the backfill that
\* follows the activation, and the end of a paged deletion.
LEMMA RefreshStep ==
    ASSUME SessionInv, TopologyPublished \/ BackfillRefresh \/ RefreshPaged
    PROVE  SessionInv'
<1> USE SessionParts
<1>1. /\ UNCHANGED <<status, row, ack, ended, finish, idle, quiet, drained>>
      /\ publishes' \in 0..MaxPublishes
  <2>1. publishes \in 0..MaxPublishes /\ MaxPublishes \in Nat
      BY CaptureAssumption DEF PlanTyped
  <2>2. UNCHANGED <<status, row, ack, ended, finish, idle, quiet, drained>>
      BY DEF TopologyPublished, BackfillRefresh, RefreshPaged, session
  <2>3. publishes' = publishes \/ (publishes < MaxPublishes /\ publishes' = publishes + 1)
      BY DEF TopologyPublished, BackfillRefresh, RefreshPaged
  <2>4. publishes' \in 0..MaxPublishes
      BY <2>1, <2>3
  <2> QED BY <2>2, <2>4
<1>2. PICK change \in {"owners", stale} : Refresh(status, change)
    BY DEF TopologyPublished, BackfillRefresh, RefreshPaged
<1>3. Refresh(status', change)
    BY <1>1, <1>2
<1>4. /\ seal' = seal /\ sealed' = sealed
      /\ RowIsAccepted' /\ Prefixes' /\ SealIsRecorded' /\ ReceiptTyped'
      /\ state' = "complete" => stale' = "no"
    BY <1>1, <1>3, RefreshMove
<1>5. StreamsTyped' /\ FlagsTyped'
    BY <1>1, <1>4 DEF StreamsTyped, FlagsTyped
<1>6. PlanTyped' /\ DeletionIsPlanned'
  <2>1. CASE UNCHANGED <<plan, mode>>
      BY <1>1, <2>1 DEF PlanTyped, DeletionIsPlanned
  <2>2. CASE plan' = {} /\ mode' = "none"
      BY <1>1, <2>2 DEF PlanTyped, DeletionIsPlanned
  <2> QED BY <2>1, <2>2 DEF TopologyPublished, BackfillRefresh, RefreshPaged, deletion
<1>7. CompletionIsCurrent'
    BY <1>4 DEF CompletionIsCurrent
<1> QED BY <1>4, <1>5, <1>6, <1>7, SessionJoin

\* A small deletion, in one transaction.
LEMMA CompleteDeletionStep ==
    ASSUME SessionInv, CompleteDeletion
    PROVE  SessionInv'
<1> USE SessionParts
<1> DEFINE st == [e \in Events |-> IF e \in plan THEN "erased" ELSE status[e]]
<1>1. /\ UNCHANGED <<row, ack, ended, finish, idle, quiet, drained, publishes>>
      /\ status' = st /\ plan' = {} /\ mode' = "none"
      /\ Refresh(st, "evidence")
    BY DEF CompleteDeletion, session
<1>2. /\ status' \in [Events -> Status]
      /\ \A e \in Events : status'[e] = IF e \in plan THEN "erased" ELSE status[e]
    BY <1>1, StatusFacts DEF StreamsTyped
<1>3. \A e \in Events : /\ status'[e] \in Taken <=> status[e] \in Taken
                        /\ status'[e] = "queued" => status[e] = "queued"
    BY <1>2, StatusFacts DEF DeletionIsPlanned
<1>5. Refresh(status', "evidence")
  <2> HIDE DEF st
  <2> QED BY <1>1
<1>6. /\ seal' = seal /\ sealed' = sealed
      /\ RowIsAccepted' /\ Prefixes' /\ SealIsRecorded' /\ ReceiptTyped'
      /\ state' = "complete" => stale' = "no"
  <2> HIDE DEF st
  <2> QED BY <1>1, <1>3, <1>5, RefreshMove
<1>7. StreamsTyped' /\ FlagsTyped' /\ PlanTyped'
    BY <1>1, <1>2, <1>6 DEF StreamsTyped, FlagsTyped, PlanTyped
<1>8. DeletionIsPlanned' /\ CompletionIsCurrent'
    BY <1>1, <1>6 DEF DeletionIsPlanned, CompletionIsCurrent
<1> QED BY <1>6, <1>7, <1>8, SessionJoin

\* A deletion is planned, and its family inventoried.
LEMMA BeginDeletionStep ==
    ASSUME SessionInv,
           (\E family \in SUBSET Events : BeginDeletion(family)) \/ InventoryFamily
    PROVE  SessionInv'
<1> USE SessionParts
<1>1. /\ UNCHANGED <<status, row, ack, seal, sealed, entry, publishes>>
      /\ UNCHANGED <<state, stale, page, claimed>>
      /\ UNCHANGED <<ended, finish, idle, quiet, drained>>
    BY DEF BeginDeletion, InventoryFamily, stream, session, receipt, formation
<1>2. \/ /\ mode = "none" /\ mode' \in {"whole", "inventory"} /\ plan' # {}
         /\ plan' \subseteq Events /\ \A e \in plan' : status[e] = "ready"
      \/ mode = "inventory" /\ mode' = "paged" /\ plan' = plan
    BY DEF BeginDeletion, InventoryFamily
<1>3. RowIsAccepted' /\ Prefixes'
    BY <1>1, StreamsKept
<1>4. SealIsRecorded'
    BY <1>1, <1>2, SealKept
<1>5. StreamsTyped' /\ FlagsTyped' /\ ReceiptTyped' /\ PlanTyped'
    BY <1>1, <1>2 DEF StreamsTyped, FlagsTyped, ReceiptTyped, FormationTyped, EntryTyped,
                      PlanTyped
<1>6. DeletionIsPlanned'
    BY <1>1, <1>2 DEF DeletionIsPlanned
<1>7. CompletionIsCurrent'
    BY <1>1, <1>2 DEF CompletionIsCurrent
<1> QED BY <1>3, <1>4, <1>5, <1>6, <1>7, SessionJoin

\* The pages of a large deletion.
LEMMA PageStep ==
    ASSUME SessionInv, NEW e \in Events, PurgeMembers(e) \/ TombstonePage(e) \/ PurgePage(e)
    PROVE  SessionInv'
<1> USE SessionParts
<1>1. /\ UNCHANGED <<row, ack, seal, state, claimed, sealed, entry, plan, mode, publishes>>
      /\ UNCHANGED <<ended, finish, idle, quiet, drained>>
      /\ mode = "paged" /\ e \in plan /\ status[e] \in {"ready", "bare", "doomed"}
      /\ SourceChanges("evidence")
    BY DEF PurgeMembers, TombstonePage, PurgePage, ProcessPage, session, deletion
<1>2. PICK x \in {"bare", "doomed", "erased"} : status' = [status EXCEPT ![e] = x]
    BY DEF PurgeMembers, TombstonePage, PurgePage, ProcessPage
<1>3. /\ status' \in [Events -> Status] /\ status'[e] = x
      /\ \A f \in Events : f # e => status'[f] = status[f]
  <2>1. x \in Status
      BY StatusFacts
  <2> QED BY <1>2, <2>1, StatusStep
<1>4. \A f \in Events : /\ status'[f] \in Taken <=> status[f] \in Taken
                        /\ status'[f] = "queued" => status[f] = "queued"
    BY <1>1, <1>3, StatusFacts
<1>5. RowIsAccepted' /\ Prefixes'
    BY <1>1, <1>4, StreamsKept
<1>6. SealIsRecorded'
    BY <1>1, <1>4, SealKept
<1>7. StreamsTyped' /\ FlagsTyped' /\ PlanTyped' /\ CompletionIsCurrent'
    BY <1>1, <1>3 DEF StreamsTyped, FlagsTyped, PlanTyped, CompletionIsCurrent
<1>8. ReceiptTyped'
    BY <1>1 DEF ReceiptTyped, FormationTyped, EntryTyped, SourceChanges
<1>9. DeletionIsPlanned'
    BY <1>1, <1>3 DEF DeletionIsPlanned, PlanTyped
<1> QED BY <1>5, <1>6, <1>7, <1>8, <1>9, SessionJoin

\* The sealer closes a session at exactly what each stream has accepted.
LEMMA ClaimStep ==
    ASSUME SessionInv, NEW due \in BOOLEAN, ClaimPass(due)
    PROVE  SessionInv'
<1> USE SessionParts
<1>1. /\ UNCHANGED <<status, row, ack, ended, idle, quiet, drained, state, stale>>
      /\ UNCHANGED <<plan, mode, publishes>> /\ finish' = ImportedFinish
    BY DEF ClaimPass, deletion
<1>0. FinalizeQuietSeals
    BY DEF ClaimPass
<1>5. FormationTyped'
  <2>1. page' \in {page, "waiting"} /\ claimed' \in BOOLEAN
      BY DEF ClaimPass
  <2> QED BY <1>1, <2>1 DEF ReceiptTyped, FormationTyped
<1>2. FlagsTyped' /\ PlanTyped' /\ DeletionIsPlanned' /\ CompletionIsCurrent'
  <2>1. finish' \in BOOLEAN
      BY <1>1 DEF ImportedFinish, FlagsTyped
  <2> QED BY <1>1, <2>1 DEF FlagsTyped, PlanTyped, DeletionIsPlanned, CompletionIsCurrent
<1>3. CASE UNCHANGED <<seal, sealed, entry>>
  <2>1. RowIsAccepted' /\ Prefixes'
      BY <1>1, <1>3, StreamsKept
  <2>2. SealIsRecorded'
      BY <1>1, <1>3, SealKept
  <2>3. StreamsTyped' /\ ReceiptTyped'
      BY <1>1, <1>3, <1>5 DEF StreamsTyped, ReceiptTyped, EntryTyped
  <2> QED BY <1>2, <2>1, <2>2, <2>3, SessionJoin
<1>4. CASE Sealable
  <2> DEFINE boundary == [s \in Streams |-> IF s \in row THEN ack[s] ELSE None]
             m == Maxima(status, row, ack, boundary)
  <2>1. seal' = boundary /\ sealed' = TRUE /\ entry' = SealEntry(m)
      BY <1>0, <1>4 DEF FinalizeQuietSeals
  <2>2. /\ ended /\ row # {} /\ MediaSettled
        /\ \A s \in row : Exact(status, s)
      BY <1>4 DEF Sealable
  <2>3. row \subseteq Streams /\ ack \in [Streams -> Acks]
      BY DEF StreamsTyped
  <2>4. \A s \in row : ack[s] = AcceptedMax(status, s) /\ ack[s] \in Nat
      BY <2>2, AcceptedMaxFacts DEF Exact, RowIsAccepted
  <2>5. seal' \in [Streams -> Boundaries]
      BY <2>1, <2>4 DEF Boundaries
  <2>6. \A s \in Streams : seal'[s] = IF s \in row THEN ack[s] ELSE None
      BY <2>1
  <2>7. StreamsTyped'
      BY <1>1, <2>5 DEF StreamsTyped
  <2>8. RowIsAccepted'
      BY <1>1 DEF RowIsAccepted
  <2>9. Prefixes'
    <3>1. ASSUME NEW s \in Streams PROVE Prefix(status', s, ack'[s], seal'[s])
      <4>1. Prefix(status, s, ack[s], seal[s])
          BY DEF Prefixes
      <4>2. CASE s \in row
        <5>1. ack[s] + 1 \notin Accepted(status, s)
            BY <2>4, <4>2, AcceptedMaxFacts, AcceptedFacts
        <5> QED BY <1>1, <4>1, <5>1 DEF Prefix
      <4>3. CASE s \notin row
        <5>1. Accepted(status, s) = {}
            BY <4>3, AcceptedFacts DEF RowIsAccepted
        <5> QED BY <1>1, <4>1, <5>1 DEF Prefix
      <4> QED BY <4>2, <4>3
    <3> QED BY <3>1 DEF Prefixes
  <2> HIDE DEF m
  <2>10. /\ EntryTyped' /\ entry'.sealed /\ entry'.current /\ ~entry'.reopened
         /\ entry'.maxima = m
      BY <2>1, SealEntryFacts DEF EntryTyped
  <2>11. m = Maxima(status', row', ack', seal')
      BY <1>1, <2>1 DEF m, Maxima
  <2>12. SealIsRecorded'
    <3>1. SealedExactly(status)'
        BY <1>1, <2>2, <2>3, <2>6 DEF SealedExactly, Exact
    <3>2. CommitsTo(entry.maxima)'
        BY <2>10, <2>11 DEF CommitsTo, Maxima
    <3>3. MediaSettled' /\ ended'
        BY <1>1, <2>2 DEF MediaSettled
    <3> QED BY <2>10, <2>11, <3>1, <3>2, <3>3 DEF SealIsRecorded
  <2>13. ReceiptTyped'
      BY <1>5, <2>1, <2>10 DEF ReceiptTyped
  <2> QED BY <1>2, <2>7, <2>8, <2>9, <2>12, <2>13, SessionJoin
<1> QED BY <1>0, <1>3, <1>4 DEF FinalizeQuietSeals

-----------------------------------------------------------------------------
\* Admission.

\* What a sealed session looks like: every stream ends at its boundary, and
\* has no event after it.
LEMMA SealedFacts ==
    ASSUME SessionInv, SealedExactly(status)
    PROVE  /\ \A s \in row : seal[s] = ack[s] /\ ack[s] \in Nat
           /\ \A s \in Streams : ack[s] + 1 \notin Accepted(status, s)
<1> USE SessionParts
<1>1. row \subseteq Streams /\ ack \in [Streams -> Acks]
    BY DEF StreamsTyped
<1>2. ASSUME NEW s \in row
      PROVE  /\ seal[s] = ack[s] /\ ack[s] \in Nat
             /\ ack[s] + 1 \notin Accepted(status, s)
  <2>1. seal[s] = ack[s] /\ ack[s] = AcceptedMax(status, s)
      BY DEF SealedExactly, Exact
  <2>2. ack[s] \in Nat
      BY <2>1, AcceptedMaxFacts DEF RowIsAccepted
  <2> QED BY <2>1, <2>2, AcceptedMaxFacts
<1>3. ASSUME NEW s \in Streams, s \notin row PROVE ack[s] + 1 \notin Accepted(status, s)
    BY <1>3, AcceptedFacts DEF RowIsAccepted
<1> QED BY <1>2, <1>3

\* An event that no stream has taken yet enters a sealed session only by
\* reopening it.
LEMMA SealedAdmission ==
    ASSUME SessionInv, sealed, NEW e \in Events, NEW finished \in BOOLEAN,
           status[e] = "reserved", Admission(e[1], e[2], finished) # "refused"
    PROVE  Admission(e[1], e[2], finished) = "reopen"
<1> USE SessionParts
<1> DEFINE s == e[1]
           q == e[2]
<1>1. ended /\ SealedExactly(status)
    BY DEF SealIsRecorded
<1>2. CASE s \notin row
    BY <1>1, <1>2 DEF Admission, ProvisionalFinishAuthorized
<1>3. CASE s \in row
  <2>1. seal[s] = ack[s] /\ ack[s] \in Nat
      BY <1>1, <1>3, SealedFacts
  <2>2. seal[s] # None
      BY <2>1 DEF None
  <2>3. q \in Nat /\ e = <<s, q>>
      BY CaptureAssumption
  <2>4. q > seal[s]
    <3>1. SUFFICES ASSUME ~(q > seal[s]) PROVE FALSE
        OBVIOUS
    <3>2. q \in 0..ack[s]
        BY <2>1, <2>3, <3>1
    <3>3. q \in Accepted(status, s)
      <4>1. s \in Streams
          BY <1>3 DEF StreamsTyped
      <4> QED BY <3>2, <4>1 DEF Prefixes, Prefix
    <3>4. PICK f \in Events : f[1] = s /\ f[2] = q /\ status[f] \in Taken
        BY <3>3, AcceptedFacts
    <3>5. f = e
        BY <2>3, <3>4, CaptureAssumption
    <3> QED BY <3>4, <3>5, StatusFacts
  <2>5. Admission(s, q, finished) = StreamAdmission(s, q, finished)
      BY <1>3 DEF Admission
  <2> QED BY <1>1, <2>2, <2>4, <2>5 DEF StreamAdmission
<1> QED BY <1>2, <1>3

\* An event is committed.
LEMMA CommitStep ==
    ASSUME SessionInv, NEW e \in Events, NEW finished \in BOOLEAN, CommitEvent(e, finished)
    PROVE  SessionInv'
<1> USE SessionParts
<1> DEFINE s == e[1]
           reopen == Admission(s, e[2], finished) = "reopen"
           st == [status EXCEPT ![e] = "queued"]
           a == AdvanceAck(st, s, ack[s], seal[s])
           first == [ack EXCEPT ![s] = a]
<1>1. /\ status[e] = "reserved" /\ status' = st
      /\ Admission(s, e[2], finished) # "refused" /\ (reopen => SealedExactly(status))
      /\ row' = row \cup {s} /\ state' = "pending" /\ stale' = "no"
      /\ page' = "none" /\ claimed' = FALSE
      /\ ended' = (ended \/ finished) /\ finish' = (finish \/ finished)
      /\ idle' = FALSE /\ quiet' = FALSE
      /\ UNCHANGED <<drained, plan, mode, publishes>>
    BY DEF CommitEvent, NextRevision, RecordFinish, deletion
<1>2. RecordSealReopen(reopen)
    BY DEF CommitEvent
<1>3. ack' = [first EXCEPT ![s] = AdvanceAck(st, s, @, seal'[s])]
    BY DEF CommitEvent
<1>4. /\ status \in [Events -> Status] /\ row \subseteq Streams
      /\ ack \in [Streams -> Acks] /\ seal \in [Streams -> Boundaries]
    BY DEF StreamsTyped
<1>5. s \in Streams
    BY DEF Streams
<1>6. /\ status' \in [Events -> Status] /\ status'[e] = "queued"
      /\ \A f \in Events : f # e => status'[f] = status[f]
    BY <1>1, StatusFacts, StatusStep
<1>7. \/ ~reopen /\ UNCHANGED <<seal, sealed>> /\ entry' = Outdated
      \/ /\ reopen /\ sealed' = FALSE /\ seal' = [t \in Streams |-> None]
         /\ entry' = [Outdated EXCEPT !.reopened = TRUE]
  <2> HIDE DEF reopen
  <2> QED BY <1>2 DEF RecordSealReopen
<1>8. sealed' = FALSE
  <2>1. CASE reopen
      BY <1>7, <2>1
  <2>2. CASE ~reopen
    <3>1. ~sealed
        BY <1>1, <2>2, SealedAdmission
    <3> QED BY <1>7, <2>2, <3>1 DEF ReceiptTyped
  <2> QED BY <2>1, <2>2
<1> HIDE DEF reopen
<1>9. seal' \in [Streams -> Boundaries]
    BY <1>4, <1>7 DEF Boundaries
<1>10. \A t : Accepted(status, t) \subseteq Accepted(st, t)
  <2>1. ASSUME NEW t, NEW n \in Accepted(status, t) PROVE n \in Accepted(st, t)
    <3>1. PICK f \in Events : f[1] = t /\ f[2] = n /\ status[f] \in Taken
        BY <2>1, AcceptedFacts
    <3>2. st[f] \in Taken
        BY <1>1, <1>6, <3>1, StatusFacts
    <3> QED BY <3>1, <3>2, AcceptedFacts
  <2> QED BY <2>1
<1>11. e[2] \in Accepted(st, s)
  <2>1. st[e] \in Taken
      BY <1>1, <1>6, StatusFacts
  <2> HIDE DEF st
  <2> QED BY <2>1, AcceptedFacts
<1>12. \A t : t # s => Accepted(st, t) = Accepted(status, t)
  <2>1. ASSUME NEW t, t # s PROVE Accepted(st, t) = Accepted(status, t)
    <3>1. \A f \in Events : f[1] = t => (st[f] \in Taken <=> status[f] \in Taken)
        BY <1>1, <1>6, <2>1
    <3> QED BY <3>1, SameAccepted
  <2> QED BY <2>1
<1> HIDE DEF st
<1>13. a \in Acks /\ 0..a \subseteq Accepted(st, s)
  <2>1. ack[s] \in Acks /\ seal[s] \in Boundaries
      BY <1>4, <1>5
  <2>2. 0..ack[s] \subseteq Accepted(st, s)
      BY <1>5, <1>10 DEF Prefixes, Prefix
  <2>3. a \in Acks /\ Prefix(st, s, a, seal[s])
      BY <2>1, <2>2, AdvanceFacts
  <2> QED BY <2>3 DEF Prefix
<1> DEFINE b == AdvanceAck(st, s, a, seal'[s])
<1> HIDE DEF a
<1>14. b \in Acks /\ Prefix(st, s, b, seal'[s])
  <2>1. seal'[s] \in Boundaries
      BY <1>5, <1>9
  <2> QED BY <1>13, <2>1, AdvanceFacts
<1>15. first[s] = a /\ first \in [Streams -> Acks]
    BY <1>4, <1>5, <1>13
<1>16. /\ ack' \in [Streams -> Acks] /\ ack'[s] = b
       /\ \A t \in Streams : t # s => ack'[t] = ack[t]
  <2>1. ack' = [first EXCEPT ![s] = b]
      BY <1>3, <1>15
  <2> HIDE DEF b
  <2> QED BY <1>4, <1>5, <1>14, <1>15, <2>1
<1> HIDE DEF b, s
<1>17. StreamsTyped'
  <2>1. row' \subseteq Streams
      BY <1>1, <1>4, <1>5
  <2> QED BY <1>6, <1>9, <1>16, <2>1 DEF StreamsTyped
<1>18. FlagsTyped'
  <2>1. ended' \in BOOLEAN /\ finish' \in BOOLEAN
      BY <1>1 DEF FlagsTyped
  <2>2. idle' \in BOOLEAN /\ quiet' \in BOOLEAN /\ drained' \in BOOLEAN
      BY <1>1, Zenon DEF FlagsTyped
  <2> QED BY <2>1, <2>2 DEF FlagsTyped
<1>19. ReceiptTyped'
  <2>1. EntryTyped'
      BY <1>7, OutdatedFacts DEF EntryTyped
  <2> QED BY <1>1, <1>8, <2>1 DEF ReceiptTyped, FormationTyped
<1>20. PlanTyped' /\ DeletionIsPlanned'
    BY <1>1, <1>6 DEF PlanTyped, DeletionIsPlanned
<1>21. RowIsAccepted'
  <2>1. ASSUME NEW f \in Events, status'[f] \in Taken PROVE f[1] \in row'
      BY <1>1, <1>6, <2>1 DEF RowIsAccepted, s
  <2>2. ASSUME NEW t \in row' PROVE Accepted(status', t) # {}
      BY <1>1, <1>11, <1>12 DEF RowIsAccepted
  <2> QED BY <2>1, <2>2 DEF RowIsAccepted
<1>22. Prefixes'
  <2>1. ASSUME NEW t \in Streams PROVE Prefix(status', t, ack'[t], seal'[t])
    <3>1. CASE t = s
        BY <1>1, <1>14, <1>16, <3>1
    <3>2. CASE t # s
      <4>1. ack'[t] = ack[t] /\ Accepted(status', t) = Accepted(status, t)
          BY <1>1, <1>12, <1>16, <3>2
      <4>2. Prefix(status, t, ack[t], seal[t])
          BY DEF Prefixes
      <4>3. CASE seal' = seal
          BY <4>1, <4>2, <4>3 DEF Prefix
      <4>4. CASE reopen
        <5>1. ack[t] + 1 \notin Accepted(status, t)
            BY <1>1, <4>4, SealedFacts
        <5> QED BY <4>1, <4>2, <5>1 DEF Prefix
      <4> QED BY <1>7, <4>3, <4>4
    <3> QED BY <3>1, <3>2
  <2> QED BY <2>1 DEF Prefixes
<1>23. SealIsRecorded' /\ CompletionIsCurrent'
    BY <1>1, <1>8 DEF SealIsRecorded, CompletionIsCurrent
<1> QED BY <1>17, <1>18, <1>19, <1>20, <1>21, <1>22, <1>23, SessionJoin

-----------------------------------------------------------------------------
\* A new session, and one a schema-26 writer left behind, satisfy the invariant.
LEMMA InitSession ==
    ASSUME Init PROVE SessionInv
<1>1. /\ finish = FALSE /\ idle = FALSE /\ quiet = FALSE /\ drained = FALSE
      /\ stale = "no" /\ page = "none" /\ claimed = FALSE
      /\ sealed = FALSE /\ entry = NoEntry
      /\ plan = {} /\ mode = "none" /\ publishes = 0
    BY DEF Init
<1>2. /\ ended \in BOOLEAN /\ state \in {"absent", "pending", "complete"}
    BY DEF Init, FreshInit, LegacyInit
<1>3. EntryTyped
    BY <1>1 DEF EntryTyped, NoEntry
<1>4. FlagsTyped
    BY <1>1, <1>2, Zenon DEF FlagsTyped
<1>5. ReceiptTyped /\ PlanTyped
  <2>1. claimed \in BOOLEAN /\ sealed \in BOOLEAN
      BY <1>1, Zenon
  <2> QED BY <1>1, <1>2, <1>3, <2>1, CaptureAssumption DEF ReceiptTyped, FormationTyped,
                                                           PlanTyped
<1>6. DeletionIsPlanned /\ SealIsRecorded /\ CompletionIsCurrent
    BY <1>1 DEF DeletionIsPlanned, SealIsRecorded, CompletionIsCurrent
<1>7. StreamsTyped /\ RowIsAccepted /\ Prefixes
  <2>1. CASE FreshInit
    <3>1. StreamsTyped
        BY <2>1, StatusFacts DEF FreshInit, StreamsTyped, Acks, Boundaries
    <3>2. \A e \in Events : status[e] \notin Taken
        BY <2>1, StatusFacts DEF FreshInit
    <3>3. RowIsAccepted
        BY <2>1, <3>2 DEF FreshInit, RowIsAccepted
    <3>4. ASSUME NEW s \in Streams PROVE Prefix(status, s, ack[s], seal[s])
      <4>1. Accepted(status, s) = {}
          BY <3>2, AcceptedFacts
      <4>2. ack[s] = -1
          BY <2>1 DEF FreshInit
      <4> QED BY <4>1, <4>2 DEF Prefix
    <3> QED BY <3>1, <3>3, <3>4 DEF Prefixes
  <2>2. CASE LegacyInit
    <3>1. PICK s \in Streams, boundary \in LegacyBoundaries :
             /\ status \in [Events -> {"absent", "ready"}]
             /\ row = {s}
             /\ \A e \in Events : status[e] = "ready" => e[1] = s /\ e[2] <= boundary
             /\ \E e \in Events : status[e] = "ready"
             /\ seal = [t \in Streams |-> IF t = s THEN boundary ELSE None]
             /\ ack = [t \in Streams |-> AdvanceAck(status, t, -1, seal[t])]
        BY <2>2, Zenon DEF LegacyInit
    <3>2. status \in [Events -> Status]
        BY <3>1, StatusFacts
    <3>3. seal \in [Streams -> Boundaries]
        BY <3>1, CaptureAssumption DEF Boundaries
    <3>4. ASSUME NEW t \in Streams
          PROVE  ack[t] \in Acks /\ Prefix(status, t, ack[t], seal[t])
      <4>1. -1 \in Acks /\ seal[t] \in Boundaries
          BY <3>3 DEF Acks
      <4>2. 0..(-1) \subseteq Accepted(status, t)
          OBVIOUS
      <4>3. /\ AdvanceAck(status, t, -1, seal[t]) \in Acks
            /\ Prefix(status, t, AdvanceAck(status, t, -1, seal[t]), seal[t])
          BY <4>1, <4>2, AdvanceFacts
      <4>4. ack[t] = AdvanceAck(status, t, -1, seal[t])
          BY <3>1
      <4> QED BY <4>3, <4>4
    <3>5. ack \in [Streams -> Acks]
        BY <3>1, <3>4
    <3>6. RowIsAccepted
      <4>1. \A e \in Events : status[e] \in Taken => e[1] \in row
          BY <3>1, StatusFacts
      <4>2. Accepted(status, s) # {}
          BY <3>1, StatusFacts, AcceptedFacts
      <4> QED BY <3>1, <4>1, <4>2 DEF RowIsAccepted
    <3> QED BY <3>1, <3>2, <3>3, <3>4, <3>5, <3>6 DEF StreamsTyped, Prefixes
  <2> QED BY <2>1, <2>2 DEF Init
<1>8. TypeOK
    BY <1>4, <1>5, <1>7, TypeWhole
<1> QED BY <1>3, <1>6, <1>7, <1>8 DEF SessionInv

\* Every step keeps the invariant.
LEMMA SessionStep ==
    ASSUME SessionInv, [Next]_vars PROVE SessionInv'
<1>1. CASE UNCHANGED vars
  <2>1. /\ UNCHANGED <<status, row, ack, seal, ended, finish, idle, quiet, drained>>
        /\ UNCHANGED <<state, stale, page, claimed, sealed, entry, plan, mode, publishes>>
      BY <1>1 DEF vars, stream, session, receipt, formation, deletion
  <2>2. /\ StreamsTyped' /\ FlagsTyped' /\ ReceiptTyped' /\ PlanTyped'
        /\ DeletionIsPlanned' /\ CompletionIsCurrent'
      BY <2>1, SessionParts DEF StreamsTyped, FlagsTyped, ReceiptTyped, FormationTyped,
                  EntryTyped, PlanTyped, DeletionIsPlanned, CompletionIsCurrent
  <2>3. RowIsAccepted' /\ Prefixes'
      BY <2>1, StreamsKept
  <2>4. SealIsRecorded'
      BY <2>1, SealKept
  <2> QED BY <2>2, <2>3, <2>4, SessionJoin
<1>2. CASE \E e \in Events : ReserveUpload(e) \/ ReservationLapses(e) \/ MediaSettles(e)
    BY <1>2, ReservationStep, MediaStep
<1>3. CASE \E e \in Events, finished \in BOOLEAN : CommitEvent(e, finished)
    BY <1>3, CommitStep
<1>4. CASE FinishSession \/ RecoverInactiveSession \/ Drain \/ GoesIdle \/ GoesQuiet
    BY <1>4, SessionOnlyStep
<1>5. CASE \E due \in BOOLEAN : ClaimPass(due)
    BY <1>5, ClaimStep
<1>6. CASE (\E more \in BOOLEAN : SettleFormation(more)) \/ ReleaseFormation
             \/ SettleSummaryWindow
    BY <1>6, FormationStep
<1>7. CASE TopologyPublished \/ BackfillRefresh \/ RefreshPaged
    BY <1>7, RefreshStep
<1>8. CASE (\E family \in SUBSET Events : BeginDeletion(family)) \/ InventoryFamily
    BY <1>8, BeginDeletionStep
<1>9. CASE CompleteDeletion
    BY <1>9, CompleteDeletionStep
<1>10. CASE \E e \in Events : PurgeMembers(e) \/ TombstonePage(e) \/ PurgePage(e)
    BY <1>10, PageStep
<1> QED BY <1>1, <1>2, <1>3, <1>4, <1>5, <1>6, <1>7, <1>8, <1>9, <1>10, Zenon DEF Next

-----------------------------------------------------------------------------
\* The theorems.

\* SessionInv holds throughout every session: rows, acknowledgements and
\* boundaries match the accepted events, and every finalized seal is on record.
THEOREM CaptureSessionInv == Spec => []SessionInv
BY InitSession, SessionStep, PTL DEF Spec

\* Every variable of a capture session keeps its type.
THEOREM CaptureTypeOK == Spec => []TypeOK
<1>1. SessionInv => TypeOK
    BY DEF SessionInv
<1> QED BY <1>1, CaptureSessionInv, PTL

\* The server acknowledges a contiguous prefix of what it has accepted, and on an
\* open stream the longest one, whatever gap fills, late streams, reopenings
\* and deletions happen.
THEOREM CaptureAckIsPrefix == Spec => []AckIsPrefix
<1>1. SessionInv => AckIsPrefix
    BY SessionParts DEF AckIsPrefix, Prefixes, Prefix, StreamsTyped
<1> QED BY <1>1, CaptureSessionInv, PTL

\* A finalized seal is always auditable: its own log entry is current, not
\* reopened, commits to the boundaries at which the streams end, and to their
\* tombstones unless a paged deletion is under way.
THEOREM CaptureSealIsAuditable == Spec => []SealIsAuditable
<1>1. ASSUME SessionInv PROVE SealIsAuditable
  <2>0. SealIsRecorded
      BY <1>1, SessionParts
  <2>1. sealed => /\ SealedExactly(status)
                  /\ entry.sealed /\ entry.current /\ ~entry.reopened
                  /\ CommitsTo(entry.maxima)
                  /\ mode # "paged" => entry.maxima = Maxima(status, row, ack, seal)
      BY <2>0 DEF SealIsRecorded
  <2> DEFINE now == Maxima(status, row, ack, seal)
  <2>2. ASSUME sealed, \A s \in row : now[s][4] = entry.maxima[s][4]
        PROVE  entry.maxima = now
    <3>1. entry.maxima = [s \in row |-> <<ack[s], AcceptedMax(status, s), seal[s], entry.maxima[s][4]>>]
        BY <2>1, <2>2 DEF CommitsTo
    <3>2. \A s \in row : now[s] = <<ack[s], AcceptedMax(status, s), seal[s], now[s][4]>>
        BY DEF Maxima
    <3>3. now = [s \in row |-> now[s]]
        BY DEF Maxima
    <3> HIDE DEF now
    <3> QED BY <2>2, <3>1, <3>2, <3>3
  <2> HIDE DEF now
  <2>3. ~Unauditable(status)
      BY <2>1, <2>2 DEF Unauditable, now
  <2> QED BY <2>1, <2>3 DEF SealIsAuditable, CurrentFinalizedSeal
<1> QED BY <1>1, CaptureSessionInv, PTL

\* A complete formation receipt was computed over the events, tombstones and
\* projections the session still has, except while the pages of a deletion are
\* being processed, whatever claims, forward settlements, late events and
\* publications happen in between.
THEOREM CaptureCompletionIsCurrent == Spec => []CompletionIsCurrent
<1>1. SessionInv => CompletionIsCurrent
    BY DEF SessionInv
<1> QED BY <1>1, CaptureSessionInv, PTL
=============================================================================
