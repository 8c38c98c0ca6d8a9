----------------------- MODULE MemoryFormationProofs -----------------------
(***************************************************************************)
(* Proofs about memory formation, for every set of workers, every number   *)
(* of pieces of evidence, every page size and every bound on faults and    *)
(* deletions.                                                              *)
(***************************************************************************)
EXTENDS MemoryFormation, FiniteSetTheorems, NaturalsInduction, WellFoundedInduction, TLAPS

Asking == {"claimed", "authorized", "sending", "answered", "settle"}
UsageStates == {"absent", "started", "metered", "not_billed", "ambiguous"}

Replies == Answers \cup {"none"}
ReceiptRows ==
    [state : ReceiptStates, owner : Workers \cup {None}, live : BOOLEAN,
     print : Prints \cup {None}]
WindowRows ==
    [state : {"processing", "retry_wait", "succeeded"}, owner : Workers \cup {None},
     live : BOOLEAN, span : (Nat \X Nat) \cup {None}]
HeldPages ==
    [key : Nat \X Nat \X Nat, print : Prints, provider : SUBSET Evidence, request : BOOLEAN]
WorkerStates ==
    [pc : PCs, page : HeldPages \cup {None}, seen : SUBSET Evidence,
     from : 0..Cardinality(Evidence), to : 0..Cardinality(Evidence),
     answer : Replies]

\* The types of the rows, of the ledger and of the workers' local state.
SourceTyped ==
    /\ present \subseteq arrived /\ arrived \subseteq Evidence
    /\ memories \subseteq (SUBSET present) \ {{}}
    /\ cursor \in 0..Cardinality(Evidence)
    /\ doomed \subseteq arrived /\ tombed \subseteq arrived /\ purged \subseteq tombed
    /\ mode \in {"none", "whole", "begun", "paged"} /\ (mode = "none" => doomed = {})
    /\ mode \in {"whole", "begun"} => doomed \in memories
    /\ mode = "paged" => doomed \cap present \in memories \cup {{}}
FormationTyped ==
    /\ rev \in Nat /\ pages \in Nat
    /\ done \subseteq arrived /\ declined \subseteq Evidence
    /\ receipt \in ReceiptRows
    /\ page = None \/ page \in PageRows
WorkersTyped ==
    /\ window \in WindowRows
    /\ worker \in [Workers -> WorkerStates]
    /\ \A w \in Workers : worker[w].pc \in Asking => worker[w].page \in HeldPages
    /\ \A w \in Workers : worker[w].pc = "answered" => worker[w].answer \in Answers
UsageTyped ==
    /\ ledger \in [Keys -> UsageStates] /\ sent \in [Keys -> Nat]

\* The claim of a receipt is the claim of its page, and a worker whose token
\* is the receipt's holds that page as it is.
ClaimIsPage ==
    /\ (receipt.state = "processing") = (receipt.owner # None)
    /\ receipt.live => receipt.state = "processing"
    /\ receipt.state = "processing" => page # None /\ receipt.print = page.print
    /\ \A w \in Workers :
         worker[w].pc \in Asking /\ Token(w) =>
            /\ worker[w].page.key = Key(page)
            /\ worker[w].page.provider = page.provider
            /\ worker[w].page.print = page.print

\* What a waiting page says: it covers evidence of its fingerprint that no
\* complete page covers, what it does not ask about had an owner, and when more
\* pages follow it covers something and leaves something.
PageIsNext ==
    page # None =>
        /\ page.covered \subseteq arrived \ done
        /\ page.covered \ page.provider \subseteq page.print[3]
        /\ page.more => page.covered # {} /\ ~(arrived \subseteq done \cup page.covered)

\* The complete pages of a revision: each of them covers something of its own,
\* and the last of them is complete only together with the receipt.
PagesAreFew ==
    /\ pages <= Cardinality(Evidence)
    /\ receipt.state # "complete" =>
         pages <= Cardinality(done) /\ (pages = 0 \/ ~(arrived \subseteq done))

\* Evidence of a complete page that is still present is remembered or declined.
DoneIsKept == done \cap present \subseteq Owned \cup declined

\* The rows of memory formation.
RowsInv ==
    /\ SourceTyped /\ FormationTyped /\ WorkersTyped /\ UsageTyped
    /\ ClaimIsPage /\ PageIsNext /\ PagesAreFew
    /\ OneOwner /\ DoneIsKept /\ NothingLost /\ CompleteIsCurrent

Earlier(j, k) == j[1] = k[1] /\ j[2] = k[2] /\ j[3] < k[3]

\* An attempt is begun, or held by a page or a worker, only after every earlier
\* attempt of its page was recorded as not billed.
AttemptsFollow ==
    /\ \A j, k \in Keys : Earlier(j, k) /\ ledger[k] # "absent" => ledger[j] = "not_billed"
    /\ \A w \in Workers : worker[w].pc \in Asking =>
         \A j \in Keys : Earlier(j, worker[w].page.key) => ledger[j] = "not_billed"
    /\ page # None =>
         \A j \in Keys : Earlier(j, Key(page)) => ledger[j] = "not_billed"

\* A call is on record before it is made, and made by one worker once.
SentOnRecord ==
    /\ \A k \in Keys : sent[k] \in 0..1 /\ (ledger[k] = "absent" => sent[k] = 0)
    /\ \A w \in Workers : worker[w].pc = "sending" =>
         \A k \in Keys : k = worker[w].page.key => ledger[k] # "absent" /\ sent[k] = 0
    /\ \A v, w \in Workers :
         /\ worker[v].pc = "sending" /\ worker[w].pc = "sending"
         /\ worker[v].page.key = worker[w].page.key
         /\ worker[v].page.key \in Keys
         => v = w

\* The provider's calls.
CallsInv == AttemptsFollow /\ SentOnRecord

-----------------------------------------------------------------------------
\* Rows, prints and pages.

\* The number of pieces of evidence.
LEMMA EvidenceFacts ==
    /\ IsFiniteSet(Evidence) /\ Cardinality(Evidence) \in Nat
    /\ 1 \in Evidence /\ Cardinality(Evidence) >= 1
    /\ \A e \in Evidence : e \in 0..Cardinality(Evidence) /\ e \in Nat
<1>1. IsFiniteSet(Evidence) /\ Evidence = 1..Cardinality(Evidence) /\ Evidence # {}
    BY FormationAssumption
<1>2. Cardinality(Evidence) \in Nat
    BY <1>1, FS_CardinalityType
<1>3. PICK e \in Evidence : TRUE
    BY <1>1
<1>4. e \in 1..Cardinality(Evidence)
    BY <1>1
<1>5. Cardinality(Evidence) >= 1
    BY <1>2, <1>4
<1> QED BY <1>1, <1>2, <1>5

\* A fingerprint of some evidence.
LEMMA PrintFacts ==
    ASSUME NEW p \in SUBSET Evidence, NEW m, NEW t \in SUBSET Evidence,
           NEW g \in SUBSET Evidence, rev \in Nat
    PROVE  /\ Fingerprint(p, m, t, g) \in Prints
           /\ Fingerprint(p, m, t, g)[2] = p /\ Fingerprint(p, m, t, g)[3] = p \cap UNION m
           /\ Fingerprint(p, m, t, g)[4] = t /\ Fingerprint(p, m, t, g)[5] = g
BY DEF Fingerprint, Prints

\* The fields of a page, and of a page that has moved on.
LEMMA PageFacts ==
    ASSUME NEW p \in PageRows
    PROVE  /\ p # None
           /\ p.index \in Nat /\ p.attempt \in Nat /\ p.print \in Prints
           /\ p.covered \subseteq Evidence /\ p.provider \subseteq Evidence
           /\ p.more \in BOOLEAN /\ p.request \in BOOLEAN /\ p.staged \in Answers \cup {None}
BY FormationAssumption DEF PageRows

\* The key of a page of the present revision.
LEMMA KeyFacts ==
    ASSUME NEW p \in PageRows, rev \in Nat
    PROVE  /\ Key(p) \in Nat \X Nat \X Nat
           /\ Key(p)[1] = rev /\ Key(p)[2] = p.index /\ Key(p)[3] = p.attempt
<1>1. p.index \in Nat /\ p.attempt \in Nat
    BY PageFacts
<1> QED BY <1>1 DEF Key

\* The fields of a worker's state.
LEMMA WorkerFacts ==
    ASSUME NEW r \in WorkerStates
    PROVE  /\ r.pc \in PCs /\ r.page \in HeldPages \cup {None} /\ r.seen \subseteq Evidence
           /\ r.from \in 0..Cardinality(Evidence) /\ r.to \in 0..Cardinality(Evidence)
           /\ r.answer \in Replies
BY DEF WorkerStates

\* The fields of a page a worker holds.
LEMMA HeldFacts ==
    ASSUME NEW h \in HeldPages
    PROVE  /\ h.key \in Nat \X Nat \X Nat /\ h.print \in Prints
           /\ h.provider \subseteq Evidence /\ h.request \in BOOLEAN
BY DEF HeldPages

\* An idle worker holds nothing.
LEMMA IdleFacts ==
    /\ Idle \in WorkerStates /\ Idle.pc = "idle" /\ Idle.pc \notin Asking
    /\ Idle.pc # "sending" /\ Idle.pc # "answered"
<1>1. 0 \in 0..Cardinality(Evidence)
    BY EvidenceFacts
<1> QED BY <1>1 DEF Idle, WorkerStates, PCs, Asking, Replies

\* A worker that moves on keeps the page it holds.
Moved(r, p, a) == [r EXCEPT !.pc = p, !.answer = a]

\* What a worker that moves on keeps.
LEMMA MovedFacts ==
    ASSUME NEW r \in WorkerStates, NEW p \in PCs, NEW a \in Replies
    PROVE  /\ Moved(r, p, a) \in WorkerStates
           /\ Moved(r, p, a).pc = p /\ Moved(r, p, a).answer = a
           /\ Moved(r, p, a).page = r.page /\ Moved(r, p, a).to = r.to
           /\ Moved(r, p, a).seen = r.seen
BY DEF Moved, WorkerStates

\* The states a worker passes through while it holds a page.
LEMMA AskingFacts ==
    /\ "claimed" \in Asking /\ "authorized" \in Asking /\ "sending" \in Asking
    /\ "answered" \in Asking /\ "settle" \in Asking
    /\ "claimed" \in PCs /\ "authorized" \in PCs /\ "sending" \in PCs
    /\ "answered" \in PCs /\ "settle" \in PCs
    /\ "idle" \in PCs /\ "read" \in PCs /\ "skip" \in PCs /\ "forward" \in PCs
    /\ "idle" \notin Asking /\ "read" \notin Asking /\ "skip" \notin Asking
    /\ "forward" \notin Asking
    /\ "keep" \in Answers /\ "keep" \in Replies /\ "none" \in Replies
    /\ \A a \in Answers : a \in Replies
BY DEF Asking, PCs, Answers, Replies

\* The waiting receipt.
LEMMA WaitingFacts ==
    /\ Waiting \in ReceiptRows /\ Waiting.state = "pending" /\ Waiting.owner = None
    /\ Waiting.live = FALSE
BY DEF Waiting, ReceiptRows, ReceiptStates

\* The fields of a receipt.
LEMMA ReceiptFacts ==
    ASSUME NEW r \in ReceiptRows
    PROVE  /\ r.state \in ReceiptStates /\ r.owner \in Workers \cup {None}
           /\ r.live \in BOOLEAN /\ r.print \in Prints \cup {None}
BY DEF ReceiptRows

\* The parts of the invariant.
LEMMA RowsParts ==
    ASSUME RowsInv
    PROVE  /\ SourceTyped /\ FormationTyped /\ WorkersTyped /\ UsageTyped
           /\ ClaimIsPage /\ PageIsNext /\ PagesAreFew
           /\ OneOwner /\ DoneIsKept /\ NothingLost /\ CompleteIsCurrent
BY DEF RowsInv

\* The invariant from its parts, after a step.
LEMMA RowsJoin ==
    ASSUME SourceTyped', FormationTyped', WorkersTyped', UsageTyped',
           ClaimIsPage', PageIsNext', PagesAreFew',
           OneOwner', DoneIsKept', NothingLost', CompleteIsCurrent'
    PROVE  RowsInv'
BY DEF RowsInv

\* The first state satisfies it.
LEMMA InitRows == Init => RowsInv
<1> SUFFICES ASSUME Init PROVE RowsInv
    OBVIOUS
<1>1. SourceTyped
    BY EvidenceFacts DEF Init, SourceTyped
<1>2. FormationTyped
    BY WaitingFacts DEF Init, FormationTyped
<1>3. NoWindow \in WindowRows
    BY DEF NoWindow, WindowRows
<1>4. WorkersTyped
    BY <1>3, IdleFacts DEF Init, WorkersTyped
<1>5. UsageTyped
    BY DEF Init, UsageTyped, UsageStates
<1>6. ClaimIsPage
    BY WaitingFacts, IdleFacts DEF Init, ClaimIsPage
<1>7. PageIsNext
    BY DEF Init, PageIsNext
<1>8. PagesAreFew
    BY EvidenceFacts, FS_EmptySet DEF Init, PagesAreFew
<1>9. OneOwner /\ DoneIsKept
    BY DEF Init, OneOwner, DoneIsKept
<1>10. NothingLost /\ CompleteIsCurrent
    BY WaitingFacts DEF Init, NothingLost, CompleteIsCurrent
<1> QED BY <1>1, <1>2, <1>4, <1>5, <1>6, <1>7, <1>8, <1>9, <1>10 DEF RowsInv

-----------------------------------------------------------------------------
\* Steps that move one worker and leave the receipt alone.

\* One worker takes a state of its type.
LEMMA WorkerTyping ==
    ASSUME WorkersTyped, NEW w \in Workers, NEW r \in WorkerStates,
           worker' = [worker EXCEPT ![w] = r], window' \in WindowRows,
           r.pc \in Asking => r.page \in HeldPages,
           r.pc = "answered" => r.answer \in Answers
    PROVE  /\ WorkersTyped'
           /\ worker'[w] = r /\ \A v \in Workers : v # w => worker'[v] = worker[v]
<1>1. worker \in [Workers -> WorkerStates]
    BY DEF WorkersTyped
<1>2. worker'[w] = r /\ \A v \in Workers : v # w => worker'[v] = worker[v]
    BY <1>1
<1>3. worker' \in [Workers -> WorkerStates]
    BY <1>1
<1> QED BY <1>2, <1>3 DEF WorkersTyped

\* What a page asks, covers and describes.
SamePage(p, q) ==
    /\ p.index = q.index /\ p.print = q.print /\ p.covered = q.covered
    /\ p.provider = q.provider /\ p.more = q.more

\* A page whose request or response is recorded stays the same page.
LEMMA PageRecorded ==
    ASSUME NEW p \in PageRows
    PROVE  /\ [p EXCEPT !.request = TRUE] \in PageRows
           /\ SamePage([p EXCEPT !.request = TRUE], p)
           /\ [p EXCEPT !.request = TRUE].attempt = p.attempt
BY DEF PageRows, SamePage

\* So does a page whose response is staged.
LEMMA PageStaged ==
    ASSUME NEW p \in PageRows, NEW a \in Answers
    PROVE  /\ [p EXCEPT !.staged = a] \in PageRows
           /\ SamePage([p EXCEPT !.staged = a], p)
           /\ [p EXCEPT !.staged = a].attempt = p.attempt
BY DEF PageRows, SamePage

\* A page that is given its next attempt is otherwise the same page.
LEMMA PageAdvanced ==
    ASSUME NEW p \in PageRows, NEW q, q = [p EXCEPT !.attempt = @ + 1, !.request = FALSE]
    PROVE  q \in PageRows /\ SamePage(q, p) /\ q.attempt = p.attempt + 1
<1>1. p.attempt \in Nat /\ p.attempt + 1 \in Nat
    BY DEF PageRows
<1>2. q = [p EXCEPT !.attempt = p.attempt + 1, !.request = FALSE]
    BY DEF PageRows
<1>3. q \in PageRows /\ q.attempt = p.attempt + 1
    BY <1>1, <1>2 DEF PageRows
<1>4. SamePage(q, p)
    BY <1>2 DEF PageRows, SamePage
<1> QED BY <1>3, <1>4

\* A worker moves on, keeping the page it holds or giving it up; the page's
\* request or response may be recorded.
LEMMA WorkerMove ==
    ASSUME RowsInv, NEW w \in Workers, NEW r \in WorkerStates,
           worker' = [worker EXCEPT ![w] = r], window' \in WindowRows,
           r.pc \in Asking => worker[w].pc \in Asking /\ r.page = worker[w].page,
           r.pc = "answered" => r.answer \in Answers,
           \/ page' = page
           \/ /\ page # None /\ page' \in PageRows /\ SamePage(page', page)
              /\ page'.attempt = page.attempt,
           SourceTyped', UsageTyped', UNCHANGED erasure,
           UNCHANGED <<arrived, present, memories, rev, receipt, done, pages, declined>>
    PROVE  RowsInv'
<1> USE RowsParts
<1>1. WorkersTyped' /\ worker'[w] = r /\ \A v \in Workers : v # w => worker'[v] = worker[v]
  <2>1. r.pc \in Asking => r.page \in HeldPages
      BY DEF WorkersTyped
  <2> QED BY <2>1, WorkerTyping
<1>2. page # None => page \in PageRows
    BY DEF FormationTyped
<1>3. /\ page' = None <=> page = None
      /\ page # None => page' \in PageRows /\ SamePage(page', page)
                        /\ page'.attempt = page.attempt
  <2>1. CASE page' = page
      BY <2>1, <1>2 DEF SamePage
  <2>2. CASE /\ page # None /\ page' \in PageRows /\ SamePage(page', page)
             /\ page'.attempt = page.attempt
      BY <2>2, PageFacts
  <2> QED BY <2>1, <2>2
<1>4. FormationTyped'
    BY <1>3 DEF FormationTyped
<1>5. page # None => Key(page)' = Key(page)
    BY <1>3 DEF Key, SamePage
<1>6. ClaimIsPage'
  <2>1. \A v \in Workers : Token(v)' <=> Token(v)
      BY DEF Token
  <2>2. /\ ((receipt.state = "processing") = (receipt.owner # None))'
        /\ (receipt.live => receipt.state = "processing")'
        /\ (receipt.state = "processing" => page # None /\ receipt.print = page.print)'
      BY <1>3 DEF ClaimIsPage, SamePage
  <2>3. ASSUME NEW v \in Workers, worker'[v].pc \in Asking, Token(v)'
        PROVE  /\ worker'[v].page.key = Key(page)'
               /\ worker'[v].page.provider = page'.provider
               /\ worker'[v].page.print = page'.print
    <3>1. worker[v].pc \in Asking /\ worker'[v].page = worker[v].page
        BY <2>3, <1>1
    <3>2. Token(v) /\ page # None
        BY <2>1, <2>3 DEF Token, ClaimIsPage
    <3>3. /\ worker[v].page.key = Key(page)
          /\ worker[v].page.provider = page.provider
          /\ worker[v].page.print = page.print
        BY <3>1, <3>2 DEF ClaimIsPage
    <3> QED BY <3>1, <3>2, <3>3, <1>3, <1>5 DEF SamePage
  <2> QED BY <2>2, <2>3 DEF ClaimIsPage
<1>7. PageIsNext'
    BY <1>3 DEF PageIsNext, SamePage
<1>8. PagesAreFew' /\ OneOwner' /\ DoneIsKept' /\ NothingLost' /\ CompleteIsCurrent'
    BY DEF PagesAreFew, OneOwner, DoneIsKept, NothingLost, CompleteIsCurrent, Describes,
           Owned, erasure
<1> QED BY <1>1, <1>4, <1>6, <1>7, <1>8, RowsJoin

\* The ledger and the number of calls keep their type.
LEMMA UsageTyping ==
    ASSUME UsageTyped, NEW k, NEW s \in UsageStates,
           \/ ledger' = ledger
           \/ ledger' = [ledger EXCEPT ![k] = s]
           \/ ledger' = [ledger EXCEPT ![k] = IF @ = "started" THEN s ELSE @],
           sent' = sent \/ sent' = [sent EXCEPT ![k] = @ + 1]
    PROVE  UsageTyped'
<1>1. ledger' \in [Keys -> UsageStates]
    BY DEF UsageTyped
<1>2. sent' \in [Keys -> Nat]
    BY DEF UsageTyped
<1> QED BY <1>1, <1>2 DEF UsageTyped

\* Recording the request and making the call.
LEMMA AskingStep ==
    ASSUME RowsInv, NEW w \in Workers,
           \/ Authorize(w) \/ TooLarge(w)
           \/ (\E answer \in Answers : Answered(w, answer)) \/ Ambiguous(w) \/ Stage(w)
           \/ Crash(w)
    PROVE  RowsInv'
<1> USE RowsParts
<1>1. /\ worker \in [Workers -> WorkerStates] /\ worker[w] \in WorkerStates
      /\ window \in WindowRows
    BY DEF WorkersTyped
<1>0. "authorized" \in PCs /\ "settle" \in PCs /\ "answered" \in PCs
    BY DEF PCs
<1>2. ASSUME UNCHANGED <<source, erasure>> PROVE SourceTyped'
    BY <1>2 DEF SourceTyped, source, erasure
<1>3. ASSUME UNCHANGED usage PROVE UsageTyped'
    BY <1>3 DEF UsageTyped, usage
<1>4. worker[w].answer \in Replies
    BY <1>1, WorkerFacts
<1>5. CASE Authorize(w)
  <2> DEFINE r == Moved(worker[w], "authorized", worker[w].answer)
  <2>1. worker' = [worker EXCEPT ![w] = r]
      BY <1>5, <1>1 DEF Authorize, Moved, WorkerStates
  <2>2. /\ r \in WorkerStates /\ r.pc = "authorized" /\ r.page = worker[w].page
      BY <1>1, <1>0, <1>4, MovedFacts
  <2>3. worker[w].pc \in Asking
      BY <1>5 DEF Authorize, Asking
  <2>4. page # None /\ page \in PageRows
      BY <1>5 DEF Authorize, Authorized, Authoritative, Token, ClaimIsPage, FormationTyped
  <2>5. page' \in PageRows /\ SamePage(page', page) /\ page'.attempt = page.attempt
      BY <1>5, <2>4, PageRecorded DEF Authorize
  <2>6. /\ UNCHANGED <<arrived, present, memories, rev, receipt, done, pages, declined>>
        /\ UNCHANGED <<source, erasure, usage, window>>
      BY <1>5 DEF Authorize, source
  <2> HIDE DEF r
  <2> QED BY <1>1, <1>2, <1>3, <2>1, <2>2, <2>3, <2>4, <2>5, <2>6, WorkerMove
<1>6. CASE TooLarge(w)
  <2> DEFINE r == Moved(worker[w], "settle", "keep")
  <2>1. worker' = [worker EXCEPT ![w] = r]
      BY <1>6, <1>1 DEF TooLarge, Moved, WorkerStates
  <2>2. /\ r \in WorkerStates /\ r.pc = "settle" /\ r.page = worker[w].page
      BY <1>1, MovedFacts, AskingFacts
  <2>3. worker[w].pc \in Asking
      BY <1>6 DEF TooLarge, Asking
  <2>4. /\ UNCHANGED <<arrived, present, memories, rev, receipt, page, done, pages, declined>>
        /\ UNCHANGED <<source, erasure, usage, window>>
      BY <1>6 DEF TooLarge, source, formation
  <2> HIDE DEF r
  <2> QED BY <1>1, <1>2, <1>3, <2>1, <2>2, <2>3, <2>4, WorkerMove
<1>7. ASSUME NEW answer \in Answers, Answered(w, answer) PROVE RowsInv'
  <2>1. PICK p \in {"answered", "settle"}, a \in Answers :
            worker' = [worker EXCEPT ![w] = Moved(worker[w], p, a)]
    <3> DEFINE k == worker[w].page.key
    <3>1. CASE ledger[k] = "started"
        BY <1>7, <1>1, <3>1 DEF Answered, Moved, WorkerStates
    <3>2. CASE ledger[k] # "started"
        BY <1>7, <1>1, <3>2 DEF Answered, Moved, WorkerStates, Answers
    <3> QED BY <3>1, <3>2
  <2> DEFINE r == Moved(worker[w], p, a)
  <2>2. /\ r \in WorkerStates /\ r.pc = p /\ r.answer = a /\ r.page = worker[w].page
    <3>1. p \in PCs /\ a \in Replies
        BY <1>0, AskingFacts
    <3> QED BY <1>1, <3>1, MovedFacts
  <2>3. worker[w].pc \in Asking
      BY <1>7 DEF Answered, Asking
  <2>4. /\ UNCHANGED <<arrived, present, memories, rev, receipt, page, done, pages, declined>>
        /\ UNCHANGED <<source, erasure, window>>
      BY <1>7 DEF Answered, source, formation
  <2>5. UsageTyped'
      BY <1>7, UsageTyping DEF Answered, Record, UsageStates
  <2>6. worker' = [worker EXCEPT ![w] = r]
      BY <2>1
  <2> HIDE DEF r
  <2> QED BY <1>1, <1>2, <2>2, <2>3, <2>4, <2>5, <2>6, WorkerMove
<1>8. CASE Ambiguous(w)
  <2> DEFINE r == Moved(worker[w], "settle", "keep")
  <2>1. worker' = [worker EXCEPT ![w] = r]
      BY <1>8, <1>1 DEF Ambiguous, Moved, WorkerStates
  <2>2. /\ r \in WorkerStates /\ r.pc = "settle" /\ r.page = worker[w].page
      BY <1>1, MovedFacts, AskingFacts
  <2>3. worker[w].pc \in Asking
      BY <1>8 DEF Ambiguous, Asking
  <2>4. /\ UNCHANGED <<arrived, present, memories, rev, receipt, page, done, pages, declined>>
        /\ UNCHANGED <<source, erasure, window>>
      BY <1>8 DEF Ambiguous, source, formation
  <2>5. UsageTyped'
      BY <1>8, UsageTyping DEF Ambiguous, Record, UsageStates
  <2> HIDE DEF r
  <2> QED BY <1>1, <1>2, <2>1, <2>2, <2>3, <2>4, <2>5, WorkerMove
<1>9. CASE Stage(w)
  <2>1. /\ UNCHANGED <<arrived, present, memories, rev, receipt, done, pages, declined>>
        /\ UNCHANGED <<source, erasure, usage, window>>
      BY <1>9 DEF Stage, source
  <2>2. worker[w].pc \in Asking /\ worker[w].answer \in Answers
      BY <1>9 DEF Stage, Asking, WorkersTyped
  <2>3. CASE worker' = [worker EXCEPT ![w] = Idle] /\ UNCHANGED page
      BY <1>1, <1>2, <1>3, <2>1, <2>3, IdleFacts, WorkerMove
  <2>4. CASE /\ Token(w)
             /\ page' = [page EXCEPT !.staged = worker[w].answer]
             /\ worker' = [worker EXCEPT ![w].pc = "settle"]
    <3> DEFINE r == Moved(worker[w], "settle", worker[w].answer)
    <3>1. worker' = [worker EXCEPT ![w] = r]
        BY <2>4, <1>1 DEF Moved, WorkerStates
    <3>2. /\ r \in WorkerStates /\ r.pc = "settle" /\ r.page = worker[w].page
        BY <1>1, <1>0, <1>4, MovedFacts
    <3>3. page # None /\ page \in PageRows
        BY <2>4 DEF Token, ClaimIsPage, FormationTyped
    <3>4. page' \in PageRows /\ SamePage(page', page) /\ page'.attempt = page.attempt
        BY <2>2, <2>4, <3>3, PageStaged
    <3> HIDE DEF r
    <3> QED BY <1>1, <1>2, <1>3, <2>1, <2>2, <3>1, <3>2, <3>3, <3>4, WorkerMove
  <2> QED BY <1>9, <2>3, <2>4 DEF Stage
<1>10. CASE Crash(w)
  <2>1. /\ UNCHANGED <<arrived, present, memories, rev, receipt, page, done, pages, declined>>
        /\ UNCHANGED <<source, erasure, window>>
      BY <1>10 DEF Crash, source, formation
  <2>2. UsageTyped'
      BY <1>10, UsageTyping DEF Crash, UsageStates
  <2>3. worker' = [worker EXCEPT ![w] = Idle]
      BY <1>10 DEF Crash
  <2> QED BY <1>1, <1>2, <2>1, <2>2, <2>3, IdleFacts, WorkerMove
<1> QED BY <1>5, <1>6, <1>7, <1>8, <1>9, <1>10

-----------------------------------------------------------------------------
\* Steps that move the receipt.

\* A receipt that is neither claimed nor complete makes no promise about its
\* page or its evidence.
LEMMA UnclaimedReceipt ==
    ASSUME RowsInv, receipt' \in ReceiptRows, receipt'.owner = None, receipt'.live = FALSE,
           receipt'.state \in {"pending", "retry_wait"}
    PROVE  ClaimIsPage' /\ NothingLost' /\ CompleteIsCurrent'
<1>1. \A v \in Workers : ~Token(v)'
    BY DEF Token
<1> QED BY <1>1 DEF ClaimIsPage, NothingLost, CompleteIsCurrent

\* A worker gives its claim back, if it still has it.
LEMMA ReleaseMove ==
    ASSUME RowsInv, NEW w \in Workers, NEW advance \in BOOLEAN, Released(w, advance),
           UsageTyped',
           UNCHANGED <<source, window, rev, done, pages, declined, erasure>>
    PROVE  RowsInv'
<1> USE RowsParts
<1>1. /\ worker' = [worker EXCEPT ![w] = Idle]
      /\ UNCHANGED <<arrived, present, memories, cursor>>
    BY DEF Released, source
<1>2. SourceTyped'
    BY <1>1 DEF SourceTyped, erasure
<1>3. window' \in WindowRows
    BY DEF WorkersTyped
<1>4. CASE UNCHANGED <<receipt, page>>
    BY <1>1, <1>2, <1>3, <1>4, IdleFacts, WorkerMove
<1>5. CASE /\ Token(w) /\ receipt' = [Waiting EXCEPT !.state = "retry_wait"]
           /\ page' = IF advance THEN [page EXCEPT !.attempt = @ + 1, !.request = FALSE]
                      ELSE page
  <2>1. WorkersTyped'
      BY <1>1, <1>3, IdleFacts, WorkerTyping
  <2>2. page \in PageRows /\ page # None /\ receipt.state = "processing"
      BY <1>5 DEF Token, ClaimIsPage, FormationTyped
  <2>3. page' \in PageRows /\ SamePage(page', page)
    <3>1. CASE advance
        BY <1>5, <2>2, <3>1, PageAdvanced
    <3>2. CASE ~advance
        BY <1>5, <2>2, <3>2 DEF SamePage
    <3> QED BY <3>1, <3>2
  <2>4. /\ receipt' \in ReceiptRows /\ receipt'.owner = None /\ receipt'.live = FALSE
        /\ receipt'.state = "retry_wait"
      BY <1>5 DEF Waiting, ReceiptRows, ReceiptStates
  <2>5. FormationTyped'
      BY <1>1, <2>3, <2>4 DEF FormationTyped
  <2>6. ClaimIsPage' /\ NothingLost' /\ CompleteIsCurrent'
      BY <2>4, UnclaimedReceipt
  <2>7. PageIsNext'
      BY <1>1, <2>2, <2>3 DEF PageIsNext, SamePage
  <2>8. PagesAreFew'
      BY <1>1, <2>2, <2>4 DEF PagesAreFew
  <2>9. OneOwner' /\ DoneIsKept'
      BY <1>1 DEF OneOwner, DoneIsKept, Owned
  <2> QED BY <1>2, <2>1, <2>5, <2>6, <2>7, <2>8, <2>9, RowsJoin
<1> QED BY <1>4, <1>5 DEF Released

\* The steps that give a claim back.
LEMMA ReleaseStep ==
    ASSUME RowsInv, NEW w \in Workers,
           AuthorizeRefused(w) \/ LocalFailure(w) \/ NotBilled(w) \/ SettleRefused(w)
    PROVE  RowsInv'
<1> USE RowsParts
<1>1. ASSUME NEW advance \in BOOLEAN, Release(w, advance) PROVE RowsInv'
  <2>1. Released(w, advance)
        /\ UNCHANGED <<source, window, rev, done, pages, declined, erasure, usage>>
      BY <1>1 DEF Release
  <2>2. UsageTyped'
      BY <2>1 DEF UsageTyped, usage
  <2> QED BY <2>1, <2>2, ReleaseMove
<1>2. CASE NotBilled(w)
  <2>1. Released(w, TRUE) /\ UNCHANGED <<source, window, rev, done, pages, declined, erasure>>
      BY <1>2 DEF NotBilled
  <2>2. UsageTyped'
      BY <1>2, UsageTyping DEF NotBilled, Record, UsageStates
  <2> QED BY <2>1, <2>2, ReleaseMove
<1> QED BY <1>1, <1>2 DEF AuthorizeRefused, LocalFailure, SettleRefused

\* Writing the attempt's row before the call.
LEMMA BeginStep ==
    ASSUME RowsInv, NEW w \in Workers, Begin(w)
    PROVE  RowsInv'
<1> USE RowsParts
<1> DEFINE k == worker[w].page.key
<1>1. /\ worker \in [Workers -> WorkerStates] /\ worker[w] \in WorkerStates
      /\ window \in WindowRows
    BY DEF WorkersTyped
<1>2. worker[w].pc \in Asking /\ worker[w].answer \in Replies
    BY <1>1, WorkerFacts, AskingFacts DEF Begin
<1>3. ASSUME NEW p \in {"sending", "settle"}, NEW a \in Replies, NEW s \in UsageStates,
             worker' = [worker EXCEPT ![w] = Moved(worker[w], p, a)],
             \/ ledger' = [ledger EXCEPT ![k] = s]
             \/ ledger' = [ledger EXCEPT ![k] = IF @ = "started" THEN s ELSE @],
             UNCHANGED <<source, window, formation, erasure, sent>>
      PROVE  RowsInv'
  <2> DEFINE r == Moved(worker[w], p, a)
  <2>1. p \in PCs
      BY AskingFacts
  <2>2. r \in WorkerStates /\ r.pc = p /\ r.page = worker[w].page
      BY <1>1, <2>1, MovedFacts
  <2>3. UsageTyped'
      BY <1>3, UsageTyping
  <2>4. UNCHANGED <<arrived, present, memories, cursor, rev, receipt, page, done, pages, declined>>
      BY <1>3 DEF source, formation
  <2>5. SourceTyped'
      BY <1>3, <2>4 DEF SourceTyped, erasure
  <2>6. worker' = [worker EXCEPT ![w] = r] /\ window' \in WindowRows
      BY <1>1, <1>3
  <2>7. UNCHANGED erasure
      BY <1>3
  <2> HIDE DEF r
  <2> QED BY <1>2, <2>2, <2>3, <2>4, <2>5, <2>6, <2>7, WorkerMove
<1>4. CASE /\ ledger' = [ledger EXCEPT ![k] = "started"]
           /\ worker' = [worker EXCEPT ![w].pc = "sending"]
           /\ UNCHANGED <<source, window, formation, erasure, sent, bounds>>
  <2>1. worker' = [worker EXCEPT ![w] = Moved(worker[w], "sending", worker[w].answer)]
      BY <1>1, <1>4 DEF Moved, WorkerStates
  <2>2. "started" \in UsageStates
      BY DEF UsageStates
  <2> HIDE DEF k
  <2> QED BY <1>2, <1>3, <1>4, <2>1, <2>2
<1>5. CASE /\ ledger' = [ledger EXCEPT ![k] = IF @ = "started" THEN "ambiguous" ELSE @]
           /\ worker' = [worker EXCEPT ![w].pc = "settle", ![w].answer = "keep"]
           /\ UNCHANGED <<source, window, formation, erasure, sent, bounds>>
  <2>1. worker' = [worker EXCEPT ![w] = Moved(worker[w], "settle", "keep")]
      BY <1>1, <1>5 DEF Moved, WorkerStates
  <2>2. "ambiguous" \in UsageStates /\ "keep" \in Replies
      BY AskingFacts DEF UsageStates
  <2> HIDE DEF k
  <2> QED BY <1>3, <1>5, <2>1, <2>2
<1>6. CASE Release(w, TRUE)
  <2>1. Released(w, TRUE)
        /\ UNCHANGED <<source, window, rev, done, pages, declined, erasure, usage>>
      BY <1>6 DEF Release
  <2>2. UsageTyped'
      BY <2>1 DEF UsageTyped, usage
  <2> QED BY <2>1, <2>2, ReleaseMove
<1> QED BY <1>4, <1>5, <1>6 DEF Begin

-----------------------------------------------------------------------------
\* The forward lane.

\* Windows.
LEMMA WindowFacts ==
    /\ NoWindow \in WindowRows
    /\ \A x \in WindowRows :
         /\ x.live \in BOOLEAN /\ x.span \in (Nat \X Nat) \cup {None}
         /\ [x EXCEPT !.live = FALSE] \in WindowRows
    /\ \A s \in (Nat \X Nat) \cup {None} :
         [NoWindow EXCEPT !.state = "succeeded", !.span = s] \in WindowRows
BY DEF NoWindow, WindowRows

\* The larger of two numbers is one of them.
LEMMA LargerFacts ==
    ASSUME NEW a \in Int, NEW b \in Int PROVE Max({a, b}) \in {a, b}
<1>1. \E x \in {a, b} : \A y \in {a, b} : x >= y
    <2>1. CASE a >= b
        BY <2>1
    <2>2. CASE ~(a >= b)
        BY <2>2
    <2> QED BY <2>1, <2>2
<1> QED BY <1>1 DEF Max

\* More memories own what they owned.
LEMMA MoreMemories ==
    ASSUME RowsInv, Owned \subseteq UNION memories', UNCHANGED <<present, done, declined, receipt>>,
           UNCHANGED erasure
    PROVE  DoneIsKept' /\ NothingLost' /\ CompleteIsCurrent'
<1>1. Owned \subseteq Owned'
    BY DEF Owned
<1> QED BY <1>1, RowsParts DEF DoneIsKept, NothingLost, CompleteIsCurrent, Describes, erasure

\* The drafts of a window become memories or join the ones they name.
LEMMA JoinFacts ==
    ASSUME RowsInv, NEW w \in Workers, NEW drafts, NEW base \in [drafts -> memories \cup {{}}],
           {} \notin drafts, ForwardSettle(w, drafts, base)
    PROVE  /\ OneOwner' /\ Owned \subseteq UNION memories'
           /\ memories' \subseteq (SUBSET present) \ {{}}
           /\ doomed \cap present \in memories => doomed \cap present \in memories'
<1> USE RowsParts
<1> DEFINE Add(m) == UNION {d \in drafts : base[d] = m}
           Grown(m) == m \cup Add(m)
<1>0. /\ \A d \in drafts : Available(d, base[d])
      /\ \A c, d \in drafts : c = d \/ c \cap d = {}
      /\ \A d \in drafts : base[d] # {} => base[d] # doomed \cap present
      /\ memories' = {Grown(m) : m \in memories} \cup {d \in drafts : base[d] = {}}
    BY DEF ForwardSettle
<1>1. memories \subseteq (SUBSET present) \ {{}}
    BY DEF SourceTyped
<1>2. ASSUME NEW m \in memories, NEW d \in drafts, NEW x \in m, x \in d PROVE base[d] = m
  <2>1. x \in base[d]
      BY <1>0, <1>2 DEF Available, Owned
  <2>2. base[d] \in memories
      BY <2>1
  <2> QED BY <2>1, <2>2 DEF OneOwner
<1>3. ASSUME NEW c \in drafts, NEW d \in drafts, NEW x \in c, x \in d PROVE c = d
    BY <1>0, <1>3
<1>4. ASSUME NEW a \in memories', NEW x \in a
      PROVE  \/ \E m \in memories : a = Grown(m) /\ x \in m
             \/ \E m \in memories, d \in drafts : a = Grown(m) /\ base[d] = m /\ x \in d
             \/ a \in drafts /\ base[a] = {}
    BY <1>0, <1>4
<1>5. ASSUME NEW a \in memories', NEW b \in memories', NEW x \in a, x \in b PROVE a = b
  <2>1. CASE \E m \in memories : a = Grown(m) /\ x \in m
    <3>1. PICK m \in memories : a = Grown(m) /\ x \in m
        BY <2>1
    <3>2. CASE \E n \in memories : b = Grown(n) /\ x \in n
        BY <3>1, <3>2 DEF OneOwner
    <3>3. CASE \E n \in memories, d \in drafts : b = Grown(n) /\ base[d] = n /\ x \in d
        BY <1>2, <3>1, <3>3
    <3>4. CASE b \in drafts /\ base[b] = {}
        BY <1>1, <1>2, <1>5, <3>1, <3>4
    <3> HIDE DEF Grown
    <3> QED BY <1>4, <1>5, <3>2, <3>3, <3>4
  <2>2. CASE \E m \in memories, d \in drafts : a = Grown(m) /\ base[d] = m /\ x \in d
    <3>1. PICK m \in memories, d \in drafts : a = Grown(m) /\ base[d] = m /\ x \in d
        BY <2>2
    <3>2. CASE \E n \in memories : b = Grown(n) /\ x \in n
        BY <1>2, <3>1, <3>2
    <3>3. CASE \E n \in memories, c \in drafts : b = Grown(n) /\ base[c] = n /\ x \in c
        BY <1>3, <3>1, <3>3
    <3>4. CASE b \in drafts /\ base[b] = {}
        BY <1>1, <1>3, <1>5, <3>1, <3>4
    <3> HIDE DEF Grown
    <3> QED BY <1>4, <1>5, <3>2, <3>3, <3>4
  <2>3. CASE a \in drafts /\ base[a] = {}
    <3>1. CASE \E n \in memories : b = Grown(n) /\ x \in n
        BY <1>1, <1>2, <1>5, <2>3, <3>1
    <3>2. CASE \E n \in memories, d \in drafts : b = Grown(n) /\ base[d] = n /\ x \in d
        BY <1>1, <1>3, <1>5, <2>3, <3>2
    <3>3. CASE b \in drafts /\ base[b] = {}
        BY <1>3, <1>5, <2>3, <3>3
    <3> HIDE DEF Grown
    <3> QED BY <1>4, <1>5, <3>1, <3>2, <3>3
  <2> HIDE DEF Grown
  <2> QED BY <1>4, <1>5, <2>1, <2>2, <2>3
<1>6. OneOwner'
    BY <1>5 DEF OneOwner
<1>7. Owned \subseteq UNION memories'
  <2>1. ASSUME NEW m \in memories, NEW e \in m PROVE e \in UNION memories'
    <3>1. Grown(m) \in memories' /\ e \in Grown(m)
        BY <1>0
    <3> QED BY <3>1
  <2> QED BY <2>1 DEF Owned
<1>8. memories' \subseteq (SUBSET present) \ {{}}
  <2>1. \A d \in drafts : d \subseteq present /\ d # {}
      BY <1>0 DEF Available
  <2>2. \A m \in memories : Grown(m) \subseteq present /\ Grown(m) # {}
      BY <1>1, <2>1
  <2> HIDE DEF Grown
  <2> QED BY <1>0, <2>1, <2>2
<1>9. ASSUME doomed \cap present \in memories PROVE doomed \cap present \in memories'
  <2> DEFINE D == doomed \cap present
  <2>1. D # {}
      BY <1>1, <1>9
  <2>2. {d \in drafts : base[d] = D} = {}
      BY <1>0, <2>1
  <2>3. Grown(D) = D
      BY <2>2
  <2>4. \A m \in memories : Grown(m) \in memories'
      BY <1>0
  <2>5. D \in memories
      BY <1>9
  <2> HIDE DEF D, Grown
  <2>6. D \in memories'
      BY <2>3, <2>4, <2>5
  <2> QED BY <2>6 DEF D
<1> QED BY <1>6, <1>7, <1>8, <1>9

\* The steps of the forward lane.
LEMMA ForwardStep ==
    ASSUME RowsInv, NEW w \in Workers, Forward(w)
    PROVE  RowsInv'
<1> USE RowsParts
<1>1. /\ worker \in [Workers -> WorkerStates] /\ worker[w] \in WorkerStates
      /\ window \in WindowRows /\ window.live \in BOOLEAN
      /\ window.span \in (Nat \X Nat) \cup {None}
    BY WindowFacts DEF WorkersTyped
<1>2. /\ worker[w].from \in 0..Cardinality(Evidence) /\ worker[w].to \in 0..Cardinality(Evidence)
      /\ worker[w].from \in Nat /\ worker[w].to \in Nat /\ worker[w].answer \in Replies
      /\ worker[w].seen \subseteq Evidence
    BY <1>1, WorkerFacts, EvidenceFacts
<1>3. cursor \in 0..Cardinality(Evidence) /\ cursor \in Int
    BY EvidenceFacts DEF SourceTyped
<1>4. ASSUME UNCHANGED usage PROVE UsageTyped'
    BY <1>4 DEF UsageTyped, usage
<1>5. ASSUME NEW to \in Evidence, ForwardRead(w, to) PROVE RowsInv'
  <2> DEFINE seen == WindowEvidence(to)
             p == IF seen = {} THEN "skip" ELSE "read"
             r == [Idle EXCEPT !.from = cursor, !.to = to, !.seen = seen, !.pc = p]
  <2>1. seen \subseteq Evidence
      BY DEF WindowEvidence, SourceTyped
  <2>2. to \in 0..Cardinality(Evidence)
      BY EvidenceFacts
  <2>3. r \in WorkerStates /\ r.pc \in {"skip", "read"}
    <3> HIDE DEF seen
    <3>1. p \in {"skip", "read"} /\ p \in PCs
        BY AskingFacts
    <3> HIDE DEF p
    <3>2. Idle \in WorkerStates
        BY IdleFacts
    <3>3. r \in WorkerStates /\ r.pc = p
        BY <1>3, <2>1, <2>2, <3>1, <3>2 DEF WorkerStates
    <3> QED BY <3>1, <3>3
  <2>4. /\ worker' = [worker EXCEPT ![w] = r]
        /\ UNCHANGED <<source, window, formation, erasure, usage>>
      BY <1>5 DEF ForwardRead
  <2> HIDE DEF r
  <2>5. UNCHANGED <<arrived, present, memories, cursor, rev, receipt, page, done, pages, declined>>
      BY <2>4 DEF source, formation
  <2>6. SourceTyped' /\ window' \in WindowRows
      BY <1>1, <2>4, <2>5 DEF SourceTyped, erasure
  <2>7. r.pc \notin Asking /\ r.pc # "answered"
      BY <2>3, AskingFacts
  <2> QED BY <1>4, <2>3, <2>4, <2>5, <2>6, <2>7, WorkerMove
<1>6. CASE ForwardSkip(w)
  <2>1. /\ cursor' = worker[w].to /\ worker' = [worker EXCEPT ![w] = Idle]
        /\ UNCHANGED <<arrived, present, memories, window, formation, erasure, usage>>
      BY <1>6 DEF ForwardSkip
  <2>2. UNCHANGED <<rev, receipt, page, done, pages, declined>>
      BY <2>1 DEF formation
  <2>3. SourceTyped' /\ window' \in WindowRows
      BY <1>1, <1>2, <2>1 DEF SourceTyped, erasure
  <2> QED BY <1>4, <2>1, <2>2, <2>3, IdleFacts, WorkerMove
<1>7. CASE ForwardClaim(w)
  <2> DEFINE span == <<worker[w].from, worker[w].to>>
             won == [state |-> "processing", owner |-> w, live |-> TRUE, span |-> span]
  <2>1. UNCHANGED <<source, formation, erasure, usage>>
      BY <1>7 DEF ForwardClaim
  <2>2. UNCHANGED <<arrived, present, memories, cursor, rev, receipt, page, done, pages, declined>>
      BY <2>1 DEF source, formation
  <2>3. SourceTyped'
      BY <2>1, <2>2 DEF SourceTyped, erasure
  <2>4. CASE worker' = [worker EXCEPT ![w] = Idle] /\ UNCHANGED window
      BY <1>1, <1>4, <2>1, <2>2, <2>3, <2>4, IdleFacts, WorkerMove
  <2>5. CASE window' = won /\ worker' = [worker EXCEPT ![w].pc = "forward"]
    <3> DEFINE r == Moved(worker[w], "forward", worker[w].answer)
    <3>1. worker' = [worker EXCEPT ![w] = r]
        BY <2>5, <1>1 DEF Moved, WorkerStates
    <3>2. "forward" \in PCs
        BY AskingFacts
    <3>3. r \in WorkerStates /\ r.pc = "forward"
        BY <1>1, <1>2, <3>2, MovedFacts
    <3>4. won \in WindowRows
        BY <1>2 DEF WindowRows
    <3>5. r.pc \notin Asking
        BY <3>3, AskingFacts
    <3> HIDE DEF r, won
    <3> QED BY <1>4, <2>1, <2>2, <2>3, <2>5, <3>1, <3>3, <3>4, <3>5, WorkerMove
  <2> QED BY <1>7, <2>4, <2>5 DEF ForwardClaim
<1>8. ASSUME NEW drafts \in SUBSET ((SUBSET worker[w].seen) \ {{}}),
             NEW base \in [drafts -> memories \cup {{}}], ForwardSettle(w, drafts, base)
      PROVE  RowsInv'
  <2>1. /\ cursor' = Max({cursor, worker[w].to})
        /\ window' = [NoWindow EXCEPT !.state = "succeeded", !.span = window.span]
        /\ worker' = [worker EXCEPT ![w] = Idle]
        /\ UNCHANGED <<arrived, present, formation, erasure, usage>>
      BY <1>8 DEF ForwardSettle
  <2>2. UNCHANGED <<rev, receipt, page, done, pages, declined>>
      BY <2>1 DEF formation
  <2>3. /\ OneOwner' /\ Owned \subseteq UNION memories'
        /\ memories' \subseteq (SUBSET present) \ {{}}
        /\ doomed \cap present \in memories => doomed \cap present \in memories'
    <3>1. {} \notin drafts
        OBVIOUS
    <3> QED BY <1>8, <3>1, JoinFacts
  <2>4. cursor' \in 0..Cardinality(Evidence)
    <3>1. cursor' \in {cursor, worker[w].to}
        BY <1>2, <1>3, <2>1, LargerFacts
    <3> QED BY <1>2, <1>3, <3>1
  <2>5. SourceTyped'
    <3>1. mode \in {"whole", "begun"} => doomed \cap present = doomed
        BY DEF SourceTyped
    <3> QED BY <2>1, <2>3, <2>4, <3>1 DEF SourceTyped, erasure
  <2>6. DoneIsKept' /\ NothingLost' /\ CompleteIsCurrent'
      BY <2>1, <2>2, <2>3, MoreMemories
  <2>7. window' \in WindowRows
      BY <1>1, <2>1, WindowFacts
  <2>8. /\ WorkersTyped' /\ worker'[w] = Idle
        /\ \A v \in Workers : v # w => worker'[v] = worker[v]
      BY <2>1, <2>7, IdleFacts, WorkerTyping
  <2>9. FormationTyped' /\ PageIsNext' /\ PagesAreFew'
      BY <2>1, <2>2 DEF FormationTyped, PageIsNext, PagesAreFew
  <2>10. UsageTyped'
      BY <1>4, <2>1
  <2>11. ClaimIsPage'
    <3>1. Idle.pc \notin Asking
        BY IdleFacts
    <3> QED BY <2>2, <2>8, <3>1 DEF ClaimIsPage, Token, Key
  <2> QED BY <2>3, <2>5, <2>6, <2>8, <2>9, <2>10, <2>11, RowsJoin
<1>9. CASE ForwardRelease(w)
  <2>1. UNCHANGED <<source, formation, erasure, usage>>
      BY <1>9 DEF ForwardRelease
  <2>2. UNCHANGED <<arrived, present, memories, cursor, rev, receipt, page, done, pages, declined>>
      BY <2>1 DEF source, formation
  <2>3. SourceTyped'
      BY <2>1, <2>2 DEF SourceTyped, erasure
  <2>4. window' \in WindowRows
      BY <1>1, <1>9, WindowFacts DEF ForwardRelease
  <2>5. CASE worker' = [worker EXCEPT ![w] = Idle]
      BY <1>4, <2>1, <2>2, <2>3, <2>4, <2>5, IdleFacts, WorkerMove
  <2>6. CASE worker' = [worker EXCEPT ![w] = [Idle EXCEPT !.pc = "skip", !.to = worker[w].to]]
    <3> DEFINE r == [Idle EXCEPT !.pc = "skip", !.to = worker[w].to]
    <3>1. Idle \in WorkerStates /\ "skip" \in PCs
        BY IdleFacts, AskingFacts
    <3>2. r \in WorkerStates /\ r.pc = "skip"
        BY <1>2, <3>1 DEF WorkerStates
    <3>3. r.pc \notin Asking
        BY <3>2, AskingFacts
    <3>4. worker' = [worker EXCEPT ![w] = r]
        BY <2>6
    <3> HIDE DEF r
    <3> QED BY <1>4, <2>1, <2>2, <2>3, <2>4, <3>2, <3>3, <3>4, WorkerMove
  <2> QED BY <1>9, <2>5, <2>6 DEF ForwardRelease
<1> QED BY <1>5, <1>6, <1>7, <1>8, <1>9 DEF Forward, SettleWindow

-----------------------------------------------------------------------------
\* Pages.

\* Some evidence has a first and a last piece.
LEMMA Extremes ==
    ASSUME NEW S \in SUBSET Evidence, S # {}
    PROVE  /\ \E x \in S : \A y \in S : x <= y
           /\ \E x \in S : \A y \in S : y <= x
<1> DEFINE below == {ss \in Nat \X Nat : ss[1] < ss[2]}
           N == Cardinality(Evidence)
           T == {N - e : e \in S}
<1>1. IsWellFoundedOn(below, Nat)
    BY NatLessThanWellFounded DEF OpToRel
<1>2. N \in Nat /\ \A e \in S : e \in Nat /\ e <= N /\ N - e \in Nat
    BY EvidenceFacts
<1>3. ASSUME NEW U \in SUBSET Nat, U # {} PROVE \E x \in U : \A y \in U : x <= y
  <2>1. PICK x \in U : \A y \in U : ~(<<y, x>> \in below)
    <3> HIDE DEF below
    <3> QED BY <1>1, <1>3, WFMin
  <2>2. ASSUME NEW y \in U PROVE x <= y
    <3>1. <<y, x>> \in below <=> y < x
        OBVIOUS
    <3> QED BY <2>1, <3>1
  <2> QED BY <2>2
<1>4. \E x \in S : \A y \in S : x <= y
    BY <1>2, <1>3
<1> HIDE DEF N
<1>5. \E x \in S : \A y \in S : y <= x
  <2>1. T \subseteq Nat /\ T # {}
      BY <1>2
  <2>2. PICK t \in T : \A u \in T : t <= u
      BY <1>3, <2>1
  <2>3. PICK x \in S : t = N - x
      OBVIOUS
  <2>4. ASSUME NEW y \in S PROVE y <= x
    <3>1. N - x <= N - y
        BY <2>2, <2>3
    <3> QED BY <1>2, <3>1
  <2> QED BY <2>4
<1> QED BY <1>4, <1>5

\* A page covers evidence no complete page covers; when some is left for later
\* pages it covers at least the first piece and not the last one.
LEMMA PageEvidenceFacts ==
    ASSUME present \subseteq Evidence
    PROVE  /\ PageEvidence \subseteq present \ done
           /\ Cardinality(present \ done) > PageSize =>
                PageEvidence # {} /\ ~(present \subseteq done \cup PageEvidence)
<1> DEFINE left == present \ done
           upto(e) == {f \in left : f <= e}
<1>1. PageEvidence = {e \in left : Cardinality(upto(e)) <= PageSize}
    BY DEF PageEvidence
<1>2. left \subseteq Evidence /\ IsFiniteSet(left) /\ Cardinality(left) \in Nat
  <2>1. left \subseteq Evidence
      OBVIOUS
  <2>2. IsFiniteSet(left)
      BY <2>1, EvidenceFacts, FS_Subset
  <2> QED BY <2>1, <2>2, FS_CardinalityType
<1>3. PageSize \in Nat /\ PageSize >= 1
    BY FormationAssumption
<1>4. ASSUME Cardinality(left) > PageSize
      PROVE  PageEvidence # {} /\ ~(present \subseteq done \cup PageEvidence)
  <2>1. left # {}
      BY <1>3, <1>4, FS_EmptySet
  <2>2. PICK x \in left : \A y \in left : x <= y
      BY <1>2, <2>1, Extremes
  <2>3. PICK z \in left : \A y \in left : y <= z
      BY <1>2, <2>1, Extremes
  <2>4. \A e \in left : e \in Nat
      BY <1>2, EvidenceFacts
  <2>5. upto(x) = {x}
      BY <2>2, <2>4
  <2>6. Cardinality(upto(x)) = 1
      BY <2>5, FS_Singleton
  <2>7. upto(z) = left
      BY <2>3
  <2>8. x \in PageEvidence
      BY <1>1, <1>3, <2>6
  <2>9. z \notin PageEvidence
      BY <1>1, <1>2, <1>3, <1>4, <2>7
  <2> QED BY <2>3, <2>8, <2>9
<1> QED BY <1>1, <1>4

\* A new page.
LEMMA NewPageFacts ==
    ASSUME RowsInv
    PROVE  /\ NewPage \in PageRows /\ NewPage.print = Current /\ NewPage.attempt = 1
           /\ NewPage.covered \subseteq arrived \ done
           /\ NewPage.covered \ NewPage.provider \subseteq NewPage.print[3]
           /\ NewPage.more =>
                NewPage.covered # {} /\ ~(arrived \subseteq done \cup NewPage.covered)
<1> USE RowsParts
<1>1. /\ present \subseteq Evidence /\ present \subseteq arrived /\ rev \in Nat /\ pages \in Nat
      /\ tombed \subseteq Evidence /\ purged \subseteq Evidence
    BY DEF SourceTyped, FormationTyped
<1>2. /\ PageEvidence \subseteq present \ done
      /\ Cardinality(present \ done) > PageSize =>
            PageEvidence # {} /\ ~(present \subseteq done \cup PageEvidence)
    BY <1>1, PageEvidenceFacts
<1>3. Current \in Prints /\ Current[3] = present \cap Owned
    BY <1>1, PrintFacts DEF Current, Owned
<1>4. /\ NewPage.index = pages /\ NewPage.print = Current /\ NewPage.covered = PageEvidence
      /\ NewPage.provider = PageEvidence \ Owned /\ NewPage.attempt = 1
      /\ NewPage.more = (Cardinality(present \ done) > PageSize)
    BY DEF NewPage
<1>5. NewPage \in PageRows
  <2>1. PageEvidence \in SUBSET Evidence /\ PageEvidence \ Owned \in SUBSET Evidence
      BY <1>1, <1>2
  <2>2. (Cardinality(present \ done) > PageSize) \in BOOLEAN
      OBVIOUS
  <2> QED BY <1>1, <1>3, <2>1, <2>2 DEF NewPage, PageRows
<1>6. PageEvidence \ (PageEvidence \ Owned) \subseteq Current[3]
    BY <1>2, <1>3
<1>7. NewPage.covered \ NewPage.provider \subseteq NewPage.print[3]
    BY <1>4, <1>6
<1>8. NewPage.covered \subseteq arrived \ done
    BY <1>1, <1>2, <1>4
<1>9. NewPage.more => NewPage.covered # {} /\ ~(arrived \subseteq done \cup NewPage.covered)
    BY <1>1, <1>2, <1>4
<1> QED BY <1>4, <1>5, <1>7, <1>8, <1>9

\* Covering something more than before makes more pieces of evidence done.
LEMMA CoveredFacts ==
    ASSUME RowsInv, page \in PageRows
    PROVE  /\ IsFiniteSet(done) /\ Cardinality(done) \in Nat
           /\ page.covered # {} => Cardinality(done) + 1 <= Cardinality(done \cup page.covered)
           /\ ~(arrived \subseteq done) => Cardinality(done) + 1 <= Cardinality(Evidence)
<1> USE RowsParts
<1>1. page.covered \subseteq arrived \ done /\ done \subseteq arrived /\ arrived \subseteq Evidence
    BY PageFacts DEF PageIsNext, FormationTyped, SourceTyped
<1>2. IsFiniteSet(Evidence) /\ Cardinality(Evidence) \in Nat
    BY EvidenceFacts
<1>3. IsFiniteSet(done) /\ Cardinality(done) \in Nat
    BY <1>1, <1>2, FS_Subset, FS_CardinalityType
<1>4. ASSUME NEW e \in Evidence \ done, NEW S \in SUBSET Evidence, done \cup {e} \subseteq S
      PROVE  Cardinality(done) + 1 <= Cardinality(S)
  <2>1. Cardinality(done \cup {e}) = Cardinality(done) + 1
      BY <1>3, FS_AddElement
  <2>2. IsFiniteSet(S)
      BY <1>2, FS_Subset
  <2>3. Cardinality(done \cup {e}) <= Cardinality(S)
      BY <1>4, <2>2, FS_Subset
  <2> QED BY <2>1, <2>3
<1>5. ASSUME page.covered # {} PROVE Cardinality(done) + 1 <= Cardinality(done \cup page.covered)
  <2>1. PICK e \in page.covered : e \in Evidence \ done
      BY <1>1, <1>5
  <2> QED BY <1>1, <1>4, <2>1
<1>6. ASSUME ~(arrived \subseteq done) PROVE Cardinality(done) + 1 <= Cardinality(Evidence)
  <2>1. PICK e \in arrived : e \in Evidence \ done
      BY <1>1, <1>6
  <2> QED BY <1>1, <1>4, <2>1
<1> QED BY <1>3, <1>5, <1>6

-----------------------------------------------------------------------------
\* Claiming and settling a page.

\* claim_capture_formation.
LEMMA ClaimStep ==
    ASSUME RowsInv, NEW w \in Workers, Claim(w)
    PROVE  RowsInv'
<1> USE RowsParts
<1> DEFINE p == IF page = None THEN NewPage ELSE page
           held == [key |-> Key(p), print |-> Current, provider |-> p.provider,
                    request |-> p.request]
           r == [Idle EXCEPT
                   !.page = held,
                   !.pc = IF p.provider = {} \/ p.staged # None THEN "settle" ELSE "claimed",
                   !.answer = IF p.provider = {} \/ p.staged = None THEN "none" ELSE p.staged]
<1>1. /\ Reclaimable /\ Claimable /\ page' = p
      /\ receipt' = [state |-> "processing", owner |-> w, live |-> TRUE, print |-> Current]
      /\ worker' = [worker EXCEPT ![w] = r]
      /\ UNCHANGED <<source, window, rev, done, pages, declined, erasure, usage>>
    BY DEF Claim
<1>2. UNCHANGED <<arrived, present, memories, cursor>>
    BY <1>1 DEF source
<1>3. /\ p \in PageRows /\ p.print = Current
      /\ p.covered \subseteq arrived \ done
      /\ p.covered \ p.provider \subseteq p.print[3]
      /\ p.more => p.covered # {} /\ ~(arrived \subseteq done \cup p.covered)
  <2>1. CASE page = None
      BY <2>1, NewPageFacts
  <2>2. CASE page # None
      BY <1>1, <2>2 DEF Reclaimable, PageIsNext, FormationTyped
  <2> QED BY <2>1, <2>2
<1> HIDE DEF p
<1>4. /\ rev \in Nat /\ present \subseteq Evidence
      /\ tombed \subseteq Evidence /\ purged \subseteq Evidence
    BY DEF FormationTyped, SourceTyped
<1>5. Current \in Prints
    BY <1>4, PrintFacts DEF Current
<1>6. /\ p # None /\ p.provider \subseteq Evidence /\ p.request \in BOOLEAN
      /\ p.staged \in Answers \cup {None}
    BY <1>3, PageFacts
<1>7. held \in HeldPages
  <2>1. Key(p) \in Nat \X Nat \X Nat
      BY <1>3, <1>4, KeyFacts
  <2> QED BY <1>5, <1>6, <2>1 DEF HeldPages
<1>8. held.key = Key(p) /\ held.print = Current /\ held.provider = p.provider
    OBVIOUS
<1> HIDE DEF held
<1>9. /\ r \in WorkerStates /\ r.page = held /\ r.pc \in {"claimed", "settle"}
      /\ r.pc # "answered"
  <2> DEFINE q == IF p.provider = {} \/ p.staged # None THEN "settle" ELSE "claimed"
             a == IF p.provider = {} \/ p.staged = None THEN "none" ELSE p.staged
  <2>1. q \in {"claimed", "settle"} /\ q \in PCs
      BY AskingFacts
  <2>2. a \in Replies
      BY <1>6, AskingFacts
  <2> HIDE DEF q, a
  <2>3. Idle \in WorkerStates
      BY IdleFacts
  <2>4. r = [Idle EXCEPT !.page = held, !.pc = q, !.answer = a]
      BY DEF q, a
  <2>5. r \in WorkerStates /\ r.page = held /\ r.pc = q
      BY <1>7, <2>1, <2>2, <2>3, <2>4 DEF WorkerStates
  <2> QED BY <2>1, <2>5
<1> HIDE DEF r
<1>10. /\ WorkersTyped' /\ worker'[w] = r
       /\ \A v \in Workers : v # w => worker'[v] = worker[v]
  <2>1. window' \in WindowRows
      BY <1>1 DEF WorkersTyped
  <2> QED BY <1>1, <1>7, <1>9, <2>1, WorkerTyping
<1>11. /\ receipt' \in ReceiptRows /\ receipt'.state = "processing" /\ receipt'.owner = w
       /\ receipt'.live = TRUE /\ receipt'.print = Current
    BY <1>1, <1>5 DEF ReceiptRows, ReceiptStates
<1>12. SourceTyped'
    BY <1>1, <1>2 DEF SourceTyped, erasure
<1>13. FormationTyped'
    BY <1>1, <1>2, <1>3, <1>11 DEF FormationTyped
<1>14. UsageTyped'
    BY <1>1 DEF UsageTyped, usage
<1>15. ClaimIsPage'
  <2>1. \A v \in Workers : Token(v)' => v = w
      BY <1>11 DEF Token
  <2>2. Key(page)' = Key(p)
      BY <1>1 DEF Key
  <2>3. /\ worker'[w].page.key = Key(page)' /\ worker'[w].page.provider = page'.provider
        /\ worker'[w].page.print = page'.print
      BY <1>1, <1>3, <1>8, <1>9, <1>10, <2>2
  <2>4. w # None
      BY FormationAssumption
  <2> QED BY <1>1, <1>3, <1>6, <1>11, <2>1, <2>3, <2>4 DEF ClaimIsPage
<1>16. PageIsNext'
    BY <1>1, <1>2, <1>3 DEF PageIsNext
<1>17. PagesAreFew'
  <2>1. receipt.state # "complete"
      BY <1>1 DEF Claimable
  <2> QED BY <1>1, <1>2, <2>1, <1>11 DEF PagesAreFew
<1>18. OneOwner' /\ DoneIsKept'
    BY <1>1, <1>2 DEF OneOwner, DoneIsKept, Owned
<1>19. NothingLost' /\ CompleteIsCurrent'
    BY <1>11 DEF NothingLost, CompleteIsCurrent
<1> QED BY <1>10, <1>12, <1>13, <1>14, <1>15, <1>16, <1>17, <1>18, <1>19, RowsJoin

\* The memories of a settlement are apart, and own what was not declined.
LEMMA SettlementFacts ==
    ASSUME NEW provider, NEW answer, NEW parts \in Settlements(provider, answer)
    PROVE  /\ \A a, b \in parts : a = b \/ a \cap b = {}
           /\ UNION parts \subseteq provider /\ {} \notin parts
           /\ answer # "no_memory" => provider \subseteq UNION parts
<1>1. CASE parts = {} /\ (provider = {} \/ answer = "no_memory")
    BY <1>1
<1>2. CASE parts = {provider} /\ provider # {}
    BY <1>2
<1>3. CASE /\ UNION parts = provider /\ {} \notin parts
           /\ \A a, b \in parts : a = b \/ a \cap b = {}
    BY <1>3
<1> QED BY <1>1, <1>2, <1>3 DEF Settlements

\* settle_capture_formation.
LEMMA SettleStep ==
    ASSUME RowsInv, NEW w \in Workers, Settle(w)
    PROVE  RowsInv'
<1> USE RowsParts
<1> DEFINE provider == worker[w].page.provider
<1>1. PICK parts \in Settlements(provider, worker[w].answer) :
          /\ memories' = memories \cup parts
          /\ declined' = IF worker[w].answer # "no_memory" THEN declined
                         ELSE declined \cup provider
    BY DEF Settle
<1>2. /\ worker[w].pc = "settle" /\ Authoritative(w) /\ Available(provider, {})
      /\ page.more \/ done \cup page.covered = present
      /\ done' = done \cup page.covered /\ pages' = pages + 1 /\ page' = None
      /\ receipt' = SettledReceipt(memories')
      /\ worker' = [worker EXCEPT ![w] = Idle]
      /\ UNCHANGED <<arrived, present, cursor, window, rev, erasure, usage>>
    BY DEF Settle, Settleable, CoverageComplete
<1>3. /\ receipt.state = "processing" /\ page # None /\ page \in PageRows
      /\ page.provider = provider /\ page.print = Current
  <2>1. worker[w].pc \in Asking /\ Token(w)
      BY <1>2, AskingFacts DEF Authoritative
  <2> QED BY <1>2, <2>1 DEF ClaimIsPage, FormationTyped, Authoritative, Token
<1>4. /\ page.covered \subseteq arrived \ done /\ page.covered \ provider \subseteq present \cap Owned
      /\ page.more => page.covered # {} /\ ~(arrived \subseteq done \cup page.covered)
      /\ page.more \in BOOLEAN
  <2>1. /\ present \in SUBSET Evidence /\ tombed \in SUBSET Evidence
        /\ purged \in SUBSET Evidence /\ rev \in Nat
      BY DEF SourceTyped, FormationTyped
  <2>2. Current[3] = present \cap Owned
      BY <2>1, PrintFacts DEF Current, Owned
  <2> QED BY <1>3, <2>2, PageFacts DEF PageIsNext
<1>5. /\ \A a, b \in parts : a = b \/ a \cap b = {}
      /\ UNION parts \subseteq provider /\ {} \notin parts
      /\ worker[w].answer # "no_memory" => provider \subseteq UNION parts
    BY SettlementFacts
<1>6. provider \subseteq present \ Owned
    BY <1>2 DEF Available
<1> HIDE DEF provider
<1>7. provider \subseteq (UNION memories') \cup declined'
    BY <1>1, <1>5
<1>8. Owned \subseteq UNION memories' /\ declined \subseteq declined'
    BY <1>1 DEF Owned
<1>9. OneOwner'
  <2>1. ASSUME NEW a \in memories, NEW b \in parts PROVE a \cap b = {}
      BY <1>5, <1>6 DEF Owned
  <2>2. ASSUME NEW a \in memories', NEW b \in memories' PROVE a = b \/ a \cap b = {}
      BY <1>1, <1>5, <2>1 DEF OneOwner
  <2> QED BY <2>2 DEF OneOwner
<1>10. SourceTyped'
  <2>1. \A m \in parts : m \subseteq present /\ m # {}
      BY <1>5, <1>6
  <2>2. memories \subseteq memories' /\ memories' \subseteq (SUBSET present) \ {{}}
      BY <1>1, <2>1 DEF SourceTyped
  <2> QED BY <1>2, <2>2 DEF SourceTyped, erasure
<1>11. (done \cup page.covered) \cap present \subseteq (UNION memories') \cup declined'
    BY <1>4, <1>7, <1>8 DEF DoneIsKept
<1>12. DoneIsKept'
    BY <1>2, <1>11 DEF DoneIsKept, Owned
<1>13. /\ receipt' \in ReceiptRows /\ receipt'.owner = None /\ receipt'.live = FALSE
       /\ page.more => receipt'.state = "pending"
       /\ ~page.more => /\ receipt'.state = "complete"
                        /\ receipt'.print = Fingerprint(present, memories', tombed, purged)
  <2>1. CASE page.more
      BY <1>2, <2>1, WaitingFacts DEF SettledReceipt
  <2>2. CASE ~page.more
    <3>1. Fingerprint(present, memories', tombed, purged) \in Prints
        BY PrintFacts DEF SourceTyped, FormationTyped
    <3>2. receipt' = [Waiting EXCEPT !.state = "complete",
                        !.print = Fingerprint(present, memories', tombed, purged)]
        BY <1>2, <2>2 DEF SettledReceipt
    <3> QED BY <2>2, <3>1, <3>2 DEF Waiting, ReceiptRows, ReceiptStates
  <2> QED BY <1>4, <2>1, <2>2
<1>14. NothingLost' /\ CompleteIsCurrent'
  <2>1. CASE page.more
      BY <2>1, <1>13 DEF NothingLost, CompleteIsCurrent
  <2>2. CASE ~page.more
    <3>1. /\ receipt'.print[2] = present /\ receipt'.print[3] = present \cap UNION memories'
          /\ receipt'.print[4] = tombed /\ receipt'.print[5] = purged
      <4>1. receipt'.print = Fingerprint(present, memories', tombed, purged)
          BY <2>2, <1>13
      <4>2. Fingerprint(present, memories', tombed, purged)
              = <<rev, present, present \cap UNION memories', tombed, purged>>
          BY DEF Fingerprint
      <4> QED BY <4>1, <4>2
    <3>2. present \subseteq (UNION memories') \cup declined'
        BY <1>2, <1>11, <2>2
    <3>3. UNCHANGED <<present, tombed, purged>>
        BY <1>2 DEF erasure
    <3> QED BY <3>1, <3>2, <3>3 DEF NothingLost, CompleteIsCurrent, Describes, Owned
  <2> QED BY <2>1, <2>2
<1>15. FormationTyped'
  <2>1. declined' \subseteq Evidence
      BY <1>1, <1>6 DEF FormationTyped, SourceTyped
  <2> QED BY <1>2, <1>4, <1>13, <2>1 DEF FormationTyped
<1>16. WorkersTyped'
  <2>1. window' \in WindowRows
      BY <1>2 DEF WorkersTyped
  <2> QED BY <1>2, <2>1, IdleFacts, WorkerTyping
<1>17. UsageTyped'
    BY <1>2 DEF UsageTyped, usage
<1>18. ClaimIsPage'
  <2>1. receipt'.state # "processing"
      BY <1>4, <1>13
  <2> QED BY <1>13, <2>1 DEF ClaimIsPage, Token
<1>19. PageIsNext'
    BY <1>2 DEF PageIsNext
<1>20. PagesAreFew'
  <2>1. pages \in Nat /\ pages <= Cardinality(done) /\ (pages = 0 \/ ~(arrived \subseteq done))
      BY <1>3 DEF PagesAreFew, FormationTyped
  <2>2. /\ Cardinality(done) \in Nat
        /\ page.covered # {} => Cardinality(done) + 1 <= Cardinality(done \cup page.covered)
        /\ ~(arrived \subseteq done) => Cardinality(done) + 1 <= Cardinality(Evidence)
      BY <1>3, CoveredFacts
  <2>3. Cardinality(Evidence) \in Nat /\ Cardinality(Evidence) >= 1
      BY EvidenceFacts
  <2>4. pages + 1 <= Cardinality(Evidence)
      BY <2>1, <2>2, <2>3
  <2>5. CASE page.more
    <3>1. done \cup page.covered \subseteq Evidence
        BY <1>4 DEF FormationTyped, SourceTyped
    <3>2. Cardinality(done \cup page.covered) \in Nat
        BY <3>1, EvidenceFacts, FS_Subset, FS_CardinalityType
    <3>3. pages + 1 <= Cardinality(done \cup page.covered)
        BY <1>4, <2>1, <2>2, <2>5, <3>2
    <3> QED BY <1>2, <1>4, <2>4, <2>5, <3>3 DEF PagesAreFew
  <2>6. CASE ~page.more
      BY <1>2, <1>13, <2>4, <2>6 DEF PagesAreFew
  <2> QED BY <2>5, <2>6
<1> QED BY <1>9, <1>10, <1>12, <1>14, <1>15, <1>16, <1>17, <1>18, <1>19, <1>20, RowsJoin

-----------------------------------------------------------------------------
\* Source revisions, deletions and leases.

\* The receipt moves to its next source revision.
LEMMA ReviseMove ==
    ASSUME RowsInv, Revise, SourceTyped', OneOwner', worker' = worker, window' = window,
           UNCHANGED usage
    PROVE  RowsInv'
<1> USE RowsParts
<1>1. /\ rev' = rev + 1 /\ receipt' = Waiting /\ page' = None
      /\ done' = {} /\ pages' = 0 /\ declined' = {}
    BY DEF Revise
<1>2. ClaimIsPage' /\ NothingLost' /\ CompleteIsCurrent'
    BY <1>1, WaitingFacts, UnclaimedReceipt
<1>3. FormationTyped'
    BY <1>1, WaitingFacts DEF FormationTyped
<1>4. WorkersTyped' /\ UsageTyped'
    BY DEF WorkersTyped, UsageTyped, usage
<1>5. PageIsNext' /\ DoneIsKept'
    BY <1>1 DEF PageIsNext, DoneIsKept
<1>6. PagesAreFew'
    BY <1>1, EvidenceFacts, FS_EmptySet DEF PagesAreFew
<1> QED BY <1>2, <1>3, <1>4, <1>5, <1>6, RowsJoin

\* New evidence.
LEMMA ArriveStep ==
    ASSUME RowsInv, NEW e \in Evidence, Arrive(e)
    PROVE  RowsInv'
<1> USE RowsParts
<1>1. /\ Revise /\ arrived' = arrived \cup {e} /\ present' = present \cup {e}
      /\ UNCHANGED <<memories, cursor, window, erasure, usage, worker>>
    BY DEF Arrive
<1>2. doomed \cap present' = doomed \cap present
    BY <1>1 DEF Arrive, SourceTyped
<1>3. SourceTyped' /\ OneOwner'
    BY <1>1, <1>2 DEF SourceTyped, OneOwner, erasure
<1> QED BY <1>1, <1>3, ReviseMove

\* A step of a deletion that leaves the receipt alone.
LEMMA ErasureMove ==
    ASSUME RowsInv, SourceTyped', OneOwner', CompleteIsCurrent',
           present' \subseteq present, Owned \cap present' \subseteq UNION memories',
           UNCHANGED <<arrived, rev, receipt, page, done, pages, declined, window, worker, usage>>
    PROVE  RowsInv'
<1> USE RowsParts
<1>1. FormationTyped' /\ WorkersTyped' /\ UsageTyped'
    BY DEF FormationTyped, WorkersTyped, UsageTyped, usage
<1>2. ClaimIsPage'
    BY DEF ClaimIsPage, Token, Key
<1>3. PageIsNext' /\ PagesAreFew'
    BY DEF PageIsNext, PagesAreFew
<1>4. DoneIsKept' /\ NothingLost'
    BY DEF DoneIsKept, NothingLost, Owned
<1> QED BY <1>1, <1>2, <1>3, <1>4, RowsJoin

\* A deletion is planned.
LEMMA BeginDeletionStep ==
    ASSUME RowsInv, NEW m \in memories, NEW kind \in {"whole", "begun"}, BeginDeletion(m, kind)
    PROVE  RowsInv'
<1> USE RowsParts
<1>1. /\ mode = "none" /\ doomed' = m /\ mode' = kind
      /\ UNCHANGED <<arrived, present, memories, cursor, tombed, purged>>
      /\ UNCHANGED <<rev, receipt, page, done, pages, declined, window, worker, usage>>
    BY DEF BeginDeletion, source, formation
<1>2. SourceTyped'
    BY <1>1 DEF SourceTyped
<1>3. OneOwner' /\ CompleteIsCurrent'
    BY <1>1 DEF OneOwner, CompleteIsCurrent, Describes, Owned
<1> QED BY <1>1, <1>2, <1>3, ErasureMove DEF Owned

\* A deletion in pages has listed its family.
LEMMA InventoryStep ==
    ASSUME RowsInv, InventoryFamily
    PROVE  RowsInv'
<1> USE RowsParts
<1>1. /\ mode = "begun" /\ mode' = "paged"
      /\ UNCHANGED <<arrived, present, memories, cursor, doomed, tombed, purged>>
      /\ UNCHANGED <<rev, receipt, page, done, pages, declined, window, worker, usage>>
    BY DEF InventoryFamily, source, formation
<1>2. SourceTyped'
  <2>1. doomed \cap present = doomed
      BY <1>1 DEF SourceTyped
  <2> QED BY <1>1, <2>1 DEF SourceTyped
<1>3. OneOwner' /\ CompleteIsCurrent'
    BY <1>1 DEF OneOwner, CompleteIsCurrent, Describes, Owned
<1> QED BY <1>1, <1>2, <1>3, ErasureMove DEF Owned

\* Some evidence of the doomed memory is removed from it.
LEMMA PurgeMembersStep ==
    ASSUME RowsInv, NEW e \in Evidence, PurgeMembers(e)
    PROVE  RowsInv'
<1> USE RowsParts
<1>1. /\ mode = "paged" /\ e \in doomed \cap present /\ present' = present \ {e}
      /\ memories' = {m \ {e} : m \in memories} \ {{}}
      /\ UNCHANGED <<arrived, cursor, doomed, mode, tombed, purged>>
      /\ UNCHANGED <<rev, receipt, page, done, pages, declined, window, worker, usage>>
    BY DEF PurgeMembers, formation, erasure
<1>2. Owned' = Owned \ {e}
  <2>1. ASSUME NEW x \in Owned, x # e PROVE x \in UNION memories'
    <3>1. PICK m \in memories : x \in m
        BY <2>1 DEF Owned
    <3>2. m \ {e} \in memories' /\ x \in m \ {e}
        BY <1>1, <2>1, <3>1
    <3> QED BY <3>2
  <2>2. ASSUME NEW x \in UNION memories' PROVE x \in Owned \ {e}
      BY <1>1, <2>2 DEF Owned
  <2> QED BY <2>1, <2>2 DEF Owned
<1>3. SourceTyped'
  <2>1. doomed \cap present \in memories
      BY <1>1 DEF SourceTyped
  <2>2. doomed' \cap present' = (doomed \cap present) \ {e}
      BY <1>1
  <2>3. \A m \in memories : m \ {e} \in memories' \cup {{}}
      BY <1>1
  <2>4. doomed' \cap present' \in memories' \cup {{}}
      BY <2>1, <2>2, <2>3
  <2>5. memories' \subseteq (SUBSET present') \ {{}}
      BY <1>1 DEF SourceTyped
  <2> QED BY <1>1, <2>4, <2>5 DEF SourceTyped
<1>4. OneOwner'
  <2>1. ASSUME NEW a \in memories', NEW b \in memories' PROVE a = b \/ a \cap b = {}
    <3>1. PICK m \in memories : a = m \ {e}
        BY <1>1
    <3>2. PICK n \in memories : b = n \ {e}
        BY <1>1
    <3>3. m = n \/ m \cap n = {}
        BY DEF OneOwner
    <3> QED BY <3>1, <3>2, <3>3
  <2> QED BY <2>1 DEF OneOwner
<1>5. CompleteIsCurrent'
    BY <1>1, <1>2 DEF CompleteIsCurrent, Describes
<1>6. present' \subseteq present /\ Owned \cap present' \subseteq UNION memories'
    BY <1>1, <1>2 DEF Owned
<1> QED BY <1>1, <1>3, <1>4, <1>5, <1>6, ErasureMove

\* Events of the doomed memory get their tombstones, or are removed.
LEMMA EventsStep ==
    ASSUME RowsInv, NEW e \in Evidence, TombstoneEvents(e) \/ PurgeEvents(e)
    PROVE  RowsInv'
<1> USE RowsParts
<1>1. /\ mode = "paged" /\ e \in doomed
      /\ \/ tombed' = tombed \cup {e} /\ purged' = purged
         \/ doomed \subseteq tombed /\ tombed' = tombed /\ purged' = purged \cup {e}
      /\ UNCHANGED <<arrived, present, memories, cursor, doomed, mode>>
      /\ UNCHANGED <<rev, receipt, page, done, pages, declined, window, worker, usage>>
    BY DEF TombstoneEvents, PurgeEvents, source, formation
<1>2. SourceTyped'
    BY <1>1 DEF SourceTyped
<1>3. OneOwner' /\ CompleteIsCurrent'
    BY <1>1 DEF OneOwner, CompleteIsCurrent, Describes, Owned
<1> QED BY <1>1, <1>2, <1>3, ErasureMove DEF Owned

\* The refresh at the end of a deletion: a receipt that stays complete has the
\* fingerprint of what the deletion has left.
LEMMA RefreshMove ==
    ASSUME RowsInv, SourceTyped', OneOwner', worker' = worker, window' = window,
           UNCHANGED <<arrived, usage>>,
           present' \subseteq present, Owned \cap present' \subseteq UNION memories',
           RefreshReceipt(present', memories', tombed', purged')
    PROVE  RowsInv'
<1>1. CASE Revise
    BY <1>1, ReviseMove
<1>2. CASE /\ receipt.state = "complete" =>
                receipt.print = Fingerprint(present', memories', tombed', purged')
           /\ UNCHANGED <<rev, receipt, page, done, pages, declined>>
  <2>1. CompleteIsCurrent'
    <3>1. SUFFICES ASSUME receipt.state = "complete", NEW e \in Evidence
                   PROVE  Describes(receipt.print, e)'
        BY <1>2 DEF CompleteIsCurrent
    <3>2. receipt.print = <<rev, present', present' \cap UNION memories', tombed', purged'>>
        BY <1>2, <3>1 DEF Fingerprint
    <3>3. receipt'.print = receipt.print
        BY <1>2
    <3> QED BY <3>2, <3>3 DEF Describes, Owned
  <2> QED BY <1>2, <2>1, ErasureMove
<1> QED BY <1>1, <1>2 DEF RefreshReceipt

\* A memory and its evidence are removed.
LEMMA CompleteDeletionStep ==
    ASSUME RowsInv, CompleteDeletion
    PROVE  RowsInv'
<1> USE RowsParts
<1>1. /\ mode = "whole" /\ present' = present \ doomed /\ memories' = memories \ {doomed}
      /\ tombed' = tombed \cup doomed /\ purged' = purged \cup doomed
      /\ doomed' = {} /\ mode' = "none"
      /\ UNCHANGED <<arrived, cursor, window, usage, worker>>
      /\ RefreshReceipt(present', memories', tombed', purged')
    BY DEF CompleteDeletion
<1>2. doomed \in memories
    BY <1>1 DEF SourceTyped
<1>3. \A m \in memories' : m \in memories /\ m \cap doomed = {}
    BY <1>1, <1>2 DEF OneOwner
<1>4. SourceTyped' /\ OneOwner'
    BY <1>1, <1>3 DEF SourceTyped, OneOwner
<1>5. Owned \cap present' \subseteq UNION memories'
  <2>1. ASSUME NEW m \in memories, NEW e \in m, e \in present' PROVE e \in UNION memories'
    <3>1. m # doomed
        BY <1>1, <2>1
    <3> QED BY <1>1, <3>1
  <2> QED BY <2>1 DEF Owned
<1> QED BY <1>1, <1>4, <1>5, RefreshMove

\* The last page of a deletion.
LEMMA RefreshSessionsStep ==
    ASSUME RowsInv, RefreshSessions
    PROVE  RowsInv'
<1> USE RowsParts
<1>1. /\ RefreshReceipt(present, memories, tombed, purged) /\ doomed' = {} /\ mode' = "none"
      /\ UNCHANGED <<arrived, present, memories, cursor, tombed, purged, window, usage, worker>>
    BY DEF RefreshSessions, source
<1>2. SourceTyped' /\ OneOwner'
    BY <1>1 DEF SourceTyped, OneOwner
<1> QED BY <1>1, <1>2, RefreshMove DEF Owned

\* The sealer, and the leases of both claims.
LEMMA LeaseStep ==
    ASSUME RowsInv, SealOnly \/ LeaseLapses \/ WindowLapses \/ LeaseEnds \/ WindowEnds
    PROVE  RowsInv'
<1> USE RowsParts
<1>1. /\ UNCHANGED <<arrived, present, memories, cursor, doomed, mode, tombed, purged>>
      /\ UNCHANGED <<rev, page, done, pages, declined, worker, usage>>
      /\ receipt' = receipt \/ (receipt.live /\ receipt' = [receipt EXCEPT !.live = FALSE])
      /\ window' = window \/ window' = [window EXCEPT !.live = FALSE]
    BY DEF SealOnly, LeaseLapses, WindowLapses, LeaseEnds, WindowEnds, source, formation, erasure
<1>2. receipt \in ReceiptRows /\ window \in WindowRows
    BY DEF FormationTyped, WorkersTyped
<1>3. /\ receipt' \in ReceiptRows /\ receipt'.state = receipt.state
      /\ receipt'.owner = receipt.owner /\ receipt'.print = receipt.print
      /\ receipt'.live => receipt.live
    BY <1>1, <1>2 DEF ReceiptRows
<1>4. window' \in WindowRows
    BY <1>1, <1>2, WindowFacts
<1>5. SourceTyped' /\ FormationTyped' /\ WorkersTyped' /\ UsageTyped'
    BY <1>1, <1>3, <1>4 DEF SourceTyped, FormationTyped, WorkersTyped, UsageTyped, usage
<1>6. ClaimIsPage'
    BY <1>1, <1>3 DEF ClaimIsPage, Token, Key
<1>7. PageIsNext' /\ PagesAreFew'
    BY <1>1, <1>3 DEF PageIsNext, PagesAreFew
<1>8. OneOwner' /\ DoneIsKept' /\ NothingLost' /\ CompleteIsCurrent'
    BY <1>1, <1>3 DEF OneOwner, DoneIsKept, NothingLost, CompleteIsCurrent, Describes, Owned
<1> QED BY <1>5, <1>6, <1>7, <1>8, RowsJoin

\* Every step keeps the rows in order.
LEMMA RowsStep == RowsInv /\ [Next]_vars => RowsInv'
<1> SUFFICES ASSUME RowsInv, [Next]_vars PROVE RowsInv'
    OBVIOUS
<1>1. CASE UNCHANGED vars
  <2>1. /\ UNCHANGED <<arrived, present, memories, cursor, window, doomed, mode, tombed, purged>>
        /\ UNCHANGED <<rev, receipt, page, done, pages, declined, worker, ledger, sent>>
      BY <1>1 DEF vars, source, formation, usage, erasure
  <2>2. SourceTyped' /\ FormationTyped' /\ WorkersTyped' /\ UsageTyped'
      BY <2>1, RowsParts DEF SourceTyped, FormationTyped, WorkersTyped, UsageTyped
  <2>3. ClaimIsPage'
      BY <2>1, RowsParts DEF ClaimIsPage, Token, Key
  <2>4. PageIsNext' /\ PagesAreFew'
      BY <2>1, RowsParts DEF PageIsNext, PagesAreFew
  <2>5. OneOwner' /\ DoneIsKept' /\ NothingLost' /\ CompleteIsCurrent'
      BY <2>1, RowsParts
      DEF OneOwner, DoneIsKept, NothingLost, CompleteIsCurrent, Describes, Owned
  <2> QED BY <2>2, <2>3, <2>4, <2>5, RowsJoin
<1>2. ASSUME NEW w \in Workers, Exact(w) PROVE RowsInv'
    BY <1>2, ClaimStep, AskingStep, ReleaseStep, BeginStep, SettleStep DEF Exact
<1>3. CASE Next
    BY <1>2, <1>3, ArriveStep, BeginDeletionStep, CompleteDeletionStep, InventoryStep,
       PurgeMembersStep, EventsStep, RefreshSessionsStep, ForwardStep, ReleaseStep,
       AskingStep, LeaseStep DEF Next
<1> QED BY <1>1, <1>3

\* The rows of memory formation are always in order: the inductive invariant
\* holds in every state of every behaviour of the code modelled.
THEOREM FormationRows == Spec => []RowsInv
BY InitRows, RowsStep, PTL DEF Spec

\* No two memories own the same evidence, in whichever lanes, windows and
\* replicas ensure_episode_sources_unowned let them be written.
THEOREM FormationOneOwner == Spec => []OneOwner
<1>1. RowsInv => OneOwner
    BY RowsParts
<1> QED BY <1>1, FormationRows, PTL

\* When settle_capture_formation has completed a receipt, every present piece
\* of evidence belongs to a memory or was declined by the provider.
THEOREM FormationNothingLost == Spec => []NothingLost
<1>1. RowsInv => NothingLost
    BY RowsParts
<1> QED BY <1>1, FormationRows, PTL

\* A complete receipt describes the present evidence, its owners, tombstones and
\* events, through every deletion, arrival and late settlement of a forward
\* window; only evidence a deletion is taking away page by page may differ until
\* refresh_paged_sessions.
THEOREM FormationCompleteIsCurrent == Spec => []CompleteIsCurrent
<1>1. RowsInv => CompleteIsCurrent
    BY RowsParts
<1> QED BY <1>1, FormationRows, PTL

-----------------------------------------------------------------------------
\* The provider's calls.

\* The attempts of a page are counted from one.
LEMMA KeysFacts ==
    \A k \in Keys : /\ k \in Nat \X Nat \X Nat
                    /\ k[1] \in Nat /\ k[2] \in Nat /\ k[3] \in Nat /\ k[3] >= 1
<1>1. Cardinality(Evidence) \in Nat /\ MaxFaults \in Nat /\ MaxDeletions \in Nat
    BY EvidenceFacts, FormationAssumption
<1> QED BY <1>1 DEF Keys

\* Steps that keep unbilled attempts unbilled, begin only what a worker holds
\* and hand out only what follows unbilled attempts.
LEMMA AttemptsMove ==
    ASSUME AttemptsFollow,
           \A j \in Keys : ledger[j] = "not_billed" => ledger'[j] = "not_billed",
           \A k \in Keys : ledger'[k] # "absent" =>
               \/ ledger[k] # "absent"
               \/ \E w \in Workers : worker[w].pc \in Asking /\ worker[w].page.key = k,
           \A v \in Workers : worker'[v].pc \in Asking =>
               \/ worker[v].pc \in Asking /\ worker'[v].page = worker[v].page
               \/ page' # None /\ worker'[v].page.key = Key(page)',
           page' # None =>
               \A j \in Keys : Earlier(j, Key(page)') => ledger'[j] = "not_billed"
    PROVE  AttemptsFollow'
<1>1. ASSUME NEW j \in Keys, NEW k \in Keys, Earlier(j, k), ledger'[k] # "absent"
      PROVE  ledger'[j] = "not_billed"
  <2>1. CASE ledger[k] # "absent"
      BY <1>1, <2>1 DEF AttemptsFollow
  <2>2. CASE \E w \in Workers : worker[w].pc \in Asking /\ worker[w].page.key = k
      BY <1>1, <2>2 DEF AttemptsFollow
  <2> QED BY <1>1, <2>1, <2>2
<1>2. ASSUME NEW v \in Workers, worker'[v].pc \in Asking, NEW j \in Keys,
             Earlier(j, worker'[v].page.key)
      PROVE  ledger'[j] = "not_billed"
  <2>1. CASE worker[v].pc \in Asking /\ worker'[v].page = worker[v].page
      BY <1>2, <2>1 DEF AttemptsFollow
  <2>2. CASE page' # None /\ worker'[v].page.key = Key(page)'
      BY <1>2, <2>2
  <2> QED BY <1>2, <2>1, <2>2
<1> QED BY <1>1, <1>2 DEF AttemptsFollow, Earlier

\* Steps that make at most the call their worker has recorded.
LEMMA SendingMove ==
    ASSUME SentOnRecord, UsageTyped, NEW w \in Workers,
           \A k \in Keys : ledger'[k] = "absent" => ledger[k] = "absent",
           \A v \in Workers : worker'[v].pc = "sending" =>
               worker[v].pc = "sending" /\ worker'[v].page = worker[v].page,
           \/ sent' = sent
           \/ /\ worker[w].pc = "sending" /\ worker'[w].pc # "sending"
              /\ sent' = [sent EXCEPT ![worker[w].page.key] = @ + 1]
    PROVE  SentOnRecord'
<1>1. sent \in [Keys -> Nat]
    BY DEF UsageTyped
<1>2. ASSUME NEW v \in Workers, NEW u \in Workers,
             worker'[v].pc = "sending", worker'[u].pc = "sending",
             worker'[v].page.key = worker'[u].page.key, worker'[v].page.key \in Keys
      PROVE  v = u
    BY <1>2 DEF SentOnRecord
<1>3. CASE sent' = sent
  <2>1. \A k \in Keys : sent'[k] \in 0..1 /\ (ledger'[k] = "absent" => sent'[k] = 0)
      BY <1>3 DEF SentOnRecord
  <2>2. \A v \in Workers : worker'[v].pc = "sending" =>
          \A k \in Keys : k = worker'[v].page.key => ledger'[k] # "absent" /\ sent'[k] = 0
      BY <1>3 DEF SentOnRecord
  <2> QED BY <1>2, <2>1, <2>2 DEF SentOnRecord
<1>4. CASE /\ worker[w].pc = "sending" /\ worker'[w].pc # "sending"
           /\ sent' = [sent EXCEPT ![worker[w].page.key] = @ + 1]
  <2>1. \A k \in Keys : sent'[k] = IF k = worker[w].page.key THEN sent[k] + 1 ELSE sent[k]
      BY <1>1, <1>4
  <2>2. \A k \in Keys : sent'[k] \in 0..1 /\ (ledger'[k] = "absent" => sent'[k] = 0)
      BY <1>4, <2>1 DEF SentOnRecord
  <2>3. ASSUME NEW v \in Workers, worker'[v].pc = "sending", NEW k \in Keys,
               k = worker'[v].page.key
        PROVE  ledger'[k] # "absent" /\ sent'[k] = 0
    <3>1. worker[v].pc = "sending" /\ k = worker[v].page.key
        BY <2>3
    <3>2. ledger[k] # "absent" /\ sent[k] = 0
        BY <3>1 DEF SentOnRecord
    <3>3. k # worker[w].page.key
        BY <1>4, <2>3, <3>1 DEF SentOnRecord
    <3> QED BY <2>1, <3>2, <3>3
  <2> QED BY <1>2, <2>2, <2>3 DEF SentOnRecord
<1> QED BY <1>3, <1>4

\* Steps that neither record nor make a call.
LEMMA CallsQuiet ==
    ASSUME CallsInv, RowsInv, UNCHANGED <<ledger, sent>>,
           \A v \in Workers : worker'[v].pc \in Asking =>
               \/ worker[v].pc \in Asking /\ worker'[v].page = worker[v].page
               \/ page' # None /\ worker'[v].page.key = Key(page)',
           \A v \in Workers : worker'[v].pc = "sending" =>
               worker[v].pc = "sending" /\ worker'[v].page = worker[v].page,
           \/ page' = None
           \/ page # None /\ Key(page)' = Key(page)
           \/ Key(page)'[3] = 1
    PROVE  CallsInv'
<1>1. page' # None =>
          \A j \in Keys : Earlier(j, Key(page)') => ledger'[j] = "not_billed"
  <2>1. CASE page # None /\ Key(page)' = Key(page)
      BY <2>1 DEF CallsInv, AttemptsFollow
  <2>2. CASE Key(page)'[3] = 1
      BY <2>2, KeysFacts DEF Earlier
  <2> QED BY <2>1, <2>2
<1>2. AttemptsFollow'
    BY <1>1, AttemptsMove DEF CallsInv
<1>3. SentOnRecord'
  <2>1. CASE Workers = {}
      BY <2>1 DEF CallsInv, SentOnRecord
  <2>2. CASE Workers # {}
      BY <2>2, RowsParts, SendingMove DEF CallsInv
  <2> QED BY <2>1, <2>2
<1> QED BY <1>2, <1>3 DEF CallsInv

\* Steps that leave the pages alone, or void them, and at most one worker idle.
LEMMA CallsIdle ==
    ASSUME CallsInv, RowsInv, UNCHANGED <<ledger, sent>>,
           \/ worker' = worker
           \/ \E w \in Workers : /\ worker' = [worker EXCEPT ![w] = worker'[w]]
                                 /\ worker'[w].pc \notin Asking,
           page' = None \/ (page' = page /\ rev' = rev)
    PROVE  CallsInv'
<1>1. \A v \in Workers : worker'[v].pc \in Asking => worker'[v] = worker[v]
  <2>1. worker \in [Workers -> WorkerStates]
      BY RowsParts DEF WorkersTyped
  <2> QED BY <2>1
<1>2. \A v \in Workers : worker'[v].pc = "sending" =>
          worker[v].pc = "sending" /\ worker'[v].page = worker[v].page
    BY <1>1, AskingFacts
<1>3. page' = None \/ (page # None /\ Key(page)' = Key(page))
    BY DEF Key
<1> QED BY <1>1, <1>2, <1>3, CallsQuiet

\* A worker that is moved on is the only one that changes.
LEMMA OneWorker ==
    ASSUME RowsInv, NEW w \in Workers, NEW r, worker' = [worker EXCEPT ![w] = r]
    PROVE  /\ worker'[w] = r /\ worker' = [worker EXCEPT ![w] = worker'[w]]
           /\ \A v \in Workers : v # w => worker'[v] = worker[v]
<1>1. worker \in [Workers -> WorkerStates]
    BY RowsParts DEF WorkersTyped
<1> QED BY <1>1

\* The forward lane makes no calls that are counted here.
LEMMA ForwardCalls ==
    ASSUME RowsInv, CallsInv, NEW w \in Workers, Forward(w)
    PROVE  CallsInv'
<1>1. Idle.pc \notin Asking /\ "skip" \notin Asking /\ "read" \notin Asking
      /\ "forward" \notin Asking
    BY IdleFacts, AskingFacts
<1>2. worker[w] \in WorkerStates /\ Idle \in WorkerStates
    BY RowsParts, IdleFacts DEF WorkersTyped
<1> DEFINE Left == worker' = [worker EXCEPT ![w] = worker'[w]] /\ worker'[w].pc \notin Asking
<1>4. ASSUME NEW to \in Evidence, ForwardRead(w, to) PROVE Left
  <2> DEFINE p == IF WindowEvidence(to) = {} THEN "skip" ELSE "read"
             r == [Idle EXCEPT !.from = cursor, !.to = to, !.seen = WindowEvidence(to), !.pc = p]
  <2>1. worker' = [worker EXCEPT ![w] = r]
      BY <1>4 DEF ForwardRead
  <2>2. p \notin Asking
      BY <1>1
  <2>3. r.pc = p
      BY <1>2 DEF WorkerStates
  <2> HIDE DEF r, p
  <2>4. worker'[w] = r /\ worker' = [worker EXCEPT ![w] = worker'[w]]
      BY <2>1, OneWorker
  <2> QED BY <2>2, <2>3, <2>4
<1>5. ASSUME worker' = [worker EXCEPT ![w].pc = "forward"] PROVE Left
  <2> DEFINE r == [worker[w] EXCEPT !.pc = "forward"]
  <2>1. worker' = [worker EXCEPT ![w] = r]
      BY <1>5
  <2>2. r.pc = "forward"
      BY <1>2 DEF WorkerStates
  <2> HIDE DEF r
  <2>3. worker'[w] = r /\ worker' = [worker EXCEPT ![w] = worker'[w]]
      BY <2>1, OneWorker
  <2> QED BY <1>1, <2>2, <2>3
<1>6. ASSUME worker' = [worker EXCEPT ![w] = [Idle EXCEPT !.pc = "skip", !.to = worker[w].to]]
      PROVE  Left
  <2> DEFINE r == [Idle EXCEPT !.pc = "skip", !.to = worker[w].to]
  <2>1. worker' = [worker EXCEPT ![w] = r]
      BY <1>6
  <2>2. r.pc = "skip"
      BY <1>2 DEF WorkerStates
  <2> HIDE DEF r
  <2>3. worker'[w] = r /\ worker' = [worker EXCEPT ![w] = worker'[w]]
      BY <2>1, OneWorker
  <2> QED BY <1>1, <2>2, <2>3
<1>7. ASSUME worker' = [worker EXCEPT ![w] = Idle] PROVE Left
  <2>1. worker'[w] = Idle /\ worker' = [worker EXCEPT ![w] = worker'[w]]
      BY <1>7, OneWorker
  <2> QED BY <1>1, <2>1
<1>8. UNCHANGED <<ledger, sent, page, rev>>
  <2>1. CASE SettleWindow(w)
      BY <2>1 DEF SettleWindow, ForwardSettle, formation, usage
  <2>2. CASE ~SettleWindow(w)
      BY <2>2 DEF Forward, ForwardRead, ForwardSkip, ForwardClaim, ForwardRelease,
                  formation, usage
  <2> QED BY <2>1, <2>2
<1> HIDE DEF Left
<1>9. Left
  <2>1. CASE ForwardSkip(w)
      BY <1>7, <2>1 DEF ForwardSkip
  <2>2. CASE ForwardClaim(w)
      BY <1>5, <1>7, <2>2 DEF ForwardClaim
  <2>3. ASSUME NEW drafts, NEW base, ForwardSettle(w, drafts, base)
        PROVE  Left
      BY <1>7, <2>3 DEF ForwardSettle
  <2>4. CASE ForwardRelease(w)
      BY <1>6, <1>7, <2>4 DEF ForwardRelease
  <2> QED BY <1>4, <2>1, <2>2, <2>3, <2>4 DEF Forward, SettleWindow
<1>10. worker' = [worker EXCEPT ![w] = worker'[w]] /\ worker'[w].pc \notin Asking
    BY <1>9 DEF Left
<1> QED BY <1>8, <1>10, CallsIdle

\* Arrivals, deletions, leases, the sealer, settlements and releases without a
\* new attempt.
LEMMA QuietCalls ==
    ASSUME RowsInv, CallsInv,
           \/ \E e \in Evidence : Arrive(e)
           \/ \E m \in memories, kind \in {"whole", "begun"} : BeginDeletion(m, kind)
           \/ CompleteDeletion \/ InventoryFamily \/ RefreshSessions
           \/ \E e \in Evidence : PurgeMembers(e) \/ TombstoneEvents(e) \/ PurgeEvents(e)
           \/ SealOnly \/ LeaseLapses \/ WindowLapses \/ LeaseEnds \/ WindowEnds
           \/ \E w \in Workers : \/ AuthorizeRefused(w) \/ LocalFailure(w)
                                 \/ Settle(w) \/ SettleRefused(w)
    PROVE  CallsInv'
<1>1. ASSUME NEW e \in Evidence, Arrive(e) PROVE CallsInv'
  <2>1. UNCHANGED <<ledger, sent, worker>> /\ page' = None
      BY <1>1 DEF Arrive, Revise, usage
  <2> QED BY <2>1, CallsIdle
<1>2. CASE \/ \E m \in memories, kind \in {"whole", "begun"} : BeginDeletion(m, kind)
           \/ InventoryFamily
           \/ \E e \in Evidence : PurgeMembers(e) \/ TombstoneEvents(e) \/ PurgeEvents(e)
  <2>1. UNCHANGED <<ledger, sent, worker, page, rev>>
      BY <1>2 DEF BeginDeletion, InventoryFamily, PurgeMembers, TombstoneEvents, PurgeEvents,
                  usage, formation
  <2> QED BY <2>1, CallsIdle
<1>3. CASE CompleteDeletion \/ RefreshSessions
  <2>1. UNCHANGED <<ledger, sent, worker>> /\ (page' = None \/ (page' = page /\ rev' = rev))
      BY <1>3 DEF CompleteDeletion, RefreshSessions, RefreshReceipt, Revise, usage
  <2> QED BY <2>1, CallsIdle
<1>4. CASE SealOnly \/ LeaseLapses \/ WindowLapses \/ LeaseEnds \/ WindowEnds
  <2>1. UNCHANGED <<ledger, sent, worker, page, rev>>
      BY <1>4 DEF SealOnly, LeaseLapses, WindowLapses, LeaseEnds, WindowEnds, usage, formation
  <2> QED BY <2>1, CallsIdle
<1>5. ASSUME NEW w \in Workers,
             AuthorizeRefused(w) \/ LocalFailure(w) \/ Settle(w) \/ SettleRefused(w)
      PROVE  CallsInv'
  <2>1. /\ UNCHANGED <<ledger, sent>> /\ worker' = [worker EXCEPT ![w] = Idle]
        /\ page' = None \/ (page' = page /\ rev' = rev)
      BY <1>5 DEF AuthorizeRefused, LocalFailure, Settle, SettleRefused, Release, Released, usage
  <2>2. worker' = [worker EXCEPT ![w] = worker'[w]] /\ worker'[w].pc \notin Asking
      BY <2>1, OneWorker, IdleFacts
  <2> QED BY <2>1, <2>2, CallsIdle
<1> QED BY <1>1, <1>2, <1>3, <1>4, <1>5

\* Claiming a page, recording its request, and staging its response.
LEMMA PageCalls ==
    ASSUME RowsInv, RowsInv', CallsInv, NEW w \in Workers,
           Claim(w) \/ Authorize(w) \/ TooLarge(w) \/ Stage(w)
    PROVE  CallsInv'
<1> USE RowsParts
<1>1. worker \in [Workers -> WorkerStates] /\ worker[w] \in WorkerStates
    BY DEF WorkersTyped
<1>2. page # None => page \in PageRows
    BY DEF FormationTyped
<1>3. CASE Claim(w)
  <2>1. /\ UNCHANGED <<ledger, sent, rev>> /\ receipt'.state = "processing"
        /\ receipt'.owner = w /\ page' = IF page = None THEN NewPage ELSE page
        /\ \E r : worker' = [worker EXCEPT ![w] = r] /\ r.pc # "sending"
    <3> DEFINE p == IF page = None THEN NewPage ELSE page
               q == IF p.provider = {} \/ p.staged # None THEN "settle" ELSE "claimed"
               h == [key |-> Key(p), print |-> Current, provider |-> p.provider,
                     request |-> p.request]
               a == IF p.provider = {} \/ p.staged = None THEN "none" ELSE p.staged
               r == [Idle EXCEPT !.page = h, !.pc = q, !.answer = a]
    <3>1. /\ UNCHANGED <<ledger, sent, rev>> /\ page' = p /\ worker' = [worker EXCEPT ![w] = r]
          /\ receipt' = [state |-> "processing", owner |-> w, live |-> TRUE, print |-> Current]
        BY <1>3 DEF Claim, usage
    <3>2. q # "sending"
        OBVIOUS
    <3> HIDE DEF q, h, a
    <3>3. r.pc = q
        BY IdleFacts DEF WorkerStates
    <3> HIDE DEF r
    <3> QED BY <3>1, <3>2, <3>3
  <2>2. PICK r : worker' = [worker EXCEPT ![w] = r] /\ r.pc # "sending"
      BY <2>1
  <2>3. worker'[w] = r /\ \A v \in Workers : v # w => worker'[v] = worker[v]
      BY <2>2, OneWorker
  <2>4. ClaimIsPage'
      BY DEF RowsInv
  <2>5. page' # None /\ (worker'[w].pc \in Asking => worker'[w].page.key = Key(page)')
      BY <2>1, <2>4 DEF ClaimIsPage, Token
  <2>6. (page # None /\ Key(page)' = Key(page)) \/ Key(page)'[3] = 1
    <3>1. CASE page = None
      <4>1. page'.attempt = 1
          BY <2>1, <3>1, NewPageFacts
      <4>2. Key(page)' = <<rev', page'.index, page'.attempt>>
          BY DEF Key
      <4> QED BY <4>1, <4>2
    <3>2. CASE page # None
        BY <2>1, <3>2 DEF Key
    <3> QED BY <3>1, <3>2
  <2> QED BY <2>1, <2>2, <2>3, <2>5, <2>6, CallsQuiet
<1>4. ASSUME NEW p \in {"authorized", "settle"}, NEW a, worker[w].pc \in Asking,
             worker' = [worker EXCEPT ![w] = Moved(worker[w], p, a)],
             UNCHANGED <<ledger, sent, rev>>,
             page' = page \/ (page # None /\ page'.index = page.index /\ page'.attempt = page.attempt)
      PROVE  CallsInv'
  <2> DEFINE r == Moved(worker[w], p, a)
  <2>1. r.pc = p /\ r.page = worker[w].page
      BY <1>1 DEF Moved, WorkerStates
  <2>2. worker'[w] = r /\ \A v \in Workers : v # w => worker'[v] = worker[v]
      BY <1>4, OneWorker
  <2> HIDE DEF r
  <2>3. page' = None \/ (page # None /\ Key(page)' = Key(page))
      BY <1>4 DEF Key
  <2>4. \A v \in Workers : worker'[v].pc \in Asking =>
            worker[v].pc \in Asking /\ worker'[v].page = worker[v].page
      BY <1>4, <2>1, <2>2
  <2>5. \A v \in Workers : worker'[v].pc = "sending" =>
            worker[v].pc = "sending" /\ worker'[v].page = worker[v].page
      BY <2>1, <2>2
  <2> QED BY <1>4, <2>3, <2>4, <2>5, CallsQuiet
<1>5. CASE Authorize(w)
  <2>1. worker' = [worker EXCEPT ![w] = Moved(worker[w], "authorized", worker[w].answer)]
      BY <1>5, <1>1 DEF Authorize, Moved, WorkerStates
  <2>2. worker[w].pc \in Asking /\ UNCHANGED <<ledger, sent, rev>>
      BY <1>5, AskingFacts DEF Authorize, usage
  <2>3. page # None /\ page \in PageRows
      BY <1>5 DEF Authorize, Authorized, Authoritative, Token, ClaimIsPage, FormationTyped
  <2>4. page'.index = page.index /\ page'.attempt = page.attempt
      BY <1>5, <2>3, PageRecorded DEF Authorize, SamePage
  <2> QED BY <1>4, <2>1, <2>2, <2>3, <2>4
<1>6. CASE TooLarge(w)
  <2>1. worker' = [worker EXCEPT ![w] = Moved(worker[w], "settle", "keep")]
      BY <1>6, <1>1 DEF TooLarge, Moved, WorkerStates
  <2>2. worker[w].pc \in Asking /\ UNCHANGED <<ledger, sent, rev, page>>
      BY <1>6, AskingFacts DEF TooLarge, usage, formation
  <2> QED BY <1>4, <2>1, <2>2
<1>7. CASE Stage(w)
  <2>1. /\ UNCHANGED <<ledger, sent, rev>> /\ worker[w].pc \in Asking
        /\ worker[w].answer \in Answers
      BY <1>7, AskingFacts DEF Stage, usage, WorkersTyped
  <2>2. CASE worker' = [worker EXCEPT ![w] = Idle] /\ UNCHANGED page
    <3>1. worker' = [worker EXCEPT ![w] = worker'[w]] /\ worker'[w].pc \notin Asking
        BY <2>2, OneWorker, IdleFacts
    <3> QED BY <2>1, <2>2, <3>1, CallsIdle
  <2>3. CASE /\ Token(w) /\ page' = [page EXCEPT !.staged = worker[w].answer]
             /\ worker' = [worker EXCEPT ![w].pc = "settle"]
    <3>1. worker' = [worker EXCEPT ![w] = Moved(worker[w], "settle", worker[w].answer)]
        BY <2>3, <1>1 DEF Moved, WorkerStates
    <3>2. page # None /\ page \in PageRows
        BY <2>3 DEF Token, ClaimIsPage, FormationTyped
    <3>3. page'.index = page.index /\ page'.attempt = page.attempt
        BY <2>1, <2>3, <3>2, PageStaged DEF SamePage
    <3> QED BY <1>4, <2>1, <3>1, <3>2, <3>3
  <2> QED BY <1>7, <2>2, <2>3 DEF Stage
<1> QED BY <1>3, <1>5, <1>6, <1>7

\* The next attempt of a page follows an attempt that was not billed.
LEMMA AdvanceFollows ==
    ASSUME RowsInv, AttemptsFollow, NEW w \in Workers, worker[w].pc \in Asking,
           Released(w, TRUE), rev' = rev,
           \A j \in Keys : ledger[j] = "not_billed" => ledger'[j] = "not_billed",
           \A j \in Keys : j = worker[w].page.key => ledger'[j] = "not_billed"
    PROVE  page' # None =>
               \A j \in Keys : Earlier(j, Key(page)') => ledger'[j] = "not_billed"
<1> USE RowsParts
<1>1. CASE UNCHANGED page
  <2>1. Key(page)' = Key(page)
      BY <1>1 DEF Key
  <2> QED BY <1>1, <2>1 DEF AttemptsFollow
<1>2. CASE Token(w) /\ page' = [page EXCEPT !.attempt = @ + 1, !.request = FALSE]
  <2>1. page # None /\ page \in PageRows /\ worker[w].page.key = Key(page) /\ rev \in Nat
      BY <1>2 DEF Token, ClaimIsPage, FormationTyped
  <2>2. page'.index = page.index /\ page'.attempt = page.attempt + 1
      BY <1>2, <2>1, PageAdvanced DEF SamePage
  <2>3. page.index \in Nat /\ page.attempt \in Nat
      BY <2>1, PageFacts
  <2>4. /\ Key(page)' = <<rev, page.index, page.attempt + 1>>
        /\ Key(page) = <<rev, page.index, page.attempt>>
      BY <2>2 DEF Key
  <2>5. ASSUME NEW j \in Keys, Earlier(j, Key(page)') PROVE ledger'[j] = "not_billed"
    <3>1. /\ j \in Nat \X Nat \X Nat /\ j[3] \in Nat
          /\ j[1] = rev /\ j[2] = page.index /\ j[3] < page.attempt + 1
        BY <2>4, <2>5, KeysFacts DEF Earlier
    <3>2. CASE j[3] = page.attempt
      <4>1. j = <<j[1], j[2], j[3]>>
          BY <3>1
      <4>2. j = Key(page)
          BY <2>4, <3>1, <3>2, <4>1
      <4> QED BY <2>1, <4>2
    <3>3. CASE j[3] # page.attempt
      <4>1. j[3] < page.attempt
          BY <2>3, <3>1, <3>3
      <4>2. Earlier(j, Key(page))
          BY <2>4, <3>1, <4>1 DEF Earlier
      <4> QED BY <2>1, <4>2 DEF AttemptsFollow
    <3> QED BY <3>2, <3>3
  <2> QED BY <2>5
<1> QED BY <1>1, <1>2 DEF Released

\* The attempt's row is written, or read, before the call.
LEMMA BeginCalls ==
    ASSUME RowsInv, CallsInv, NEW w \in Workers, Begin(w)
    PROVE  CallsInv'
<1> USE RowsParts
<1> DEFINE k == worker[w].page.key
<1>1. /\ worker \in [Workers -> WorkerStates] /\ worker[w] \in WorkerStates
      /\ ledger \in [Keys -> UsageStates] /\ sent \in [Keys -> Nat]
    BY DEF WorkersTyped, UsageTyped
<1>2. worker[w].pc = "authorized" /\ worker[w].pc \in Asking
    BY AskingFacts DEF Begin
<1>3. CASE /\ ledger[k] = "absent"
           /\ ledger' = [ledger EXCEPT ![k] = "started"]
           /\ worker' = [worker EXCEPT ![w].pc = "sending"]
           /\ UNCHANGED <<source, window, formation, erasure, sent, bounds>>
  <2>1. page' = page /\ rev' = rev /\ sent' = sent
      BY <1>3 DEF formation
  <2>2. /\ worker'[w].pc = "sending" /\ worker'[w].page = worker[w].page
        /\ \A v \in Workers : v # w => worker'[v] = worker[v]
      BY <1>1, <1>3 DEF WorkerStates
  <2>3. \A j \in Keys : ledger'[j] = IF j = k THEN "started" ELSE ledger[j]
      BY <1>1, <1>3
  <2> HIDE DEF k
  <2>4. \A j \in Keys : ledger[j] = "not_billed" => ledger'[j] = "not_billed"
      BY <1>3, <2>3
  <2>5. AttemptsFollow'
    <3>1. \A j \in Keys : ledger'[j] # "absent" =>
            \/ ledger[j] # "absent"
            \/ \E v \in Workers : worker[v].pc \in Asking /\ worker[v].page.key = j
        BY <1>2, <2>3 DEF k
    <3>2. \A v \in Workers : worker'[v].pc \in Asking =>
            worker[v].pc \in Asking /\ worker'[v].page = worker[v].page
        BY <1>2, <2>2
    <3>3. page' # None =>
            \A j \in Keys : Earlier(j, Key(page)') => ledger'[j] = "not_billed"
      <4>1. Key(page)' = Key(page)
          BY <2>1 DEF Key
      <4> QED BY <2>1, <2>4, <4>1 DEF CallsInv, AttemptsFollow
    <3> QED BY <2>4, <3>1, <3>2, <3>3, AttemptsMove DEF CallsInv
  <2>6. SentOnRecord'
    <3>1. \A j \in Keys : sent'[j] \in 0..1 /\ (ledger'[j] = "absent" => sent'[j] = 0)
        BY <2>1, <2>3 DEF CallsInv, SentOnRecord
    <3>2. ASSUME NEW v \in Workers, worker'[v].pc = "sending", NEW j \in Keys,
                 j = worker'[v].page.key
          PROVE  ledger'[j] # "absent" /\ sent'[j] = 0 /\ (j = k => v = w)
      <4>1. CASE v = w
          BY <1>3, <2>1, <2>2, <2>3, <3>2, <4>1 DEF CallsInv, SentOnRecord, k
      <4>2. CASE v # w
        <5>1. worker[v].pc = "sending" /\ j = worker[v].page.key
            BY <2>2, <3>2, <4>2
        <5>2. ledger[j] # "absent" /\ sent[j] = 0
            BY <5>1 DEF CallsInv, SentOnRecord
        <5> QED BY <1>3, <2>1, <2>3, <5>2
      <4> QED BY <4>1, <4>2
    <3>3. ASSUME NEW v \in Workers, NEW u \in Workers,
                 worker'[v].pc = "sending", worker'[u].pc = "sending",
                 worker'[v].page.key = worker'[u].page.key, worker'[v].page.key \in Keys
          PROVE  v = u
      <4>1. CASE worker'[v].page.key = k
          BY <3>2, <3>3, <4>1
      <4>2. CASE worker'[v].page.key # k
        <5>1. v # w /\ u # w
            BY <2>2, <3>3, <4>2 DEF k
        <5> QED BY <2>2, <3>3, <5>1 DEF CallsInv, SentOnRecord
      <4> QED BY <4>1, <4>2
    <3> QED BY <3>1, <3>2, <3>3 DEF SentOnRecord
  <2> QED BY <2>5, <2>6 DEF CallsInv
<1>4. CASE /\ ledger[k] \in {"started", "metered", "ambiguous"}
           /\ ledger' = [ledger EXCEPT ![k] = IF @ = "started" THEN "ambiguous" ELSE @]
           /\ worker' = [worker EXCEPT ![w].pc = "settle", ![w].answer = "keep"]
           /\ UNCHANGED <<source, window, formation, erasure, sent, bounds>>
  <2>1. page' = page /\ rev' = rev /\ sent' = sent
      BY <1>4 DEF formation
  <2>2. /\ worker'[w].pc = "settle" /\ worker'[w].page = worker[w].page
        /\ \A v \in Workers : v # w => worker'[v] = worker[v]
      BY <1>1, <1>4 DEF WorkerStates
  <2>3. \A j \in Keys : /\ ledger[j] = "not_billed" => ledger'[j] = "not_billed"
                        /\ ledger'[j] = "absent" <=> ledger[j] = "absent"
      BY <1>1, <1>4
  <2> HIDE DEF k
  <2>4. AttemptsFollow'
    <3>1. \A v \in Workers : worker'[v].pc \in Asking =>
            worker[v].pc \in Asking /\ worker'[v].page = worker[v].page
        BY <1>2, <2>2
    <3>2. page' # None =>
            \A j \in Keys : Earlier(j, Key(page)') => ledger'[j] = "not_billed"
      <4>1. Key(page)' = Key(page)
          BY <2>1 DEF Key
      <4> QED BY <2>1, <2>3, <4>1 DEF CallsInv, AttemptsFollow
    <3> QED BY <2>3, <3>1, <3>2, AttemptsMove DEF CallsInv
  <2>5. SentOnRecord'
    <3>1. \A v \in Workers : worker'[v].pc = "sending" =>
            worker[v].pc = "sending" /\ worker'[v].page = worker[v].page
        BY <2>2
    <3> QED BY <2>1, <2>3, <3>1, SendingMove DEF CallsInv
  <2> QED BY <2>4, <2>5 DEF CallsInv
<1>5. CASE ledger[k] = "not_billed" /\ Release(w, TRUE)
  <2>1. /\ Released(w, TRUE) /\ UNCHANGED <<ledger, sent, rev>>
        /\ worker' = [worker EXCEPT ![w] = Idle]
      BY <1>5 DEF Release, Released, usage
  <2>2. worker'[w] = Idle /\ \A v \in Workers : v # w => worker'[v] = worker[v]
      BY <2>1, OneWorker
  <2>3. \A v \in Workers : worker'[v].pc \in Asking \cup {"sending"} =>
            v # w /\ worker'[v] = worker[v]
      BY <2>2, IdleFacts
  <2>4. \A j \in Keys : j = worker[w].page.key => ledger'[j] = "not_billed"
      BY <1>5, <2>1
  <2>5. page' # None =>
            \A j \in Keys : Earlier(j, Key(page)') => ledger'[j] = "not_billed"
      BY <1>2, <2>1, <2>4, AdvanceFollows DEF CallsInv
  <2>6. AttemptsFollow'
    <3>1. \A j \in Keys : /\ ledger[j] = "not_billed" => ledger'[j] = "not_billed"
                          /\ ledger'[j] # "absent" => ledger[j] # "absent"
        BY <2>1
    <3>2. \A v \in Workers : worker'[v].pc \in Asking =>
            worker[v].pc \in Asking /\ worker'[v].page = worker[v].page
        BY <2>3
    <3> HIDE DEF k
    <3> QED BY <2>5, <3>1, <3>2, AttemptsMove DEF CallsInv
  <2>7. SentOnRecord'
    <3>1. \A v \in Workers : worker'[v].pc = "sending" =>
            worker[v].pc = "sending" /\ worker'[v].page = worker[v].page
        BY <2>3
    <3> QED BY <2>1, <3>1, SendingMove DEF CallsInv
  <2> QED BY <2>6, <2>7 DEF CallsInv
<1> QED BY <1>3, <1>4, <1>5 DEF Begin

\* The call, its record, and a worker that disappears during it.
LEMMA SendCalls ==
    ASSUME RowsInv, CallsInv, NEW w \in Workers,
           \/ \E answer \in Answers : Answered(w, answer)
           \/ NotBilled(w) \/ Ambiguous(w) \/ Crash(w)
    PROVE  CallsInv'
<1> USE RowsParts
<1> DEFINE k == worker[w].page.key
<1>1. /\ worker \in [Workers -> WorkerStates] /\ worker[w] \in WorkerStates
      /\ ledger \in [Keys -> UsageStates] /\ sent \in [Keys -> Nat]
    BY DEF WorkersTyped, UsageTyped
<1>2. \/ sent' = sent
      \/ worker[w].pc = "sending" /\ sent' = [sent EXCEPT ![k] = @ + 1]
    BY DEF Answered, NotBilled, Ambiguous, Crash
<1>3. \A j \in Keys : /\ ledger[j] = "not_billed" => ledger'[j] = "not_billed"
                      /\ ledger'[j] = "absent" <=> ledger[j] = "absent"
  <2>1. ASSUME NEW s \in {"metered", "not_billed", "ambiguous"}, NEW i, Record(i, s)
        PROVE  \A j \in Keys : /\ ledger[j] = "not_billed" => ledger'[j] = "not_billed"
                               /\ ledger'[j] = "absent" <=> ledger[j] = "absent"
    <3>1. ledger' = [ledger EXCEPT ![i] = IF @ = "started" THEN s ELSE @]
        BY <2>1 DEF Record
    <3> QED BY <1>1, <3>1
  <2>2. CASE \E answer \in Answers : Answered(w, answer)
      BY <2>1, <2>2 DEF Answered
  <2>3. CASE NotBilled(w)
      BY <2>1, <2>3 DEF NotBilled
  <2>4. CASE Ambiguous(w)
      BY <2>1, <2>4 DEF Ambiguous
  <2>5. CASE Crash(w)
      BY <2>5 DEF Crash
  <2> QED BY <2>2, <2>3, <2>4, <2>5
<1>4. /\ worker'[w].pc # "sending"
      /\ worker'[w].pc \in Asking => worker[w].pc \in Asking /\ worker'[w].page = worker[w].page
      /\ \A v \in Workers : v # w => worker'[v] = worker[v]
  <2>1. CASE worker' = [worker EXCEPT ![w] = Idle]
      BY <2>1, OneWorker, IdleFacts
  <2>2. ASSUME NEW answer \in Answers, Answered(w, answer)
        PROVE  /\ worker'[w].pc \in {"answered", "settle"} /\ worker'[w].page = worker[w].page
               /\ \A v \in Workers : v # w => worker'[v] = worker[v]
      BY <1>1, <2>2 DEF Answered, WorkerStates
  <2>3. ASSUME Ambiguous(w)
        PROVE  /\ worker'[w].pc = "settle" /\ worker'[w].page = worker[w].page
               /\ \A v \in Workers : v # w => worker'[v] = worker[v]
      BY <1>1, <2>3 DEF Ambiguous, WorkerStates
  <2>4. ASSUME \/ \E answer \in Answers : Answered(w, answer)
               \/ Ambiguous(w)
        PROVE  worker[w].pc \in Asking
      BY <2>4, AskingFacts DEF Answered, Ambiguous
  <2>5. CASE NotBilled(w) \/ Crash(w)
      BY <2>1, <2>5 DEF NotBilled, Released, Crash
  <2> QED BY <2>2, <2>3, <2>4, <2>5
<1>5. page' # None =>
          \A j \in Keys : Earlier(j, Key(page)') => ledger'[j] = "not_billed"
  <2>1. CASE page' = page /\ rev' = rev
    <3>1. Key(page)' = Key(page)
        BY <2>1 DEF Key
    <3> QED BY <1>3, <2>1, <3>1 DEF CallsInv, AttemptsFollow
  <2>2. CASE NotBilled(w)
    <3>1. /\ worker[w].pc \in Asking /\ Released(w, TRUE) /\ rev' = rev
          /\ ledger[k] = "started" /\ Record(k, "not_billed")
        BY <2>2, AskingFacts DEF NotBilled
    <3>2. \A j \in Keys : j = worker[w].page.key => ledger'[j] = "not_billed"
        BY <1>1, <3>1 DEF Record
    <3> QED BY <1>3, <3>1, <3>2, AdvanceFollows DEF CallsInv
  <2> QED BY <2>1, <2>2 DEF Answered, Ambiguous, Crash, formation
<1>6. AttemptsFollow'
  <2>1. \A v \in Workers : worker'[v].pc \in Asking =>
          worker[v].pc \in Asking /\ worker'[v].page = worker[v].page
      BY <1>4
  <2> HIDE DEF k
  <2> QED BY <1>3, <1>5, <2>1, AttemptsMove DEF CallsInv
<1>7. SentOnRecord'
  <2>1. \A v \in Workers : worker'[v].pc = "sending" =>
          worker[v].pc = "sending" /\ worker'[v].page = worker[v].page
      BY <1>4
  <2> QED BY <1>2, <1>3, <1>4, <2>1, SendingMove DEF CallsInv
<1> QED BY <1>6, <1>7 DEF CallsInv

\* Nothing is recorded or sent in the first state.
LEMMA InitCalls == Init => CallsInv
<1> SUFFICES ASSUME Init PROVE CallsInv
    OBVIOUS
<1>1. /\ \A k \in Keys : ledger[k] = "absent" /\ sent[k] = 0
      /\ \A w \in Workers : worker[w] = Idle
      /\ page = None
    BY DEF Init
<1>2. AttemptsFollow
    BY <1>1, IdleFacts DEF AttemptsFollow
<1>3. SentOnRecord
    BY <1>1, IdleFacts DEF SentOnRecord
<1> QED BY <1>2, <1>3 DEF CallsInv

\* Every step keeps the record of the calls.
LEMMA CallsStep == RowsInv /\ RowsInv' /\ CallsInv /\ [Next]_vars => CallsInv'
<1> SUFFICES ASSUME RowsInv, RowsInv', CallsInv, [Next]_vars PROVE CallsInv'
    OBVIOUS
<1>1. CASE UNCHANGED vars
  <2>1. UNCHANGED <<ledger, sent, worker, page, rev>>
      BY <1>1 DEF vars, formation, usage
  <2> QED BY <2>1, CallsIdle
<1>2. ASSUME NEW w \in Workers, Exact(w) PROVE CallsInv'
    BY <1>2, PageCalls, QuietCalls, BeginCalls, SendCalls DEF Exact
<1>3. CASE Next
    BY <1>2, <1>3, QuietCalls, ForwardCalls, PageCalls, SendCalls DEF Next
<1> QED BY <1>1, <1>3

\* The usage ledger and the calls agree: an attempt follows only unbilled ones,
\* and is on record before begin_invocation_attempt lets it be sent.
THEOREM FormationCalls == Spec => []CallsInv
<1>1. RowsInv /\ RowsInv' /\ CallsInv /\ [Next]_vars => CallsInv'
    BY CallsStep
<1> QED BY <1>1, InitCalls, FormationRows, PTL DEF Spec

\* No attempt is sent twice, and of the attempts of one page all but one were
\* recorded as unbilled, for every number of crashes, lapsed leases and
\* re-entries of begin_invocation_attempt.
THEOREM FormationPaidOnce == Spec => []PaidOnce
<1>1. CallsInv => PaidOnce
  <2> SUFFICES ASSUME CallsInv PROVE PaidOnce
      OBVIOUS
  <2>1. \A k \in Keys : sent[k] \in 0..1 /\ (ledger[k] = "absent" => sent[k] = 0)
      BY DEF CallsInv, SentOnRecord
  <2>2. ASSUME NEW j \in Keys, NEW k \in Keys, j[1] = k[1], j[2] = k[2], j # k,
               sent[j] = 1, sent[k] = 1
        PROVE  "not_billed" \in {ledger[j], ledger[k]}
    <3>1. j = <<j[1], j[2], j[3]>> /\ k = <<k[1], k[2], k[3]>> /\ j[3] \in Nat /\ k[3] \in Nat
      <4>1. j \in Nat \X Nat \X Nat /\ k \in Nat \X Nat \X Nat
          BY KeysFacts
      <4> QED BY <4>1
    <3>2. j[3] # k[3]
        BY <2>2, <3>1
    <3>3. Earlier(j, k) \/ Earlier(k, j)
        BY <2>2, <3>1, <3>2 DEF Earlier
    <3>4. ledger[j] # "absent" /\ ledger[k] # "absent"
        BY <2>1, <2>2
    <3> QED BY <3>3, <3>4 DEF CallsInv, AttemptsFollow
  <2> QED BY <2>1, <2>2 DEF PaidOnce
<1> QED BY <1>1, FormationCalls, PTL

\* Every row keeps its type, and the claim of a receipt is the claim of a page.
THEOREM FormationTypeOK == Spec => []TypeOK
<1>1. RowsInv /\ CallsInv => TypeOK
  <2> SUFFICES ASSUME RowsInv, CallsInv PROVE TypeOK
      OBVIOUS
  <2> USE RowsParts
  <2>1. pages \in 0..Cardinality(Evidence)
      BY EvidenceFacts DEF FormationTyped, PagesAreFew
  <2>2. window.owner \in Workers \cup {None}
      BY DEF WorkersTyped, WindowRows
  <2>3. receipt.state \in ReceiptStates
      BY ReceiptFacts DEF FormationTyped
  <2>4. \A w \in Workers : worker[w].pc \in PCs
      BY WorkerFacts DEF WorkersTyped
  <2>5. \A k \in Keys : sent[k] \in 0..2
      BY DEF CallsInv, SentOnRecord
  <2>6. /\ (receipt.state = "processing") = (receipt.owner # None)
        /\ receipt.live \/ receipt.state = "processing" => page # None
      BY DEF ClaimIsPage
  <2>7. /\ present \subseteq arrived /\ arrived \subseteq Evidence
        /\ memories \subseteq SUBSET Evidence
        /\ cursor \in 0..Cardinality(Evidence)
        /\ done \subseteq arrived
        /\ mode \in {"none", "whole", "begun", "paged"} /\ (mode = "none" => doomed = {})
        /\ tombed \subseteq arrived /\ purged \subseteq tombed
      BY DEF SourceTyped, FormationTyped
  <2>8. doomed \cap present \in memories \cup {{}}
    <3>1. CASE mode \in {"whole", "begun"}
      <4>1. doomed \cap present = doomed
          BY <3>1 DEF SourceTyped
      <4> QED BY <3>1, <4>1 DEF SourceTyped
    <3>2. CASE mode = "none"
        BY <3>2, <2>7
    <3>3. CASE mode = "paged"
        BY <3>3 DEF SourceTyped
    <3> QED BY <2>7, <3>1, <3>2, <3>3
  <2> QED BY <2>1, <2>2, <2>3, <2>4, <2>5, <2>6, <2>7, <2>8 DEF TypeOK
<1> QED BY <1>1, FormationRows, FormationCalls, PTL
=============================================================================
