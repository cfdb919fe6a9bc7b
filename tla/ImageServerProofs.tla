-------------------------- MODULE ImageServerProofs --------------------------
(***************************************************************************)
(* Theorems of ImageServer, for any number of calls, names and bounds.     *)
(***************************************************************************)
EXTENDS ImageServer, FiniteSetTheorems, TLAPS

LEMMA Numbers ==
    /\ API_ATTEMPT_TIMEOUT \in Nat /\ OPERATION_DEADLINE \in Nat
    /\ MAX_API_ATTEMPTS \in Nat \ {0} /\ MAX_COLLISION_SUFFIX \in Nat \ {0}
    /\ MaxFaults \in Nat /\ MaxKills \in Nat
    /\ \A t \in Readings : t \in Nat
BY ImageAssumption

LEMMA MinOfTwo ==
    ASSUME NEW m \in Int, NEW n \in Int
    PROVE  Min({m, n}) \in {m, n} /\ Min({m, n}) <= m /\ Min({m, n}) <= n
<1>1. \E x \in {m, n} : \A y \in {m, n} : x =< y
    <2>1. CASE m <= n BY <2>1
    <2>2. CASE n <= m BY <2>2
    <2> QED BY <2>1, <2>2
<1> DEFINE x == CHOOSE x \in {m, n} : \A y \in {m, n} : x =< y
<1>2. x \in {m, n} /\ \A y \in {m, n} : x =< y
    BY <1>1
<1>3. Min({m, n}) = x
    BY DEF Min
<1> QED
    BY <1>2, <1>3

\* The wait for a retry is a time.
LEMMA DelayType == ASSUME NEW t \in Delays PROVE t \in Nat
<1>1. CASE t \in Backoffs
    BY <1>1, RequestAssumption
<1>2. CASE t \notin Backoffs
    <2>1. PICK h \in RetryAfters : h >= 0 /\ t = Min({h, MAX_RETRY_AFTER})
        BY <1>2 DEF Delays
    <2>2. h \in Nat /\ MAX_RETRY_AFTER \in Nat
        BY <2>1, RequestAssumption
    <2>3. h \in Int /\ MAX_RETRY_AFTER \in Int
        BY <2>2
    <2>4. Min({h, MAX_RETRY_AFTER}) \in {h, MAX_RETRY_AFTER}
        BY <2>3, MinOfTwo
    <2> QED BY <2>1, <2>2, <2>4
<1> QED BY <1>1, <1>2

\* The attempt in flight ends by its own limit and by the deadline.
LEMMA TimeoutType ==
    ASSUME NEW spent \in Nat, spent < OPERATION_DEADLINE
    PROVE  /\ AttemptTimeout(spent) \in 0 .. API_ATTEMPT_TIMEOUT
           /\ AttemptTimeout(spent) <= OPERATION_DEADLINE - spent
<1>1. OPERATION_DEADLINE - spent \in Nat
    BY Numbers
<1>2. AttemptTimeout(spent) \in {API_ATTEMPT_TIMEOUT, OPERATION_DEADLINE - spent}
      /\ AttemptTimeout(spent) <= API_ATTEMPT_TIMEOUT
      /\ AttemptTimeout(spent) <= OPERATION_DEADLINE - spent
    BY <1>1, Numbers, MinOfTwo DEF AttemptTimeout
<1> QED
    BY <1>1, <1>2, Numbers

LEMMA TargetType ==
    ASSUME NEW c \in Calls, NEW k \in Attempts
    PROVE  CandidateName(Base[c], k) \in Names
BY DEF Names

\* Names are sequences and files are records; None is neither.
LEMMA FileIsThere ==
    ASSUME NEW c \in Calls, NEW i \in Nat, NEW whole \in BOOLEAN
    PROVE  File(c, i, whole) # None
BY ImageAssumption DEF File

------------------------------------------------------------------------------
(* Types. *)

CallsOK ==
    /\ DOMAIN call = Calls
    /\ \A c \in Calls :
         /\ call[c] \in CallRecord(c)
         /\ call[c].pc \in Publishing => call[c].image \in call[c].todo
         /\ call[c].pc \in {"write", "link", "create", "fill"} => call[c].suffix \in Attempts

\* One call goes on to a record of the right type.
LEMMA CallStep ==
    ASSUME CallsOK, NEW c \in Calls, NEW r \in CallRecord(c),
           r.pc \in Publishing => r.image \in r.todo,
           r.pc \in {"write", "link", "create", "fill"} => r.suffix \in Attempts,
           call' = [call EXCEPT ![c] = r]
    PROVE  CallsOK' /\ call'[c] = r
BY DEF CallsOK, CallRecord

\* Going to another place, with the locals as they are.
LEMMA GotoStep ==
    ASSUME CallsOK, NEW c \in Calls, NEW pc \in Places, Goto(c, pc),
           pc \in Publishing => call[c].image \in call[c].todo,
           pc \in {"write", "link", "create", "fill"} => call[c].suffix \in Attempts
    PROVE  CallsOK' /\ call'[c].pc = pc
<1> DEFINE r == [call[c] EXCEPT !.pc = pc]
<1>0. call[c] \in CallRecord(c)
    BY DEF CallsOK
<1>1. /\ r \in CallRecord(c) /\ r.pc = pc
      /\ r.image = call[c].image /\ r.todo = call[c].todo /\ r.suffix = call[c].suffix
    BY <1>0 DEF CallRecord
<1>2. call' = [call EXCEPT ![c] = r]
    BY DEF Goto
<1> HIDE DEF r
<1> QED
    BY <1>1, <1>2, CallStep

LEMMA OffBudgetType ==
    ASSUME NEW c \in Calls, NEW q \in CallRecord(c), NEW pc \in Places
    PROVE  /\ [q EXCEPT !.spent = 0, !.timeout = 0, !.pc = pc] \in CallRecord(c)
           /\ [q EXCEPT !.spent = 0, !.timeout = 0, !.pc = pc].pc = pc
<1>1. 0 \in 0 .. API_ATTEMPT_TIMEOUT /\ 0 \in Nat
    BY Numbers
<1>2. [q EXCEPT !.spent = 0, !.timeout = 0, !.pc = pc] \in CallRecord(c)
    BY <1>1 DEF CallRecord
<1>3. [q EXCEPT !.spent = 0, !.timeout = 0, !.pc = pc].pc = pc
    BY DEF CallRecord
<1> QED
    BY <1>2, <1>3

LEMMA OffBudgetStep ==
    ASSUME CallsOK, NEW c \in Calls, NEW pc \in {"refused", "killed"},
           call' = OffBudget(c, pc)
    PROVE  CallsOK' /\ call'[c].pc = pc
<1>1. pc \in Places /\ pc \notin Publishing
    BY DEF Places, Publishing
<1> DEFINE q == call[c]
           r == [q EXCEPT !.spent = 0, !.timeout = 0, !.pc = pc]
<1>0. q \in CallRecord(c)
    BY DEF CallsOK
<1>4. call' = [call EXCEPT ![c] = r]
    BY DEF OffBudget
<1> HIDE DEF q
<1>2. r \in CallRecord(c) /\ r.pc = pc
    BY <1>0, <1>1, OffBudgetType
<1>3. r.pc \notin Publishing /\ r.pc \notin {"write", "link", "create", "fill"}
    BY <1>1, <1>2
<1> HIDE DEF r
<1> QED
    BY <1>2, <1>3, <1>4, CallStep

RestOK ==
    /\ requests \in [Calls -> Seq(Fates)]
    /\ error \in [Calls -> ERROR_CODES \cup {None}]
    /\ DOMAIN disk = Names
    /\ \A n \in Names : disk[n] \in {None, TheUsers}
         \/ disk[n] \in UNION {[by : {c}, image : Images(c), whole : BOOLEAN] : c \in Calls}
    /\ stuck \subseteq UNION {{c} \X Images(c) : c \in Calls}
    /\ temps \subseteq UNION {{c} \X Images(c) : c \in Calls}
    /\ faults \in 0 .. MaxFaults /\ kills \in 0 .. MaxKills

LEMMA TypeOKParts == TypeOK <=> CallsOK /\ RestOK
BY DEF TypeOK, CallsOK, RestOK

\* After an error answer the call goes on to another attempt or ends.
LEMMA RetryOrEnd ==
    ASSUME NEW c \in Calls, ErrorResponse(c)
    PROVE  \E d \in 0 .. call[c].timeout, delay \in Delays, retryable \in BOOLEAN :
             call' = IF retryable /\ CanRetry(c, call[c].spent + d, delay)
                     THEN [call EXCEPT ![c].spent = call[c].spent + d + delay, ![c].timeout = 0,
                                       ![c].attempt = @ + 1, ![c].pc = "attempt"]
                     ELSE OffBudget(c, "refused")
<1>1. PICK d \in 0 .. call[c].timeout, delay \in Delays, status \in Statuses :
        LET again == Retryable(status) /\ CanRetry(c, call[c].spent + d, delay)
        IN  /\ again => call' = [call EXCEPT ![c].spent = call[c].spent + d + delay,
                                   ![c].timeout = 0, ![c].attempt = @ + 1, ![c].pc = "attempt"]
            /\ ~again => call' = OffBudget(c, "refused")
    BY ZenonT(60) DEF ErrorResponse, Refuse
<1>2. Retryable(status) \in BOOLEAN
    BY DEF Retryable
<1> QED
    BY <1>1, <1>2

\* The answer with images is the end of the requests.
LEMMA ReceiveStep ==
    ASSUME CallsOK, NEW c \in Calls, Receive(c)
    PROVE  CallsOK' /\ call'[c].pc \in {"temp", "refused"}
<1>a. call[c] \in CallRecord(c)
    BY DEF CallsOK
<1>0. PICK n \in 0 .. Wanted[c] : \E good \in SUBSET (1 .. n) :
        call' = [OffBudget(c, IF good = {} THEN "refused" ELSE "temp") EXCEPT
                   ![c].received = 1 .. n, ![c].todo = good,
                   ![c].failed = (1 .. n) \ good]
    BY DEF Receive, Decodable
<1>1. PICK good \in SUBSET (1 .. n) :
        call' = [OffBudget(c, IF good = {} THEN "refused" ELSE "temp") EXCEPT
                   ![c].received = 1 .. n, ![c].todo = good,
                   ![c].failed = (1 .. n) \ good]
    BY <1>0
<1> DEFINE q == call[c]
           pc == IF good = {} THEN "refused" ELSE "temp"
           b == [q EXCEPT !.spent = 0, !.timeout = 0, !.pc = pc]
           r == [b EXCEPT !.received = 1 .. n, !.todo = good, !.failed = (1 .. n) \ good]
<1>2. pc \in Places /\ pc \notin Publishing /\ pc \in {"temp", "refused"}
    BY DEF Places, Publishing
<1>3. b \in CallRecord(c) /\ b.pc = pc
    BY <1>a, <1>2, OffBudgetType
<1>4. 1 .. n \in SUBSET Images(c) /\ good \in SUBSET Images(c)
      /\ (1 .. n) \ good \in SUBSET Images(c)
    BY ImageAssumption DEF Images
<1>5. call' = [call EXCEPT ![c] = r]
    BY <1>1 DEF OffBudget, CallsOK
<1> HIDE DEF b
<1>6. r \in CallRecord(c)
    BY <1>3, <1>4 DEF CallRecord
<1>7. r.pc = pc
    BY <1>3 DEF CallRecord
<1> HIDE DEF r, pc
<1> QED BY <1>2, <1>5, <1>6, <1>7, CallStep DEF Publishing

\* The steps up to the last answer keep the types of the calls.
LEMMA RequestTypes ==
    ASSUME CallsOK, NEW c \in Calls,
           Check(c) \/ Attempt(c) \/ AttemptRefused(c) \/ Receive(c)
             \/ ErrorResponse(c) \/ NoResponse(c)
    PROVE  CallsOK'
<1> DEFINE q == call[c]
<1>0. q \in CallRecord(c)
    BY DEF CallsOK
<1>1. ASSUME NEW t \in Nat, call' = [call EXCEPT ![c].spent = t, ![c].pc = "attempt"]
      PROVE  CallsOK'
    <2> DEFINE r == [q EXCEPT !.spent = t, !.pc = "attempt"]
    <2>1. "attempt" \in Places /\ "attempt" \notin Publishing
        BY DEF Places, Publishing, Requesting
    <2>2. r \in CallRecord(c)
        BY <1>0, <2>1 DEF CallRecord
    <2>3. r.pc = "attempt"
        BY <1>0 DEF CallRecord
    <2>4. call' = [call EXCEPT ![c] = r]
        BY <1>1
    <2> HIDE DEF r
    <2> QED BY <2>1, <2>2, <2>3, <2>4, CallStep
<1>2. CASE Check(c)
    <2>1. ReadingTime(c) \subseteq Nat
        BY Numbers DEF ReadingTime
    <2> QED BY <1>1, <1>2, <2>1, OffBudgetStep DEF Check, Refuse
<1>3. CASE Attempt(c)
    <2>1. PICK t \in ReadingTime(c) :
            call' = [call EXCEPT ![c].timeout = AttemptTimeout(q.spent),
                                 ![c].spent = @ + t, ![c].pc = "waiting"]
        BY <1>3 DEF Attempt
    <2> DEFINE r == [q EXCEPT !.timeout = AttemptTimeout(q.spent),
                              !.spent = q.spent + t, !.pc = "waiting"]
    <2>2. q.spent \in Nat /\ q.spent < OPERATION_DEADLINE
        BY <1>0, <1>3 DEF Attempt, CallRecord
    <2>3. AttemptTimeout(q.spent) \in 0 .. API_ATTEMPT_TIMEOUT
        BY <2>2, TimeoutType
    <2>4. q.spent + t \in Nat
        BY <2>2, Numbers DEF ReadingTime
    <2>5. "waiting" \in Places /\ "waiting" \notin Publishing
        BY DEF Places, Publishing, Requesting
    <2>6. r \in CallRecord(c)
        BY <1>0, <2>3, <2>4, <2>5 DEF CallRecord
    <2>7. r.pc = "waiting"
        BY <1>0 DEF CallRecord
    <2>8. call' = [call EXCEPT ![c] = r]
        BY <2>1
    <2> HIDE DEF r
    <2> QED BY <2>5, <2>6, <2>7, <2>8, CallStep
<1>4. CASE AttemptRefused(c)
    BY <1>4, OffBudgetStep DEF AttemptRefused, Refuse
<1>5. CASE Receive(c)
    BY <1>5, ReceiveStep
<1>6. CASE ErrorResponse(c)
    <2>1. PICK d \in 0 .. q.timeout, delay \in Delays, retryable \in BOOLEAN :
            call' = IF retryable /\ CanRetry(c, q.spent + d, delay)
                    THEN [call EXCEPT ![c].spent = q.spent + d + delay, ![c].timeout = 0,
                                      ![c].attempt = @ + 1, ![c].pc = "attempt"]
                    ELSE OffBudget(c, "refused")
        BY <1>6, RetryOrEnd
    <2>2. CASE ~(retryable /\ CanRetry(c, q.spent + d, delay))
        BY <2>1, <2>2, OffBudgetStep
    <2>3. CASE CanRetry(c, q.spent + d, delay) /\ retryable
        <3> DEFINE r == [q EXCEPT !.spent = q.spent + d + delay, !.timeout = 0,
                                  !.attempt = q.attempt + 1, !.pc = "attempt"]
        <3>1. "attempt" \in Places /\ "attempt" \notin Publishing
            BY DEF Places, Publishing, Requesting
        <3>2. q.spent + d + delay \in Nat /\ 0 \in 0 .. API_ATTEMPT_TIMEOUT
            BY <1>0, DelayType, Numbers DEF CallRecord
        <3>3. q.attempt + 1 \in 1 .. MAX_API_ATTEMPTS
            BY <1>0, <2>3, Numbers DEF CallRecord, CanRetry
        <3>4. r \in CallRecord(c)
            BY <1>0, <3>1, <3>2, <3>3 DEF CallRecord
        <3>5. r.pc = "attempt"
            BY <1>0 DEF CallRecord
        <3>6. call' = [call EXCEPT ![c] = r]
            BY <2>1, <2>3
        <3> HIDE DEF r
        <3> QED BY <3>1, <3>4, <3>5, <3>6, CallStep
    <2> QED BY <2>2, <2>3
<1>7. CASE NoResponse(c)
    BY <1>7, OffBudgetStep DEF NoResponse, Refuse
<1> QED
    BY <1>2, <1>3, <1>4, <1>5, <1>6, <1>7

\* Where a step of publishing leads, but for the creation of a target.
NotFilling == (Publishing \ {"fill"}) \cup {"temp", "answered", "refused"}

LEMMA PublishingTypes ==
    ASSUME CallsOK, NEW c \in Calls,
           MakeTemp(c) \/ WriteTemp(c) \/ Link(c) \/ Create(c) \/ Fill(c)
             \/ Cleanup(c) \/ NextImage(c)
    PROVE  CallsOK' /\ (call'[c].pc \in NotFilling \/ (Create(c) /\ Goto(c, "fill")))
<1> DEFINE q == call[c]
<1>0. /\ q \in CallRecord(c)
      /\ q.pc \in Publishing => q.image \in q.todo
      /\ q.pc \in {"write", "link", "create", "fill"} => q.suffix \in Attempts
    BY DEF CallsOK
<1>1. /\ "temp" \notin Publishing
      /\ {"write", "link", "create", "fill", "cleanup", "next"} \subseteq Places \cap Publishing
      /\ {"temp", "answered", "refused"} \subseteq Places \ Publishing
    BY DEF Places, Publishing, Requesting
<1>n. {"write", "link", "create", "cleanup", "next", "temp", "answered", "refused"}
          \subseteq NotFilling
    BY DEF NotFilling, Publishing
<1>2. CASE MakeTemp(c)
    <2>1. PICK i \in q.todo, pc \in {"write", "next"} :
            call' = [call EXCEPT ![c].pc = pc, ![c].image = i, ![c].suffix = 0,
                                 ![c].landed = None]
        BY <1>2 DEF MakeTemp
    <2> DEFINE r == [q EXCEPT !.pc = pc, !.image = i, !.suffix = 0, !.landed = None]
    <2>2. /\ i \in Images(c) \cup {0} /\ 0 \in 0 .. MAX_COLLISION_SUFFIX
          /\ None \in Names \cup {None} /\ pc \in Places
        BY <1>0, <1>1, Numbers DEF CallRecord
    <2>3. r \in CallRecord(c)
        BY <1>0, <2>2 DEF CallRecord
    <2>4. r.pc = pc /\ r.image = i /\ r.todo = q.todo /\ r.suffix = 0
        BY <1>0 DEF CallRecord
    <2>5. call' = [call EXCEPT ![c] = r]
        BY <2>1
    <2>6. 0 \in Attempts
        BY Numbers DEF Attempts
    <2>7. r.pc \in NotFilling /\ r.image \in r.todo /\ r.suffix \in Attempts
        BY <1>n, <2>1, <2>4, <2>6
    <2> HIDE DEF r
    <2> QED BY <2>3, <2>5, <2>7, CallStep
<1>3. CASE WriteTemp(c)
    <2>1. q.suffix \in Attempts /\ q.image \in q.todo
        BY <1>0, <1>1, <1>3 DEF WriteTemp, At
    <2> QED
        BY <1>1, <1>n, <1>3, <2>1, GotoStep DEF WriteTemp
<1>4. ASSUME q.pc \in {"link", "create"}, Advance(c) PROVE CallsOK' /\ call'[c].pc \in NotFilling
    <2> DEFINE more == q.suffix + 1 \in Attempts
               r == [q EXCEPT !.suffix = q.suffix + 1,
                              !.pc = IF more THEN "link" ELSE "cleanup"]
    <2>1. q.suffix \in Attempts /\ q.image \in q.todo
        BY <1>0, <1>1, <1>4
    <2>2. q.suffix + 1 \in 0 .. MAX_COLLISION_SUFFIX
        BY <2>1, Numbers DEF Attempts
    <2>3. (IF more THEN "link" ELSE "cleanup") \in Places
        BY <1>1
    <2>4. r \in CallRecord(c)
        BY <1>0, <2>2, <2>3 DEF CallRecord
    <2>5. /\ r.pc = IF more THEN "link" ELSE "cleanup"
          /\ r.suffix = q.suffix + 1 /\ r.image = q.image /\ r.todo = q.todo
        BY <1>0 DEF CallRecord
    <2>6. call' = [call EXCEPT ![c] = r]
        BY <1>4 DEF Advance
    <2>7. r.pc \in NotFilling /\ (r.pc = "link" => r.suffix \in Attempts)
          /\ r.pc \notin {"write", "create", "fill"} /\ r.image \in r.todo
        BY <1>n, <2>1, <2>5
    <2> HIDE DEF r
    <2> QED BY <2>4, <2>6, <2>7, CallStep
<1>5. ASSUME q.pc \in {"link", "fill"}, call' = Land(c) PROVE CallsOK' /\ call'[c].pc \in NotFilling
    <2> DEFINE r == [q EXCEPT !.landed = Target(c), !.pc = "cleanup"]
    <2>1. q.suffix \in Attempts /\ q.image \in q.todo
        BY <1>0, <1>1, <1>5
    <2>2. Target(c) \in Names \cup {None} /\ "cleanup" \in Places
        BY <1>1, <2>1, TargetType DEF Target
    <2>3. r \in CallRecord(c)
        BY <1>0, <2>2 DEF CallRecord
    <2>4. r.pc = "cleanup" /\ r.image = q.image /\ r.todo = q.todo
        BY <1>0 DEF CallRecord
    <2>5. call' = [call EXCEPT ![c] = r]
        BY <1>5 DEF Land
    <2> HIDE DEF r
    <2> QED BY <1>n, <2>1, <2>3, <2>4, <2>5, CallStep
<1>6. CASE Link(c)
    <2>1. q.pc = "link" /\ q.suffix \in Attempts /\ q.image \in q.todo
        BY <1>0, <1>1, <1>6 DEF Link, At
    <2>2. Advance(c) \/ call' = Land(c) \/ Goto(c, "create")
        BY <1>6 DEF Link
    <2> QED BY <1>1, <1>n, <1>4, <1>5, <2>1, <2>2, GotoStep
<1>7. CASE Create(c)
    <2>1. q.pc = "create" /\ q.suffix \in Attempts /\ q.image \in q.todo
        BY <1>0, <1>1, <1>7 DEF Create, At
    <2>2. Advance(c) \/ Goto(c, "fill") \/ Goto(c, "cleanup")
        BY <1>7 DEF Create
    <2> QED BY <1>1, <1>n, <1>4, <1>7, <2>1, <2>2, GotoStep
<1>8. CASE Fill(c)
    <2>1. q.pc = "fill" /\ q.image \in q.todo
        BY <1>0, <1>1, <1>8 DEF Fill, At
    <2>2. call' = Land(c) \/ Goto(c, "cleanup")
        BY <1>8 DEF Fill
    <2> QED BY <1>1, <1>n, <1>5, <2>1, <2>2, GotoStep
<1>9. CASE Cleanup(c)
    <2>1. q.image \in q.todo
        BY <1>0, <1>1, <1>9 DEF Cleanup, At
    <2> QED BY <1>1, <1>n, <1>9, <2>1, GotoStep DEF Cleanup
<1>10. CASE NextImage(c)
    <2> DEFINE published == [q.published EXCEPT ![q.image] = q.landed]
               todo == q.todo \ {q.image}
               pc == IF todo # {} THEN "temp"
                     ELSE IF \E i \in Images(c) : published[i] # None THEN "answered"
                     ELSE "refused"
               failed == IF q.landed = None THEN q.failed \cup {q.image} ELSE q.failed
               r == [q EXCEPT !.published = published, !.todo = todo, !.pc = pc,
                              !.failed = failed]
    <2>1. q.image \in q.todo
        BY <1>0, <1>1, <1>10 DEF NextImage, At
    <2>2. published \in [Images(c) -> Names \cup {None}]
        BY <1>0 DEF CallRecord
    <2>3. todo \in SUBSET Images(c) /\ failed \in SUBSET Images(c)
        BY <1>0, <2>1 DEF CallRecord
    <2>4. pc \in {"temp", "answered", "refused"}
        OBVIOUS
    <2>5. call' = [call EXCEPT ![c] = r]
        BY <1>10 DEF NextImage
    <2> HIDE DEF published, todo, pc, failed
    <2>6. r \in CallRecord(c)
        BY <1>0, <1>1, <2>2, <2>3, <2>4 DEF CallRecord
    <2>7. r.pc = pc
        BY <1>0 DEF CallRecord
    <2> HIDE DEF r
    <2> QED BY <1>1, <1>n, <2>4, <2>5, <2>6, <2>7, CallStep
<1> QED
    BY <1>2, <1>3, <1>6, <1>7, <1>8, <1>9, <1>10

\* Files are placed under names of candidates by the call that publishes.
LEMMA PlaceTypes ==
    ASSUME TypeOK, NEW c \in Calls, call[c].pc \in Publishing,
           call[c].suffix \in Attempts, NEW whole \in BOOLEAN, Place(c, Mine(c, whole))
    PROVE  /\ DOMAIN disk' = Names
           /\ \A n \in Names : disk'[n] \in {None, TheUsers}
                \/ disk'[n] \in UNION {[by : {d}, image : Images(d), whole : BOOLEAN] : d \in Calls}
<1>1. call[c].image \in Images(c) /\ Target(c) \in Names
    BY TargetType DEF TypeOK, CallRecord, Target
<1>2. Mine(c, whole) \in [by : {c}, image : Images(c), whole : BOOLEAN]
    BY <1>1 DEF Mine, File
<1>3. disk' = [disk EXCEPT ![Target(c)] = Mine(c, whole)]
    BY DEF Place
<1>4. Mine(c, whole) \in UNION {[by : {d}, image : Images(d), whole : BOOLEAN] : d \in Calls}
    BY <1>2
<1> QED
    BY <1>1, <1>3, <1>4 DEF TypeOK

\* What a refused call answers is one of the codes.
LEMMA ErrorStep ==
    ASSUME NEW c \in Calls, Step(c)
    PROVE  UNCHANGED error \/ \E code \in ERROR_CODES : error' = [error EXCEPT ![c] = code]
<1>2. {"deadline_exceeded", "invalid_input_file", "api_timeout", "connection_error",
       "output_error", "internal_error"} \subseteq ERROR_CODES
    BY DEF ERROR_CODES, NON_RETRYABLE_CODES, LocalErrors
<1>3. \A status, moderated : CodeOf(status, moderated) \in ERROR_CODES
    BY DEF CodeOf, ERROR_CODES, NON_RETRYABLE_CODES, ProviderRefusals
<1>4. CASE Check(c)
    <2>1. Refusals[(c \in Edits)] \subseteq ERROR_CODES
        BY DEF Refusals
    <2> QED BY <1>4, <2>1 DEF Check, Refuse
<1>5. CASE Attempt(c) \/ AttemptRefused(c) \/ NoResponse(c)
    BY <1>2, <1>5 DEF Attempt, AttemptRefused, NoResponse, Refuse
<1>6. CASE Receive(c)
    BY <1>2, <1>6 DEF Receive
<1>7. CASE ErrorResponse(c)
    BY <1>3, <1>7 DEF ErrorResponse, Refuse
<1>8. CASE MakeTemp(c) \/ WriteTemp(c) \/ Link(c) \/ Create(c) \/ Fill(c) \/ Cleanup(c)
    BY <1>8 DEF MakeTemp, WriteTemp, Link, Create, Fill, Cleanup
<1>9. CASE NextImage(c)
    BY <1>2, <1>9 DEF NextImage
<1> QED
    BY <1>4, <1>5, <1>6, <1>7, <1>8, <1>9 DEF Step

LEMMA ErrorTypes ==
    ASSUME error \in [Calls -> ERROR_CODES \cup {None}], NEW c \in Calls, Step(c)
    PROVE  error' \in [Calls -> ERROR_CODES \cup {None}]
<1>1. \A code \in ERROR_CODES : error' = [error EXCEPT ![c] = code] =>
        error' \in [Calls -> ERROR_CODES \cup {None}]
    OBVIOUS
<1> QED
    BY <1>1, ErrorStep

LEMMA TypedStep == TypeOK /\ [Next]_vars => TypeOK'
<1> SUFFICES ASSUME TypeOK, [Next]_vars PROVE TypeOK'
    OBVIOUS
<1>0. CallsOK /\ RestOK
    BY TypeOKParts
<1>1. CASE UNCHANGED vars
    BY <1>1 DEF vars, TypeOK, CallRecord
<1>2. ASSUME NEW n \in UserFiles, UserSaves(n) PROVE TypeOK'
    BY <1>2 DEF UserSaves, TypeOK, CallRecord
<1>3. ASSUME NEW c \in Calls, Kill(c) PROVE TypeOK'
    <2>1. CallsOK'
        BY <1>0, <1>3, OffBudgetStep DEF Kill
    <2>2. RestOK'
        BY <1>0, <1>3, Numbers DEF Kill, RestOK
    <2> QED BY <2>1, <2>2, TypeOKParts DEF TypeOK, CallsOK, RestOK
<1>4. ASSUME NEW c \in Calls,
             Check(c) \/ Attempt(c) \/ AttemptRefused(c) \/ Receive(c)
               \/ ErrorResponse(c) \/ NoResponse(c)
      PROVE  TypeOK'
    <2>0. error' \in [Calls -> ERROR_CODES \cup {None}]
        BY <1>0, <1>4, ErrorTypes DEF RestOK, Step
    <2>1. CallsOK'
        BY <1>0, <1>4, RequestTypes
    <2>2. UNCHANGED requests \/ \E fate \in Fates : Sent(c, fate)
        BY <1>4 DEF Check, Attempt, AttemptRefused, Receive, ErrorResponse, NoResponse, Fates
    <2>3. requests' \in [Calls -> Seq(Fates)]
        <3>1. ASSUME NEW fate \in Fates, Sent(c, fate)
              PROVE  requests' \in [Calls -> Seq(Fates)]
            <4>1. requests \in [Calls -> Seq(Fates)]
                BY <1>0 DEF RestOK
            <4>2. Append(requests[c], fate) \in Seq(Fates)
                BY <4>1
            <4> QED BY <3>1, <4>1, <4>2 DEF Sent
        <3> QED BY <1>0, <2>2, <3>1 DEF RestOK
    <2>4. UNCHANGED <<disk, temps, stuck, faults, kills>>
        BY <1>4 DEF Check, Attempt, AttemptRefused, Receive, ErrorResponse, NoResponse
    <2>5. RestOK'
        BY <1>0, <2>0, <2>3, <2>4 DEF RestOK
    <2> QED BY <2>1, <2>5 DEF TypeOK, CallsOK, RestOK
<1>5. ASSUME NEW c \in Calls,
             MakeTemp(c) \/ WriteTemp(c) \/ Link(c) \/ Create(c) \/ Fill(c)
               \/ Cleanup(c) \/ NextImage(c)
      PROVE  TypeOK'
    <2>0. error' \in [Calls -> ERROR_CODES \cup {None}]
        BY <1>0, <1>5, ErrorTypes DEF RestOK, Step
    <2>1. CallsOK'
        BY <1>0, <1>5, PublishingTypes
    <2>2. UNCHANGED <<requests, kills>>
        BY <1>5 DEF MakeTemp, WriteTemp, Link, Create, Fill, Cleanup, NextImage
    <2>3. faults' \in 0 .. MaxFaults
        <3>1. Fault \/ NoFault
            BY <1>5 DEF MakeTemp, WriteTemp, Link, Create, Fill, Cleanup, NextImage, NoFault
        <3> QED BY <1>0, <3>1, Numbers DEF RestOK, Fault, NoFault
    <2>4. UNCHANGED disk \/ \E whole \in BOOLEAN : Place(c, Mine(c, whole))
        BY <1>5 DEF MakeTemp, WriteTemp, Link, Create, Fill, Cleanup, NextImage
    <2>5. UNCHANGED disk \/ call[c].pc \in {"link", "create", "fill"}
        BY <1>5 DEF MakeTemp, WriteTemp, Link, Create, Fill, Cleanup, NextImage, At
    <2>6. call[c].pc \in {"link", "create", "fill"} =>
            call[c].pc \in Publishing /\ call[c].suffix \in Attempts
        BY <1>0 DEF CallsOK, Publishing
    <2>7. /\ DOMAIN disk' = Names
          /\ \A n \in Names : disk'[n] \in {None, TheUsers}
               \/ disk'[n] \in UNION {[by : {d}, image : Images(d), whole : BOOLEAN] : d \in Calls}
        <3>1. CASE UNCHANGED disk
            BY <1>0, <3>1 DEF RestOK
        <3>2. CASE ~UNCHANGED disk
            BY <2>4, <2>5, <2>6, <3>2, PlaceTypes
        <3> QED BY <3>1, <3>2
    <2>8. \A i \in call[c].todo : <<c, i>> \in UNION {{d} \X Images(d) : d \in Calls}
        BY <1>0 DEF CallsOK, CallRecord
    <2>9. temps' \subseteq UNION {{d} \X Images(d) : d \in Calls}
        BY <1>0, <1>5, <2>8
        DEF RestOK, MakeTemp, WriteTemp, Link, Create, Fill, Cleanup, NextImage
    <2>10. At(c, "cleanup") => call[c].image \in call[c].todo
        BY <1>0 DEF CallsOK, At, Publishing
    <2>11. stuck' \subseteq UNION {{d} \X Images(d) : d \in Calls}
        BY <1>0, <1>5, <2>8, <2>10
        DEF RestOK, MakeTemp, WriteTemp, Link, Create, Fill, Cleanup, NextImage, Part
    <2>12. kills' \in 0 .. MaxKills /\ requests' \in [Calls -> Seq(Fates)]
        BY <1>0, <2>2 DEF RestOK
    <2>13. RestOK'
        BY <2>0, <2>3, <2>7, <2>9, <2>11, <2>12 DEF RestOK
    <2> QED BY <2>1, <2>13 DEF TypeOK, CallsOK, RestOK
<1> QED
    BY <1>1, <1>2, <1>3, <1>4, <1>5 DEF Next, Step

LEMMA TypedInit == Init => TypeOK
<1> SUFFICES ASSUME Init PROVE TypeOK
    OBVIOUS
<1>1. DOMAIN call = Calls
    BY DEF Init
<1>2. ASSUME NEW c \in Calls PROVE call[c] \in CallRecord(c) /\ call[c].pc = "checking"
    <2> DEFINE r == [pc |-> "checking", spent |-> 0, attempt |-> 1, timeout |-> 0,
          received |-> {}, todo |-> {}, image |-> 0, suffix |-> 0, landed |-> None,
          published |-> [i \in Images(c) |-> None], failed |-> {}]
    <2>1. call[c] = r
        BY <1>2 DEF Init
    <2>2. /\ 1 \in 1 .. MAX_API_ATTEMPTS /\ 0 \in 0 .. API_ATTEMPT_TIMEOUT
          /\ 0 \in 0 .. MAX_COLLISION_SUFFIX /\ "checking" \in Places
        BY Numbers DEF Places, Requesting
    <2>3. r \in CallRecord(c)
        BY <2>2 DEF CallRecord
    <2> QED BY <2>1, <2>3
<1>3. "checking" \notin Publishing
    BY DEF Publishing
<1>4. requests \in [Calls -> Seq(Fates)] /\ DOMAIN disk = Names
      /\ error \in [Calls -> ERROR_CODES \cup {None}]
    BY DEF Init
<1>5. \A n \in Names : disk[n] \in {None, TheUsers}
    BY DEF Init
<1>6. stuck = {} /\ temps = {} /\ faults \in 0 .. MaxFaults /\ kills \in 0 .. MaxKills
    BY Numbers DEF Init
<1> QED
    BY <1>1, <1>2, <1>3, <1>4, <1>5, <1>6 DEF TypeOK

\* Every reachable state is well-typed: counters within the limits of the code,
\* a name among the candidates wherever one is tried (images.py:516).
THEOREM ImageTypes == Spec => []TypeOK
BY TypedInit, TypedStep, PTL DEF Spec

------------------------------------------------------------------------------
(* Requests: none after one that was billed or may have been. *)

PaidInv ==
    /\ TypeOK
    /\ \A c \in Calls : \A k \in DOMAIN requests[c] :
         /\ requests[c][k] # "busy" => k = Len(requests[c])
         /\ call[c].pc \in Requesting => requests[c][k] = "busy"

\* A call that is not concerned keeps its record, its requests and its place.
LEMMA OtherCalls ==
    ASSUME TypeOK, NEW c \in Calls, NEW d \in Calls, c # d, Step(d) \/ Kill(d)
    PROVE  call'[c] = call[c] /\ requests'[c] = requests[c]
BY ZenonT(60) DEF TypeOK, Step, Kill, Check, Attempt, AttemptRefused, Receive, ErrorResponse,
       NoResponse, MakeTemp, WriteTemp, Link, Create, Fill, Cleanup, NextImage,
       Refuse, OffBudget, Sent, Advance, Land, Goto

LEMMA PaidStep == PaidInv /\ [Next]_vars => PaidInv'
<1> SUFFICES ASSUME PaidInv, [Next]_vars PROVE PaidInv'
    OBVIOUS
<1>1. TypeOK'
    BY TypedStep DEF PaidInv
<1>2. CallsOK
    BY TypeOKParts DEF PaidInv
<1> DEFINE Fine(c) == \A k \in DOMAIN requests[c] :
               /\ requests[c][k] # "busy" => k = Len(requests[c])
               /\ call[c].pc \in Requesting => requests[c][k] = "busy"
<1>3. \A c \in Calls : Fine(c)
    BY DEF PaidInv
<1>4. ASSUME UNCHANGED requests, NEW c \in Calls, call'[c].pc \in Requesting => call[c].pc \in Requesting
      PROVE  Fine(c)'
    BY <1>3, <1>4
<1>5. ASSUME NEW c \in Calls, Step(c) \/ Kill(c) PROVE Fine(c)'
    <2>1. CASE Kill(c)
        <3>1. call'[c].pc \notin Requesting
            BY <1>2, <2>1, OffBudgetStep DEF Kill, Requesting
        <3> QED BY <1>4, <2>1, <3>1 DEF Kill
    <2>2. CASE Check(c) \/ Attempt(c) \/ AttemptRefused(c)
        <3>1. call[c].pc \in Requesting /\ UNCHANGED requests
            BY <2>2 DEF Check, Attempt, AttemptRefused, At, Requesting
        <3> QED BY <1>4, <3>1
    <2>3. ASSUME NEW fate \in Fates, Sent(c, fate), call[c].pc = "waiting",
                 fate # "busy" => call'[c].pc \notin Requesting
          PROVE  Fine(c)'
        <3>1. \A k \in DOMAIN requests[c] : requests[c][k] = "busy"
            BY <1>3, <2>3 DEF Requesting
        <3>2. requests[c] \in Seq(Fates) /\ requests'[c] = Append(requests[c], fate)
            BY <2>3 DEF PaidInv, TypeOK, Sent
        <3>3. Len(requests'[c]) = Len(requests[c]) + 1
            BY <3>2
        <3>4. ASSUME NEW k \in DOMAIN requests'[c]
              PROVE  IF k = Len(requests'[c]) THEN requests'[c][k] = fate
                     ELSE requests'[c][k] = "busy"
            BY <3>1, <3>2, <3>3
        <3> QED BY <2>3, <3>4
    <2>4. CASE Receive(c)
        <3>1. call'[c].pc \notin Requesting
            BY <1>2, <2>4, ReceiveStep DEF Requesting
        <3> QED BY <2>3, <2>4, <3>1 DEF Receive, At, Fates
    <2>5. CASE NoResponse(c)
        <3>1. call'[c].pc \notin Requesting
            BY <1>2, <2>5, OffBudgetStep DEF NoResponse, Refuse, Requesting
        <3> QED BY <2>3, <2>5, <3>1 DEF NoResponse, At, Fates
    <2>6. CASE ErrorResponse(c)
        <3>1. PICK d \in 0 .. call[c].timeout, delay \in Delays, status \in Statuses :
                /\ ~Retryable(status) => call' = OffBudget(c, "refused")
                /\ Sent(c, IF Retryable(status) THEN "busy" ELSE "rejected")
            BY <2>6 DEF ErrorResponse, Refuse
        <3>2. CASE Retryable(status)
            BY <2>3, <2>6, <3>1, <3>2 DEF ErrorResponse, At, Fates
        <3>3. CASE ~Retryable(status)
            <4>1. call'[c].pc \notin Requesting
                BY <1>2, <3>1, <3>3, OffBudgetStep DEF Requesting
            <4>2. Sent(c, "rejected") /\ "rejected" \in Fates /\ call[c].pc = "waiting"
                BY <2>6, <3>1, <3>3 DEF ErrorResponse, At, Fates
            <4> QED BY <2>3, <4>1, <4>2
        <3> QED BY <3>2, <3>3
    <2>7. CASE MakeTemp(c) \/ WriteTemp(c) \/ Link(c) \/ Create(c) \/ Fill(c)
                 \/ Cleanup(c) \/ NextImage(c)
        <3>1. call'[c].pc \in NotFilling \/ Goto(c, "fill")
            BY <1>2, <2>7, PublishingTypes
        <3>2. Goto(c, "fill") => call'[c].pc = "fill"
            BY <1>2 DEF Goto, CallsOK, CallRecord
        <3>3. call'[c].pc \notin Requesting
            BY <3>1, <3>2 DEF NotFilling, Publishing, Requesting
        <3>4. UNCHANGED requests
            BY <2>7 DEF MakeTemp, WriteTemp, Link, Create, Fill, Cleanup, NextImage
        <3> QED BY <1>4, <3>3, <3>4
    <2> QED BY <1>5, <2>1, <2>2, <2>4, <2>5, <2>6, <2>7 DEF Step
<1>6. ASSUME NEW c \in Calls PROVE Fine(c)'
    <2>1. CASE UNCHANGED vars \/ \E n \in UserFiles : UserSaves(n)
        <3>1. UNCHANGED <<call, requests>>
            BY <2>1 DEF vars, UserSaves
        <3> QED BY <1>4, <3>1
    <2>2. ASSUME NEW d \in Calls, c # d, Step(d) \/ Kill(d) PROVE Fine(c)'
        <3>1. call'[c] = call[c] /\ requests'[c] = requests[c]
            BY <2>2, OtherCalls DEF PaidInv
        <3> QED BY <1>3, <3>1
    <2> QED BY <1>5, <2>1, <2>2 DEF Next
<1> QED
    BY <1>1, <1>6 DEF PaidInv

\* Whatever fails, no call sends a request after one that was answered with
\* images, that may have been billed, or that was rejected for what it is
\* (api.py:8, errors.py:70).
THEOREM PaidOnceTheorem == Spec => []PaidOnce
<1>1. Init => PaidInv
    BY TypedInit DEF Init, PaidInv
<1>2. PaidInv => PaidOnce
    BY DEF PaidInv, PaidOnce
<1> QED
    BY <1>1, <1>2, PaidStep, PTL DEF Spec

------------------------------------------------------------------------------
(* Files: the call that made a name is the only one to change it. *)

\* A target that is being filled is still the empty file the call created.
FillInv ==
    /\ TypeOK
    /\ \A c \in Calls : At(c, "fill") => disk[Target(c)] = Mine(c, FALSE)

\* A step of a call changes no file but the one it fills.
LEMMA DiskStep ==
    ASSUME FillInv, NEW c \in Calls, Step(c) \/ Kill(c), NEW n \in Names,
           disk[n] # None, disk'[n] # disk[n]
    PROVE  \E i \in Images(c) : disk[n] = File(c, i, FALSE) /\ disk'[n] = File(c, i, TRUE)
<1>1. At(c, "link") \/ At(c, "create") \/ Fill(c)
    BY DEF Step, Kill, Check, Attempt, AttemptRefused, Receive, ErrorResponse, NoResponse,
           MakeTemp, WriteTemp, Link, Create, Cleanup, NextImage
<1>2. PICK whole \in BOOLEAN : Place(c, Mine(c, whole)) /\ (Fill(c) \/ ~Taken(c))
    BY DEF Step, Kill, Check, Attempt, AttemptRefused, Receive, ErrorResponse, NoResponse,
           MakeTemp, WriteTemp, Link, Create, Fill, Cleanup, NextImage
<1>3. n = Target(c) /\ disk'[n] = Mine(c, whole)
    BY <1>2 DEF Place, FillInv, TypeOK
<1>4. Fill(c)
    BY <1>2, <1>3 DEF Taken
<1>5. disk[n] = Mine(c, FALSE)
    BY <1>3, <1>4 DEF FillInv, Fill
<1>6. disk'[n] = Mine(c, TRUE)
    BY <1>3, <1>5
<1>7. call[c].image \in Images(c)
    BY <1>4 DEF FillInv, TypeOK, CallRecord, Fill, At, Publishing
<1> QED
    BY <1>5, <1>6, <1>7 DEF Mine

\* The exclusive create is the only way to a target that is to be filled.
LEMMA FillStarts ==
    ASSUME TypeOK, NEW c \in Calls, Step(c) \/ Kill(c), call'[c].pc = "fill"
    PROVE  Create(c) /\ Place(c, Mine(c, FALSE)) /\ Goto(c, "fill")
<1>1. CallsOK
    BY TypeOKParts
<1>2. \A pc : Goto(c, pc) => call'[c].pc = pc
    BY <1>1 DEF Goto, CallsOK, CallRecord
<1>3. ~ (call' = OffBudget(c, "refused") \/ call' = OffBudget(c, "killed"))
    BY <1>1, OffBudgetStep
<1>4. ~Kill(c) /\ ~AttemptRefused(c) /\ ~NoResponse(c)
    BY <1>3 DEF Kill, AttemptRefused, NoResponse, Refuse
<1>5. ~Receive(c)
    BY <1>1, ReceiveStep
<1>6. ~Check(c) /\ ~Attempt(c) /\ ~ErrorResponse(c)
    <2>1. \A t : call' # [call EXCEPT ![c].spent = t, ![c].pc = "attempt"]
        BY <1>1 DEF CallsOK, CallRecord
    <2>2. \A s, t : call' # [call EXCEPT ![c].timeout = s, ![c].spent = t, ![c].pc = "waiting"]
        BY <1>1 DEF CallsOK, CallRecord
    <2>3. \A s, t : call' # [call EXCEPT ![c].spent = s, ![c].timeout = 0,
                                ![c].attempt = t, ![c].pc = "attempt"]
        BY <1>1 DEF CallsOK, CallRecord
    <2>4. ~Check(c)
        BY <1>3, <2>1 DEF Check, Refuse
    <2>5. ~Attempt(c)
        BY <2>2 DEF Attempt
    <2>6. ~ErrorResponse(c)
        BY <1>3, <2>3 DEF ErrorResponse, Refuse
    <2> QED BY <2>4, <2>5, <2>6
<1>7. Create(c) /\ Goto(c, "fill")
    BY <1>1, <1>4, <1>5, <1>6, PublishingTypes DEF Step, NotFilling
<1>8. ~Advance(c)
    BY <1>1 DEF Advance, CallsOK, CallRecord
<1> QED
    BY <1>2, <1>7, <1>8 DEF Create

LEMMA FillStep == FillInv /\ [Next]_vars => FillInv'
<1> SUFFICES ASSUME FillInv, [Next]_vars PROVE FillInv'
    OBVIOUS
<1>1. TypeOK /\ TypeOK'
    BY TypedStep DEF FillInv
<1>2. ASSUME NEW c \in Calls, call'[c] = call[c], At(c, "fill"),
             disk'[Target(c)] = disk[Target(c)]
      PROVE  disk'[Target(c)'] = Mine(c, FALSE)'
    BY <1>2 DEF FillInv, Target, Mine
<1>3. ASSUME NEW c \in Calls, At(c, "fill")
      PROVE  Target(c) \in Names /\ disk[Target(c)] = Mine(c, FALSE) /\ Mine(c, FALSE) # None
             /\ call[c].image \in Images(c)
    <2>1. call[c].suffix \in Attempts /\ call[c].image \in Images(c)
        BY <1>1, <1>3 DEF TypeOK, CallRecord, At, Publishing
    <2>2. call[c].image \in Nat
        BY <2>1, ImageAssumption DEF Images
    <2>3. Mine(c, FALSE) # None
        BY <2>2, FileIsThere DEF Mine
    <2>4. Target(c) \in Names
        BY <2>1, TargetType DEF Target
    <2> QED BY <1>3, <2>1, <2>3, <2>4 DEF FillInv
<1>4. ASSUME NEW c \in Calls, At(c, "fill")'
      PROVE  disk'[Target(c)'] = Mine(c, FALSE)'
    <2>1. CASE UNCHANGED vars
        BY <1>2, <1>4, <2>1 DEF vars, At
    <2>2. ASSUME NEW n \in UserFiles, UserSaves(n) PROVE disk'[Target(c)'] = Mine(c, FALSE)'
        <3>1. call'[c] = call[c] /\ At(c, "fill")
            BY <1>4, <2>2 DEF UserSaves, At
        <3>2. n # Target(c)
            BY <1>3, <2>2, <3>1 DEF UserSaves
        <3>3. disk'[Target(c)] = disk[Target(c)]
            BY <2>2, <3>2 DEF UserSaves
        <3> QED BY <1>2, <3>1, <3>3
    <2>3. ASSUME Step(c) \/ Kill(c) PROVE disk'[Target(c)'] = Mine(c, FALSE)'
        <3>1. Create(c) /\ Place(c, Mine(c, FALSE)) /\ Goto(c, "fill")
            BY <1>1, <1>4, <2>3, FillStarts DEF At
        <3>2. call'[c].image = call[c].image /\ call'[c].suffix = call[c].suffix
            BY <1>1, <3>1 DEF Goto, TypeOK, CallRecord
        <3>3. Target(c)' = Target(c) /\ Mine(c, FALSE)' = Mine(c, FALSE)
            BY <3>2 DEF Target, Mine
        <3>4. Target(c) \in Names
            BY <1>1, <3>1, TargetType DEF TypeOK, Create, At, Target
        <3> QED BY <1>1, <3>1, <3>3, <3>4 DEF Place, TypeOK
    <2>4. ASSUME NEW d \in Calls, d # c, Step(d) \/ Kill(d)
          PROVE  disk'[Target(c)'] = Mine(c, FALSE)'
        <3>1. call'[c] = call[c]
            BY <1>1, <2>4, OtherCalls
        <3>2. At(c, "fill")
            BY <1>4, <3>1 DEF At
        <3>3. \A i : Mine(c, FALSE) # File(d, i, FALSE)
            BY <2>4 DEF Mine, File
        <3>4. disk'[Target(c)] = disk[Target(c)]
            BY <1>3, <2>4, <3>2, <3>3, DiskStep
        <3> QED BY <1>2, <3>1, <3>2, <3>4
    <2> QED BY <2>1, <2>2, <2>3, <2>4 DEF Next
<1> QED
    BY <1>1, <1>4 DEF FillInv

\* No file of the user or of another call is ever overwritten, in either way of
\* publishing and whatever fails or is killed (images.py:457).
THEOREM OverwriteTheorem == Spec => NeverOverwritten
<1>1. Init => FillInv
    <2> SUFFICES ASSUME Init PROVE FillInv
        OBVIOUS
    <2>1. \A c \in Calls : call[c].pc = "checking"
        BY DEF Init
    <2> QED BY <2>1, TypedInit DEF FillInv, At
<1> DEFINE Kept == \A n \in Names : disk[n] # None /\ disk'[n] # disk[n] =>
         \E c \in Calls : \E i \in Images(c) :
            disk[n] = File(c, i, FALSE) /\ disk'[n] = File(c, i, TRUE)
<1>2. FillInv /\ [Next]_vars => [Kept]_vars
    <2> SUFFICES ASSUME FillInv, Next PROVE Kept
        OBVIOUS
    <2>1. ASSUME NEW m \in UserFiles, UserSaves(m) PROVE Kept
        BY <2>1 DEF UserSaves, FillInv, TypeOK
    <2>2. ASSUME NEW c \in Calls, Step(c) \/ Kill(c) PROVE Kept
        BY <2>2, DiskStep
    <2> QED BY <2>1, <2>2 DEF Next
<1> QED
    BY <1>1, <1>2, FillStep, PTL DEF Spec, NeverOverwritten

------------------------------------------------------------------------------
(* Time: the deadline and the room for a retry. *)

\* A retry starts with the time that is required of it; the first attempt may
\* have less.
TimeInv ==
    /\ TypeOK /\ InTime /\ RetryHasRoom
    /\ \A c \in Calls :
         /\ At(c, "checking") => call[c].attempt = 1
         /\ At(c, "attempt") /\ call[c].attempt > 1 =>
              call[c].spent + RETRY_MIN_REMAINING <= OPERATION_DEADLINE

LEMMA RoomLeft ==
    ASSUME NEW spent \in Nat, spent < OPERATION_DEADLINE,
           spent + RETRY_MIN_REMAINING <= OPERATION_DEADLINE
    PROVE  AttemptTimeout(spent) >= RETRY_MIN_REMAINING
<1>1. API_ATTEMPT_TIMEOUT \in Int /\ OPERATION_DEADLINE - spent \in Int
    BY Numbers
<1>2. AttemptTimeout(spent) \in {API_ATTEMPT_TIMEOUT, OPERATION_DEADLINE - spent}
    BY <1>1, MinOfTwo DEF AttemptTimeout
<1> QED
    BY <1>2, ImageAssumption

\* Once it publishes, or has ended, a call sends no more requests.
LEMMA NoMoreRequests ==
    ASSUME TypeOK, NEW c \in Calls, Step(c) \/ Kill(c), call'[c].pc \in Requesting
    PROVE  Check(c) \/ Attempt(c) \/ ErrorResponse(c)
<1>1. CallsOK
    BY TypeOKParts
<1>2. ~ (call' = OffBudget(c, "refused") \/ call' = OffBudget(c, "killed"))
    BY <1>1, OffBudgetStep DEF Requesting
<1>3. ~Kill(c) /\ ~AttemptRefused(c) /\ ~NoResponse(c)
    BY <1>2 DEF Kill, AttemptRefused, NoResponse, Refuse
<1>4. ~Receive(c)
    BY <1>1, ReceiveStep DEF Requesting
<1>5. call'[c].pc \notin NotFilling /\ ~Goto(c, "fill")
    BY <1>1, GotoStep DEF NotFilling, Publishing, Requesting, Goto, CallsOK, CallRecord
<1> QED
    BY <1>1, <1>3, <1>4, <1>5, PublishingTypes DEF Step

LEMMA TimeStep == TimeInv /\ [Next]_vars => TimeInv'
<1> SUFFICES ASSUME TimeInv, [Next]_vars PROVE TimeInv'
    OBVIOUS
<1> DEFINE Fine(c) ==
            /\ At(c, "waiting") => \E t \in ReadingTime(c) :
                 call[c].spent + call[c].timeout <= OPERATION_DEADLINE + t
            /\ At(c, "waiting") /\ call[c].attempt > 1 => call[c].timeout >= RETRY_MIN_REMAINING
            /\ At(c, "checking") => call[c].attempt = 1
            /\ At(c, "attempt") /\ call[c].attempt > 1 =>
                 call[c].spent + RETRY_MIN_REMAINING <= OPERATION_DEADLINE
<1>1. TypeOK /\ TypeOK' /\ \A c \in Calls : Fine(c)
    BY TypedStep DEF TimeInv, InTime, RetryHasRoom
<1>2. ASSUME NEW c \in Calls, call'[c] = call[c] PROVE Fine(c)'
    BY <1>1, <1>2 DEF At, ReadingTime
<1>3. ASSUME NEW c \in Calls, Check(c) PROVE Fine(c)'
    <2>1. CASE call' = OffBudget(c, "refused")
        <3>1. call'[c].pc = "refused"
            BY <1>1, <2>1, OffBudgetStep, TypeOKParts
        <3> QED BY <3>1 DEF At
    <2>2. ASSUME NEW t \in ReadingTime(c),
                 call' = [call EXCEPT ![c].spent = t, ![c].pc = "attempt"]
          PROVE  Fine(c)'
        <3>1. call'[c].pc = "attempt" /\ call'[c].attempt = call[c].attempt
            BY <1>1, <2>2 DEF TypeOK, CallRecord
        <3>2. call[c].attempt = 1
            BY <1>1, <1>3 DEF Check
        <3> QED BY <3>1, <3>2 DEF At
    <2> QED BY <1>3, <2>1, <2>2 DEF Check, Refuse
<1>4. ASSUME NEW c \in Calls, Attempt(c) PROVE Fine(c)'
    <2>1. PICK t \in ReadingTime(c) :
            call' = [call EXCEPT ![c].timeout = AttemptTimeout(call[c].spent),
                                 ![c].spent = @ + t, ![c].pc = "waiting"]
        BY <1>4 DEF Attempt
    <2>2. /\ call'[c].pc = "waiting" /\ call'[c].attempt = call[c].attempt
          /\ call'[c].spent = call[c].spent + t
          /\ call'[c].timeout = AttemptTimeout(call[c].spent)
        BY <1>1, <2>1 DEF TypeOK, CallRecord
    <2>3. /\ call[c].spent \in Nat /\ call[c].spent < OPERATION_DEADLINE /\ t \in Nat
          /\ call[c].attempt > 1 => call[c].spent + RETRY_MIN_REMAINING <= OPERATION_DEADLINE
        <3>1. call[c].spent \in Nat
            BY <1>1 DEF TypeOK, CallRecord
        <3>2. t \in Nat
            BY Numbers DEF ReadingTime
        <3> QED BY <1>1, <1>4, <3>1, <3>2 DEF Attempt
    <2>4. /\ AttemptTimeout(call[c].spent) \in Nat
          /\ AttemptTimeout(call[c].spent) <= OPERATION_DEADLINE - call[c].spent
        BY <2>3, TimeoutType, Numbers
    <2>5. call'[c].spent + call'[c].timeout <= OPERATION_DEADLINE + t
        BY <2>2, <2>3, <2>4, Numbers
    <2>6. call'[c].attempt > 1 => call'[c].timeout >= RETRY_MIN_REMAINING
        BY <2>2, <2>3, RoomLeft
    <2> QED BY <2>2, <2>5, <2>6 DEF At, ReadingTime
<1>5. ASSUME NEW c \in Calls, ErrorResponse(c) PROVE Fine(c)'
    <2> DEFINE q == call[c]
    <2>1. PICK d \in 0 .. q.timeout, delay \in Delays, retryable \in BOOLEAN :
            call' = IF retryable /\ CanRetry(c, q.spent + d, delay)
                    THEN [call EXCEPT ![c].spent = q.spent + d + delay, ![c].timeout = 0,
                                      ![c].attempt = @ + 1, ![c].pc = "attempt"]
                    ELSE OffBudget(c, "refused")
        BY <1>5, RetryOrEnd
    <2>2. CASE call' = OffBudget(c, "refused")
        <3>1. call'[c].pc = "refused"
            BY <1>1, <2>2, OffBudgetStep, TypeOKParts
        <3> QED BY <3>1 DEF At
    <2>3. CASE retryable /\ CanRetry(c, q.spent + d, delay)
        <3>1. call'[c].pc = "attempt" /\ call'[c].spent = q.spent + d + delay
            BY <1>1, <2>1, <2>3 DEF TypeOK, CallRecord
        <3> QED BY <2>3, <3>1 DEF At, CanRetry
    <2> QED BY <2>1, <2>2, <2>3
<1>6. ASSUME NEW c \in Calls, Step(c) \/ Kill(c) PROVE Fine(c)'
    <2>1. CASE call'[c].pc \in Requesting
        BY <1>1, <1>3, <1>4, <1>5, <1>6, <2>1, NoMoreRequests
    <2>2. CASE call'[c].pc \notin Requesting
        BY <2>2 DEF At, Requesting
    <2> QED BY <2>1, <2>2
<1>7. ASSUME NEW c \in Calls PROVE Fine(c)'
    <2>1. CASE UNCHANGED vars \/ \E n \in UserFiles : UserSaves(n)
        BY <1>2, <2>1 DEF vars, UserSaves
    <2>2. ASSUME NEW d \in Calls, c # d, Step(d) \/ Kill(d) PROVE Fine(c)'
        BY <1>1, <1>2, <2>2, OtherCalls
    <2> QED BY <1>6, <2>1, <2>2 DEF Next
<1> QED
    BY <1>1, <1>7 DEF TimeInv, InTime, RetryHasRoom

LEMMA TimeInit == Init => TimeInv
<1> SUFFICES ASSUME Init PROVE TimeInv
    OBVIOUS
<1>1. \A c \in Calls : call[c].pc = "checking" /\ call[c].attempt = 1
    BY DEF Init
<1> QED
    BY <1>1, TypedInit DEF TimeInv, InTime, RetryHasRoom, At

\* Whatever was spent before it, a request is given up by the deadline, up to
\* the one reading of the files that is not deducted (api.py:448), and a second
\* request always has RETRY_MIN_REMAINING to finish (constants.py:186).
THEOREM DeadlineTheorem == Spec => []TimeIsKept
<1>1. TimeInv => TimeIsKept
    BY DEF TimeInv, TimeIsKept
<1> QED
    BY <1>1, TimeInit, TimeStep, PTL DEF Spec

------------------------------------------------------------------------------
(* The report: what an ended call says of its files and of its costs. *)

\* The files of an image, and the images a call has reported.
Owned(c, i) == {n \in Names : disk[n] # None /\ disk[n].by = c /\ disk[n].image = i}
Landed(c) == {i \in Images(c) : call[c].published[i] # None}
Outcome(c) == {requests[c][k] : k \in DOMAIN requests[c]}

\* Each image received has landed, has failed or is still to be published.
Accounted(c) ==
    /\ Landed(c) \cup call[c].failed \cup call[c].todo = call[c].received
    /\ Landed(c) \cap call[c].failed = {}
    /\ call[c].todo \cap (Landed(c) \cup call[c].failed) = {}
    /\ call[c].pc \in Requesting => call[c].received = {}
    /\ Answered(c) => call[c].todo = {}
    /\ At(c, "refused") => Landed(c) = {}

\* An image that landed has the one file it is reported with; another that has
\* not failed has none, but for the image being published.
Found(c) ==
    /\ \A i \in Landed(c) :
         Owned(c, i) = {call[c].published[i]} /\ disk[call[c].published[i]] = File(c, i, TRUE)
    /\ \A i \in Images(c) \ (Landed(c) \cup call[c].failed) :
         (call[c].pc \in Publishing /\ i = call[c].image) \/ Owned(c, i) = {}
    /\ call[c].pc \in {"write", "link", "create"} =>
         call[c].landed = None /\ Owned(c, call[c].image) = {}
    /\ At(c, "fill") => call[c].landed = None /\ Owned(c, call[c].image) = {Target(c)}
    /\ call[c].pc \in {"cleanup", "next"} /\ call[c].landed # None =>
         /\ Owned(c, call[c].image) = {call[c].landed}
         /\ disk[call[c].landed] = File(c, call[c].image, TRUE)

\* Until its images came a call has only been put off; what it may have to
\* pay for is known from the code it ended with.
Explained(c) ==
    /\ call[c].pc \in Requesting => Outcome(c) \subseteq {"busy"}
    /\ call[c].pc \in Publishing \cup {"temp", "answered"} =>
         Outcome(c) \subseteq {"busy", "billed"} /\ "billed" \in Outcome(c)
    /\ ~At(c, "refused") => error[c] = None
    /\ At(c, "refused") =>
         /\ "billed" \in Outcome(c) => error[c] \in {"output_error", "internal_error"}
         /\ "unknown" \in Outcome(c) <=> error[c] \in {"api_timeout", "connection_error"}
         /\ error[c] = "output_error" => "billed" \in Outcome(c)
         /\ error[c] \in ProviderRefusals => "rejected" \in Outcome(c)

Sound(c) == ~At(c, "killed") => Accounted(c) /\ Found(c) /\ Explained(c)

ReportInv == FillInv /\ \A c \in Calls : Sound(c)

\* The steps of a call change no file but under the name it publishes to.
LEMMA DiskChange ==
    ASSUME FillInv, NEW c \in Calls, Step(c) \/ Kill(c), NEW n \in Names, disk'[n] # disk[n]
    PROVE  \E whole \in BOOLEAN : disk'[n] = Mine(c, whole) /\ (disk[n] = None \/ disk[n].by = c)
<1>1. PICK whole \in BOOLEAN : Place(c, Mine(c, whole)) /\ (Fill(c) \/ ~Taken(c))
    BY DEF Step, Kill, Check, Attempt, AttemptRefused, Receive, ErrorResponse, NoResponse,
           MakeTemp, WriteTemp, Link, Create, Fill, Cleanup, NextImage
<1>2. n = Target(c) /\ disk'[n] = Mine(c, whole)
    BY <1>1 DEF Place, FillInv, TypeOK
<1>3. disk[n] = None \/ disk[n].by = c
    <2>1. CASE Fill(c)
        <3>1. disk[n] = Mine(c, FALSE)
            BY <1>2, <2>1 DEF FillInv, Fill
        <3> QED BY <3>1 DEF Mine, File
    <2>2. CASE ~Taken(c)
        BY <1>2, <2>2 DEF Taken
    <2> QED BY <1>1, <2>1, <2>2
<1> QED
    BY <1>2, <1>3

\* What others and the user do changes nothing a call has to account for.
Undisturbed(c) ==
    /\ call'[c] = call[c] /\ requests'[c] = requests[c] /\ error'[c] = error[c]
    /\ \A n \in Names : disk'[n] # disk[n] =>
         (disk[n] = None \/ disk[n].by # c) /\ (disk'[n] = None \/ disk'[n].by # c)

LEMMA OthersStep ==
    ASSUME FillInv, NEW c \in Calls,
           \/ UNCHANGED vars
           \/ \E n \in UserFiles : UserSaves(n)
           \/ \E d \in Calls : d # c /\ (Step(d) \/ Kill(d))
    PROVE  Undisturbed(c)
<1>1. CASE UNCHANGED vars
    BY <1>1 DEF vars, Undisturbed
<1>2. ASSUME NEW n \in UserFiles, UserSaves(n) PROVE Undisturbed(c)
    <2>1. TheUsers.by # c
        BY ImageAssumption DEF TheUsers, File
    <2> QED BY <1>2, <2>1 DEF UserSaves, Undisturbed, FillInv, TypeOK
<1>3. ASSUME NEW d \in Calls, d # c, Step(d) \/ Kill(d) PROVE Undisturbed(c)
    <2>1. call'[c] = call[c] /\ requests'[c] = requests[c]
        BY <1>3, OtherCalls DEF FillInv
    <2>2. error'[c] = error[c]
        <3>1. UNCHANGED error \/ \E code : error' = [error EXCEPT ![d] = code]
            BY <1>3, ErrorStep DEF Kill
        <3> QED BY <1>3, <3>1 DEF FillInv, TypeOK
    <2>3. ASSUME NEW n \in Names, disk'[n] # disk[n]
          PROVE  (disk[n] = None \/ disk[n].by # c) /\ disk'[n].by # c
        <3>1. PICK whole \in BOOLEAN :
                disk'[n] = Mine(d, whole) /\ (disk[n] = None \/ disk[n].by = d)
            BY <1>3, <2>3, DiskChange
        <3> QED BY <1>3, <3>1 DEF Mine, File
    <2> QED BY <2>1, <2>2, <2>3 DEF Undisturbed
<1> QED
    BY <1>1, <1>2, <1>3

LEMMA UndisturbedSound ==
    ASSUME ReportInv, NEW c \in Calls, Undisturbed(c) PROVE Sound(c)'
<1>1. \A i : Owned(c, i)' = Owned(c, i)
    BY DEF Undisturbed, Owned
<1>2. \A n \in Names : disk[n] # None /\ disk[n].by = c => disk'[n] = disk[n]
    BY DEF Undisturbed
<1>3. CASE At(c, "killed")
    BY <1>3 DEF Undisturbed, Sound, At
<1>4. CASE ~At(c, "killed")
    <2>1. Accounted(c) /\ Found(c) /\ Explained(c)
        BY <1>4 DEF ReportInv, Sound
    <2>2. Landed(c)' = Landed(c) /\ Outcome(c)' = Outcome(c) /\ Target(c)' = Target(c)
        BY DEF Undisturbed, Landed, Outcome, Target
    <2>3. Accounted(c)' /\ Explained(c)'
        BY <2>1, <2>2 DEF Undisturbed, Accounted, Explained, At, Answered
    <2>4. \A i, n : n \in Owned(c, i) => disk'[n] = disk[n]
        BY <1>2 DEF Owned
    <2>5. \A i \in Landed(c) : disk'[call[c].published[i]] = disk[call[c].published[i]]
        BY <2>1, <2>4 DEF Found
    <2>6. call[c].pc \in {"cleanup", "next"} /\ call[c].landed # None =>
            disk'[call[c].landed] = disk[call[c].landed]
        BY <2>1, <2>4 DEF Found
    <2>7. Found(c)'
        <3> DEFINE q == call[c]
        <3>0. call'[c] = q
            BY DEF Undisturbed
        <3>1. \A i \in Landed(c)' : Owned(c, i)' = {q.published[i]}
                                      /\ disk'[q.published[i]] = File(c, i, TRUE)
            BY <1>1, <2>1, <2>2, <2>5 DEF Found
        <3>2. \A i \in Images(c) \ (Landed(c)' \cup q.failed) :
                (q.pc \in Publishing /\ i = q.image) \/ Owned(c, i)' = {}
            BY <1>1, <2>1, <2>2 DEF Found
        <3>3. q.pc \in {"write", "link", "create"} =>
                q.landed = None /\ Owned(c, q.image)' = {}
            BY <1>1, <2>1, <3>0 DEF Found
        <3>4. q.pc = "fill" => q.landed = None /\ Owned(c, q.image)' = {Target(c)'}
            BY <1>1, <2>1, <2>2, <3>0 DEF Found, At
        <3>5. q.pc \in {"cleanup", "next"} /\ q.landed # None =>
                Owned(c, q.image)' = {q.landed} /\ disk'[q.landed] = File(c, q.image, TRUE)
            BY <1>1, <2>1, <2>6, <3>0 DEF Found
        <3> QED BY <3>0, <3>1, <3>2, <3>3, <3>4, <3>5 DEF Found, At
    <2> QED BY <2>3, <2>7 DEF Sound
<1> QED
    BY <1>3, <1>4

\* The codes of the checks, and of an error answer.
LEMMA RefusalCodes ==
    ASSUME NEW c, NEW code \in Refusals[(c \in Edits)]
    PROVE  code \in LocalErrors \cup {"internal_error"}
<1> DEFINE isEdit == c \in Edits
<1>1. isEdit \in BOOLEAN
    OBVIOUS
<1>2. code \in Refusals[isEdit]
    OBVIOUS
<1> HIDE DEF isEdit
<1>3. PICK look \in Looks(isEdit) : RefusedWith(look, code)
    BY <1>1, <1>2 DEF Refusals
<1>4. DOMAIN Checks(look) = 1 .. 11
    BY DEF Checks
<1>5. PICK i \in 1 .. 11 : Checks(look)[i] = <<TRUE, code>>
    BY <1>3, <1>4 DEF RefusedWith
<1>6. Checks(look)[i][2] \in LocalErrors \cup {"internal_error"}
    BY <1>5 DEF Checks, LocalErrors
<1> QED
    BY <1>5, <1>6

LEMMA AnswerCodes ==
    ASSUME NEW status \in Nat, NEW moderated \in BOOLEAN
    PROVE  /\ CodeOf(status, moderated) \in ProviderRefusals \cup {"rate_limited", "service_error"}
           /\ Retryable(status) => CodeOf(status, moderated) \notin ProviderRefusals
BY DEF CodeOf, ProviderRefusals, Retryable, RETRYABLE_STATUS

LEMMA SentOutcome ==
    ASSUME TypeOK, NEW c \in Calls, NEW fate \in Fates, Sent(c, fate)
    PROVE  Outcome(c)' = Outcome(c) \cup {fate}
<1>1. requests[c] \in Seq(Fates) /\ requests'[c] = Append(requests[c], fate)
    BY DEF TypeOK, Sent
<1>2. /\ Len(requests'[c]) = Len(requests[c]) + 1
      /\ \A k \in 1 .. Len(requests[c]) : requests'[c][k] = requests[c][k]
      /\ requests'[c][Len(requests[c]) + 1] = fate
      /\ DOMAIN requests[c] = 1 .. Len(requests[c])
      /\ DOMAIN requests'[c] = 1 .. Len(requests[c]) + 1 /\ Len(requests[c]) \in Nat
    BY <1>1
<1> QED
    BY SMTT(40), <1>2 DEF Outcome

\* A call that has been put off, or has just begun, ends with an error.
LEMMA RefusedExplained ==
    ASSUME ReportInv, NEW c \in Calls, call[c].pc \in Requesting, NEW code, Refuse(c, code)
    PROVE  /\ call'[c].pc = "refused" /\ error'[c] = code /\ Outcome(c) \subseteq {"busy"}
           /\ call[c].pc \in {"checking", "attempt", "waiting"}
<1>1. CallsOK /\ RestOK
    BY TypeOKParts DEF ReportInv, FillInv
<1>2. call'[c].pc = "refused"
    BY <1>1, OffBudgetStep DEF Refuse
<1>3. error'[c] = code
    BY <1>1 DEF Refuse, RestOK
<1>4. Outcome(c) \subseteq {"busy"}
    BY DEF ReportInv, Sound, Explained, At, Requesting
<1> QED
    BY <1>2, <1>3, <1>4 DEF Requesting

LEMMA RequestsExplained ==
    ASSUME ReportInv, NEW c \in Calls,
           Check(c) \/ Attempt(c) \/ AttemptRefused(c) \/ Receive(c)
             \/ ErrorResponse(c) \/ NoResponse(c)
    PROVE  Explained(c)'
<1>0. TypeOK /\ CallsOK /\ RestOK
    BY TypeOKParts DEF ReportInv, FillInv
<1>1. call[c].pc \in Requesting
    BY DEF Check, Attempt, AttemptRefused, Receive, ErrorResponse, NoResponse, At, Requesting
<1>2. Outcome(c) \subseteq {"busy"} /\ error[c] = None
    BY <1>1 DEF ReportInv, Sound, Explained, At, Requesting
<1>3. {"refused", "killed", "answered", "temp"} \cap Requesting = {}
      /\ Publishing \cap (Requesting \cup {"refused"}) = {}
    BY DEF Requesting, Publishing
\* Nothing was sent, or the request was put off, and the call goes on.
<1>4. ASSUME call'[c].pc \in Requesting, UNCHANGED error, Outcome(c)' \subseteq {"busy"}
      PROVE  Explained(c)'
    BY <1>2, <1>3, <1>4 DEF Explained, At
\* The call ends with a code.
<1>5. ASSUME call'[c].pc = "refused", NEW fates, Outcome(c)' = Outcome(c) \cup fates,
             "billed" \in fates => error'[c] \in {"output_error", "internal_error"},
             "unknown" \in fates <=> error'[c] \in {"api_timeout", "connection_error"},
             error'[c] = "output_error" => "billed" \in fates,
             error'[c] \in ProviderRefusals => "rejected" \in fates
      PROVE  Explained(c)'
    <2>1. /\ "billed" \in Outcome(c)' <=> "billed" \in fates
          /\ "unknown" \in Outcome(c)' <=> "unknown" \in fates
          /\ "rejected" \in fates => "rejected" \in Outcome(c)'
        BY <1>2, <1>5
    <2> QED BY <1>3, <1>5, <2>1 DEF Explained, At
<1>6. CASE Check(c)
    <2>1. UNCHANGED requests /\ Outcome(c)' = Outcome(c)
        BY <1>6 DEF Check, Outcome
    <2>2. ASSUME NEW code \in Refusals[(c \in Edits)], Refuse(c, code) PROVE Explained(c)'
        <3>1. code \in LocalErrors \cup {"internal_error"}
            BY RefusalCodes
        <3>2. call'[c].pc = "refused" /\ error'[c] = code
            BY <1>1, <2>2, RefusedExplained
        <3>3. Outcome(c)' = Outcome(c) \cup {}
            BY <2>1
        <3> QED BY <1>5, <3>1, <3>2, <3>3 DEF LocalErrors, ProviderRefusals
    <2>3. ASSUME NEW t \in ReadingTime(c), UNCHANGED error,
                 call' = [call EXCEPT ![c].spent = t, ![c].pc = "attempt"]
          PROVE  Explained(c)'
        <3>1. call'[c].pc = "attempt"
            BY <1>0, <2>3 DEF CallsOK, CallRecord
        <3> QED BY <1>2, <1>4, <2>1, <2>3, <3>1 DEF Requesting
    <2> QED BY <1>6, <2>2, <2>3 DEF Check
<1>7. CASE Attempt(c)
    <2>1. call'[c].pc = "waiting"
        BY <1>0, <1>7 DEF Attempt, CallsOK, CallRecord
    <2>2. UNCHANGED error /\ Outcome(c)' = Outcome(c)
        BY <1>7 DEF Attempt, Outcome
    <2> QED BY <1>2, <1>4, <2>1, <2>2 DEF Requesting
<1>8. CASE AttemptRefused(c)
    <2>1. PICK code \in {"deadline_exceeded", "invalid_input_file"} : Refuse(c, code)
        BY <1>8 DEF AttemptRefused
    <2>2. call'[c].pc = "refused" /\ error'[c] = code
        BY <1>1, <2>1, RefusedExplained
    <2>3. Outcome(c)' = Outcome(c) \cup {}
        BY <1>8 DEF AttemptRefused, Outcome
    <2> QED BY <1>5, <2>2, <2>3 DEF ProviderRefusals
<1>9. CASE Receive(c)
    <2>1. Outcome(c)' = Outcome(c) \cup {"billed"}
        BY <1>0, <1>9, SentOutcome DEF Receive, Fates
    <2>2. call'[c].pc \in {"temp", "refused"}
        BY <1>0, <1>9, ReceiveStep
    <2>3. IF call'[c].pc = "temp" THEN error'[c] = None
          ELSE error'[c] \in {"output_error", "internal_error"}
        <3>1. PICK n \in 0 .. Wanted[c] : \E good \in Decodable(n) :
                /\ call' = [OffBudget(c, IF good = {} THEN "refused" ELSE "temp") EXCEPT
                           ![c].received = 1 .. n, ![c].todo = good, ![c].failed = (1 .. n) \ good]
                /\ IF good # {} THEN UNCHANGED error
                   ELSE \E code \in {"output_error"} \cup (IF n = 0 THEN {"internal_error"} ELSE {}) :
                          error' = [error EXCEPT ![c] = code]
            BY <1>9 DEF Receive
        <3>2. PICK good \in Decodable(n) :
                /\ call' = [OffBudget(c, IF good = {} THEN "refused" ELSE "temp") EXCEPT
                           ![c].received = 1 .. n, ![c].todo = good, ![c].failed = (1 .. n) \ good]
                /\ IF good # {} THEN UNCHANGED error
                   ELSE \E code \in {"output_error", "internal_error"} :
                          error' = [error EXCEPT ![c] = code]
            BY <3>1
        <3>3. call'[c].pc = IF good = {} THEN "refused" ELSE "temp"
            BY <1>0, <3>2 DEF OffBudget, CallsOK, CallRecord
        <3>4. CASE good = {}
            BY <1>0, <3>2, <3>3, <3>4 DEF RestOK
        <3>5. CASE good # {}
            BY <1>2, <3>2, <3>3, <3>5
        <3> QED BY <3>4, <3>5
    <2>4. CASE call'[c].pc = "temp"
        BY <1>2, <1>3, <2>1, <2>3, <2>4 DEF Explained, At
    <2>5. CASE call'[c].pc = "refused"
        BY <1>5, <2>1, <2>3, <2>5 DEF ProviderRefusals
    <2> QED BY <2>2, <2>4, <2>5
<1>10. CASE ErrorResponse(c)
    <2> DEFINE Again(s, t) == [call EXCEPT ![c].spent = s, ![c].timeout = 0,
                                           ![c].attempt = t, ![c].pc = "attempt"]
    <2>1. PICK status \in Statuses :
            /\ \/ /\ \E s, t : call' = Again(s, t)
                  /\ Retryable(status) /\ UNCHANGED error
               \/ \E moderated \in BOOLEAN : Refuse(c, CodeOf(status, moderated))
            /\ Sent(c, IF Retryable(status) THEN "busy" ELSE "rejected")
        BY <1>10 DEF ErrorResponse
    <2>2. Outcome(c)' = Outcome(c) \cup {IF Retryable(status) THEN "busy" ELSE "rejected"}
        BY <1>0, <2>1, SentOutcome DEF Fates
    <2>3. ASSUME \E s, t : call' = Again(s, t), Retryable(status), UNCHANGED error
          PROVE  Explained(c)'
        <3>1. call'[c].pc = "attempt"
            BY <1>0, <2>3 DEF CallsOK, CallRecord
        <3> QED BY <1>2, <1>4, <2>2, <2>3, <3>1 DEF Requesting
    <2>4. ASSUME NEW moderated \in BOOLEAN, Refuse(c, CodeOf(status, moderated))
          PROVE  Explained(c)'
        <3> DEFINE code == CodeOf(status, moderated)
        <3>1. call'[c].pc = "refused" /\ error'[c] = code
            BY <1>1, <2>4, RefusedExplained
        <3>2. /\ code \in ProviderRefusals \cup {"rate_limited", "service_error"}
              /\ Retryable(status) => code \notin ProviderRefusals
            BY RequestAssumption, AnswerCodes
        <3>3. code \notin {"output_error", "internal_error", "api_timeout", "connection_error"}
            BY <3>2 DEF ProviderRefusals
        <3> HIDE DEF code
        <3> QED BY <1>5, <2>2, <3>1, <3>2, <3>3
    <2> QED BY <2>1, <2>3, <2>4
<1>11. CASE NoResponse(c)
    <2>1. PICK code \in {"api_timeout", "connection_error"} : Refuse(c, code)
        BY <1>11 DEF NoResponse
    <2>2. call'[c].pc = "refused" /\ error'[c] = code
        BY <1>1, <2>1, RefusedExplained
    <2>3. Outcome(c)' = Outcome(c) \cup {"unknown"}
        BY <1>0, <1>11, SentOutcome DEF NoResponse, Fates
    <2> QED BY <1>5, <2>1, <2>2, <2>3 DEF ProviderRefusals
<1> QED
    BY <1>6, <1>7, <1>8, <1>9, <1>10, <1>11

\* Until its images came a call has no files and nothing to account for.
LEMMA NothingYet ==
    ASSUME ReportInv, NEW c \in Calls, call[c].pc \in Requesting
    PROVE  /\ call[c].received = {} /\ call[c].failed = {} /\ call[c].todo = {}
           /\ Landed(c) = {} /\ \A i \in Images(c) : Owned(c, i) = {}
<1>1. Accounted(c) /\ Found(c)
    BY DEF ReportInv, Sound, At, Requesting
<1>2. call[c].pc \notin Publishing
    BY DEF Requesting, Publishing
<1> QED
    BY <1>1, <1>2 DEF Accounted, Found

\* The disk stays as it is, and a call has no image under way.
LEMMA FoundAtRest ==
    ASSUME ReportInv, NEW c \in Calls, UNCHANGED disk, call'[c].pc \notin Publishing,
           call'[c].published = call[c].published, call[c].failed \subseteq call'[c].failed,
           \A i \in Images(c) \ (Landed(c) \cup call'[c].failed) : Owned(c, i) = {},
           ~At(c, "killed")
    PROVE  Found(c)'
<1>1. Found(c)
    BY DEF ReportInv, Sound
<1>2. Landed(c)' = Landed(c) /\ \A i : Owned(c, i)' = Owned(c, i)
    BY DEF Landed, Owned
<1> QED
    BY <1>1, <1>2 DEF Found, At, Publishing

LEMMA RequestsReport ==
    ASSUME ReportInv, NEW c \in Calls,
           Check(c) \/ Attempt(c) \/ AttemptRefused(c) \/ Receive(c)
             \/ ErrorResponse(c) \/ NoResponse(c)
    PROVE  Accounted(c)' /\ Found(c)'
<1>0. TypeOK /\ CallsOK /\ call[c] \in CallRecord(c)
    BY TypeOKParts DEF ReportInv, FillInv, CallsOK
<1>1. call[c].pc \in Requesting /\ UNCHANGED disk
    BY DEF Check, Attempt, AttemptRefused, Receive, ErrorResponse, NoResponse, At, Requesting
<1>2. /\ call[c].received = {} /\ call[c].failed = {} /\ call[c].todo = {}
      /\ Landed(c) = {} /\ \A i \in Images(c) : Owned(c, i) = {}
    BY <1>1, NothingYet
<1>3. /\ "refused" \notin Requesting \cup Publishing /\ Publishing \cap Requesting = {}
      /\ "temp" \notin Publishing \cup Requesting /\ ~At(c, "killed")
    BY <1>1 DEF Requesting, Publishing, At
<1>4. ASSUME call'[c].pc \in Requesting \cup {"refused"},
             call'[c].published = call[c].published, call'[c].received = call[c].received,
             call'[c].failed = call[c].failed, call'[c].todo = call[c].todo
      PROVE  Accounted(c)' /\ Found(c)'
    <2>1. Landed(c)' = Landed(c)
        BY <1>4 DEF Landed
    <2>2. Accounted(c)'
        BY <1>2, <1>4, <2>1 DEF Accounted
    <2>3. call'[c].pc \notin Publishing
        BY <1>3, <1>4
    <2>4. Found(c)'
        BY <1>1, <1>2, <1>3, <1>4, <2>3, FoundAtRest
    <2> QED BY <2>2, <2>4
<1>5. ASSUME NEW code, Refuse(c, code) PROVE Accounted(c)' /\ Found(c)'
    <2>1. /\ call'[c].pc = "refused"
          /\ call'[c].published = call[c].published /\ call'[c].received = call[c].received
          /\ call'[c].failed = call[c].failed /\ call'[c].todo = call[c].todo
        BY <1>0, <1>5 DEF Refuse, OffBudget, CallsOK, CallRecord
    <2> QED BY <1>4, <2>1
<1>6. CASE Check(c)
    <2>1. ASSUME NEW t \in ReadingTime(c),
                 call' = [call EXCEPT ![c].spent = t, ![c].pc = "attempt"]
          PROVE  Accounted(c)' /\ Found(c)'
        <3>1. /\ call'[c].pc = "attempt"
              /\ call'[c].published = call[c].published /\ call'[c].received = call[c].received
              /\ call'[c].failed = call[c].failed /\ call'[c].todo = call[c].todo
            BY <1>0, <2>1 DEF CallsOK, CallRecord
        <3> QED BY <1>4, <3>1 DEF Requesting
    <2> QED BY <1>5, <1>6, <2>1 DEF Check
<1>7. CASE Attempt(c)
    <2>1. ASSUME NEW s, NEW t, call' = [call EXCEPT ![c].timeout = s, ![c].spent = t,
                                                    ![c].pc = "waiting"]
          PROVE  Accounted(c)' /\ Found(c)'
        <3>1. /\ call'[c].pc = "waiting"
              /\ call'[c].published = call[c].published /\ call'[c].received = call[c].received
              /\ call'[c].failed = call[c].failed /\ call'[c].todo = call[c].todo
            BY <1>0, <2>1 DEF CallsOK, CallRecord
        <3> QED BY <1>4, <3>1 DEF Requesting
    <2> QED BY <1>7, <2>1 DEF Attempt
<1>8. CASE AttemptRefused(c)
    BY <1>5, <1>8 DEF AttemptRefused
<1>9. CASE ErrorResponse(c)
    <2>1. ASSUME NEW s, NEW t, call' = [call EXCEPT ![c].spent = s, ![c].timeout = 0,
                                           ![c].attempt = t, ![c].pc = "attempt"]
          PROVE  Accounted(c)' /\ Found(c)'
        <3>1. /\ call'[c].pc = "attempt"
              /\ call'[c].published = call[c].published /\ call'[c].received = call[c].received
              /\ call'[c].failed = call[c].failed /\ call'[c].todo = call[c].todo
            BY <1>0, <2>1 DEF CallsOK, CallRecord
        <3> QED BY <1>4, <3>1 DEF Requesting
    <2> QED BY <1>5, <1>9, <2>1 DEF ErrorResponse
<1>10. CASE NoResponse(c)
    BY <1>5, <1>10 DEF NoResponse
<1>11. CASE Receive(c)
    <2>1. PICK n \in 0 .. Wanted[c] : \E good \in SUBSET (1 .. n) :
            call' = [OffBudget(c, IF good = {} THEN "refused" ELSE "temp") EXCEPT
                       ![c].received = 1 .. n, ![c].todo = good,
                       ![c].failed = (1 .. n) \ good]
        BY <1>11 DEF Receive, Decodable
    <2>2. PICK good \in SUBSET (1 .. n) :
            call' = [OffBudget(c, IF good = {} THEN "refused" ELSE "temp") EXCEPT
                       ![c].received = 1 .. n, ![c].todo = good,
                       ![c].failed = (1 .. n) \ good]
        BY <2>1
    <2>3. /\ call'[c].pc = IF good = {} THEN "refused" ELSE "temp"
          /\ call'[c].published = call[c].published /\ call'[c].received = 1 .. n
          /\ call'[c].failed = (1 .. n) \ good /\ call'[c].todo = good
        BY <1>0, <2>2 DEF OffBudget, CallsOK, CallRecord
    <2>4. Landed(c)' = {}
        BY <1>2, <2>3 DEF Landed
    <2>5. Accounted(c)'
        BY <1>3, <2>3, <2>4 DEF Accounted, Answered, At
    <2>6. Found(c)'
        BY <1>1, <1>2, <1>3, <2>3, FoundAtRest
    <2> QED BY <2>5, <2>6
<1> QED
    BY <1>6, <1>7, <1>8, <1>9, <1>10, <1>11

\* Going to another place changes no other local.
Locals(c) ==
    /\ call'[c].received = call[c].received /\ call'[c].todo = call[c].todo
    /\ call'[c].failed = call[c].failed /\ call'[c].published = call[c].published
    /\ call'[c].image = call[c].image

LEMMA GotoLocals ==
    ASSUME CallsOK, NEW c \in Calls, NEW pc, Goto(c, pc)
    PROVE  /\ call'[c].pc = pc /\ Locals(c)
           /\ call'[c].landed = call[c].landed /\ call'[c].suffix = call[c].suffix
BY DEF Goto, CallsOK, CallRecord, Locals

LEMMA AdvanceLocals ==
    ASSUME CallsOK, NEW c \in Calls, Advance(c)
    PROVE  /\ call'[c].pc \in {"link", "cleanup"} /\ Locals(c)
           /\ call'[c].landed = call[c].landed
BY DEF Advance, CallsOK, CallRecord, Locals

LEMMA LandLocals ==
    ASSUME CallsOK, NEW c \in Calls, call' = Land(c)
    PROVE  call'[c].pc = "cleanup" /\ Locals(c) /\ call'[c].landed = Target(c)
BY DEF Land, CallsOK, CallRecord, Locals

\* A file that is placed is one of its image, and no other file is touched.
LEMMA PlaceOwned ==
    ASSUME TypeOK, NEW c \in Calls, NEW whole \in BOOLEAN, Place(c, Mine(c, whole)),
           Target(c) \in Names, call[c].image \in Nat,
           disk[Target(c)] = None \/ Target(c) \in Owned(c, call[c].image)
    PROVE  /\ disk'[Target(c)] = Mine(c, whole)
           /\ \A i : i # call[c].image =>
                Owned(c, i)' = Owned(c, i) /\ \A n \in Owned(c, i) : disk'[n] = disk[n]
           /\ {n \in Names : disk'[n] # None /\ disk'[n].by = c /\ disk'[n].image = call[c].image}
                = Owned(c, call[c].image) \cup {Target(c)}
<1> DEFINE t == Target(c)
           file == Mine(c, whole)
<1>1. file # None /\ file.by = c /\ file.image = call[c].image
    BY FileIsThere DEF Mine, File
<1>2. disk' = [disk EXCEPT ![t] = file] /\ DOMAIN disk = Names
    BY DEF Place, TypeOK
<1>3. disk[t] = None \/ (disk[t].by = c /\ disk[t].image = call[c].image)
    BY DEF Owned
<1>4. t \in Names
    OBVIOUS
<1> HIDE DEF t, file
<1>5. disk'[t] = file /\ \A n \in Names \ {t} : disk'[n] = disk[n]
    BY <1>2, <1>4
<1>6. ASSUME NEW i, i # call[c].image
      PROVE  Owned(c, i)' = Owned(c, i) /\ \A n \in Owned(c, i) : disk'[n] = disk[n]
    BY <1>1, <1>3, <1>5, <1>6 DEF Owned
<1>7. {n \in Names : disk'[n] # None /\ disk'[n].by = c /\ disk'[n].image = call[c].image}
        = Owned(c, call[c].image) \cup {t}
    BY <1>1, <1>3, <1>4, <1>5 DEF Owned
<1> QED
    BY <1>5, <1>6, <1>7 DEF t, file

\* While an image is published, only what becomes of it is to be looked at.
LEMMA UnderWay ==
    ASSUME ReportInv, NEW c \in Calls, call[c].pc \in Publishing, call'[c].pc \in Publishing,
           Locals(c),
           \A i : i # call[c].image =>
                Owned(c, i)' = Owned(c, i) /\ \A n \in Owned(c, i) : disk'[n] = disk[n],
           call'[c].pc \in {"write", "link", "create"} =>
                call'[c].landed = None /\ Owned(c, call[c].image)' = {},
           call'[c].pc = "fill" =>
                call'[c].landed = None /\ Owned(c, call[c].image)' = {Target(c)'},
           call'[c].pc \in {"cleanup", "next"} /\ call'[c].landed # None =>
                /\ Owned(c, call[c].image)' = {call'[c].landed}
                /\ disk'[call'[c].landed] = File(c, call[c].image, TRUE)
    PROVE  Accounted(c)' /\ Found(c)'
<1> DEFINE q == call[c]
           r == call'[c]
<1>1. Accounted(c) /\ Found(c) /\ q.image \in q.todo
    BY DEF ReportInv, Sound, FillInv, TypeOK, At, Publishing
<1>2. q.image \notin Landed(c) \cup q.failed
    BY <1>1 DEF Accounted
<1>3. /\ r.received = q.received /\ r.todo = q.todo /\ r.failed = q.failed
      /\ r.published = q.published /\ r.image = q.image
    BY DEF Locals
<1>4. Landed(c)' = Landed(c)
    BY <1>3 DEF Landed
<1>5. Accounted(c)'
    BY <1>1, <1>3, <1>4 DEF Accounted, Answered, At, Publishing, Requesting
<1>6. \A i \in Landed(c) : Owned(c, i)' = {q.published[i]}
                             /\ disk'[q.published[i]] = File(c, i, TRUE)
    BY ZenonT(60), <1>1, <1>2 DEF Found
<1>7. \A i \in Images(c) \ (Landed(c) \cup q.failed) : i = q.image \/ Owned(c, i)' = {}
    BY <1>1 DEF Found
<1>8. Found(c)'
    BY <1>3, <1>4, <1>6, <1>7 DEF Found, At
<1> QED
    BY <1>5, <1>8

\* What has been written to the disk is as it was.
LEMMA SameDisk ==
    ASSUME NEW c \in Calls, UNCHANGED disk
    PROVE  \A i : Owned(c, i)' = Owned(c, i) /\ \A n \in Owned(c, i) : disk'[n] = disk[n]
BY DEF Owned

LEMMA MakeTempReport ==
    ASSUME ReportInv, NEW c \in Calls, MakeTemp(c) PROVE Accounted(c)' /\ Found(c)'
<1> DEFINE q == call[c]
           r == call'[c]
<1>1. CallsOK /\ q \in CallRecord(c) /\ q.pc = "temp" /\ UNCHANGED disk
    BY TypeOKParts DEF ReportInv, FillInv, CallsOK, MakeTemp, At
<1>2. Accounted(c) /\ Found(c)
    BY <1>1 DEF ReportInv, Sound, At
<1>3. PICK i \in q.todo, pc \in {"write", "next"} :
        call' = [call EXCEPT ![c].pc = pc, ![c].image = i, ![c].suffix = 0, ![c].landed = None]
    BY DEF MakeTemp
<1>4. /\ r.pc \in {"write", "next"} /\ r.image = i /\ r.landed = None
      /\ r.received = q.received /\ r.todo = q.todo /\ r.failed = q.failed
      /\ r.published = q.published
    BY <1>1, <1>3 DEF CallsOK, CallRecord
<1>5. Landed(c)' = Landed(c) /\ \A j : Owned(c, j)' = Owned(c, j)
    BY <1>1, <1>4 DEF Landed, Owned
<1>6. i \in Images(c) \ (Landed(c) \cup q.failed)
    BY <1>1, <1>2, <1>3 DEF Accounted, CallRecord
<1>7. \A j \in Images(c) \ (Landed(c) \cup q.failed) : Owned(c, j) = {}
    BY <1>1, <1>2 DEF Found, Publishing
<1>8. Accounted(c)'
    BY <1>2, <1>4, <1>5 DEF Accounted, Answered, At, Requesting
<1>9. Found(c)'
    <2>1. \A j \in Landed(c)' : Owned(c, j)' = {r.published[j]}
                                  /\ disk'[r.published[j]] = File(c, j, TRUE)
        BY <1>1, <1>2, <1>4, <1>5 DEF Found
    <2>2. \A j \in Images(c) \ (Landed(c)' \cup r.failed) : Owned(c, j)' = {}
        BY <1>4, <1>5, <1>7
    <2>3. Owned(c, i)' = {}
        BY <1>5, <1>6, <1>7
    <2> QED BY <1>4, <2>1, <2>2, <2>3 DEF Found, At
<1> QED
    BY <1>8, <1>9

LEMMA NextImageReport ==
    ASSUME ReportInv, NEW c \in Calls, NextImage(c) PROVE Accounted(c)' /\ Found(c)'
<1> DEFINE q == call[c]
           r == call'[c]
           i == q.image
<1>1. /\ CallsOK /\ q \in CallRecord(c) /\ q.pc = "next" /\ UNCHANGED disk
      /\ i \in q.todo /\ i \in Images(c)
    BY TypeOKParts DEF ReportInv, FillInv, CallsOK, CallRecord, NextImage, At, Publishing
<1>2. Accounted(c) /\ Found(c)
    BY <1>1 DEF ReportInv, Sound, At
<1>3. /\ r.published = [q.published EXCEPT ![i] = q.landed]
      /\ r.todo = q.todo \ {i} /\ r.received = q.received
      /\ r.failed = IF q.landed = None THEN q.failed \cup {i} ELSE q.failed
      /\ r.pc = IF r.todo # {} THEN "temp"
                ELSE IF \E j \in Images(c) : r.published[j] # None THEN "answered" ELSE "refused"
    BY <1>1 DEF NextImage, CallsOK, CallRecord
<1>4. i \notin Landed(c) \cup q.failed
    BY <1>1, <1>2 DEF Accounted
<1>5. /\ r.published[i] = q.landed
      /\ \A j \in Images(c) \ {i} : r.published[j] = q.published[j]
    BY <1>1, <1>3 DEF CallRecord
<1>6. Landed(c)' = IF q.landed = None THEN Landed(c) ELSE Landed(c) \cup {i}
    BY <1>1, <1>4, <1>5 DEF Landed
<1>7. r.pc = "refused" => Landed(c)' = {}
    BY <1>3 DEF Landed
<1>8. r.pc \in {"temp", "answered", "refused"} /\ r.pc \notin Publishing \cup Requesting
    BY <1>3 DEF Publishing, Requesting
<1>9. Accounted(c)'
    <2>1. Landed(c)' \cup r.failed \cup r.todo = r.received
        BY <1>1, <1>2, <1>3, <1>6 DEF Accounted
    <2>2. /\ Landed(c)' \cap r.failed = {}
          /\ r.todo \cap (Landed(c)' \cup r.failed) = {}
        BY <1>2, <1>3, <1>4, <1>6 DEF Accounted
    <2> QED BY <1>3, <1>7, <1>8, <2>1, <2>2 DEF Accounted, Answered, At
<1>10. Found(c)'
    <2>1. \A j : Owned(c, j)' = Owned(c, j)
        BY <1>1 DEF Owned
    <2>2. ASSUME NEW j \in Landed(c)'
          PROVE  Owned(c, j)' = {r.published[j]} /\ disk'[r.published[j]] = File(c, j, TRUE)
        <3>1. CASE j = i
            BY <1>1, <1>2, <1>4, <1>5, <1>6, <2>1, <2>2, <3>1 DEF Found
        <3>2. CASE j # i
            BY ZenonT(60), <1>1, <1>2, <1>5, <1>6, <2>1, <2>2, <3>2 DEF Found, Landed
        <3> QED BY <3>1, <3>2
    <2>3. \A j \in Images(c) \ (Landed(c)' \cup r.failed) : Owned(c, j)' = {}
        BY <1>2, <1>3, <1>6, <2>1 DEF Found
    <2> QED BY <1>8, <2>2, <2>3 DEF Found, At, Publishing
<1> QED
    BY <1>9, <1>10

LEMMA PublishingReport ==
    ASSUME ReportInv, NEW c \in Calls,
           WriteTemp(c) \/ Link(c) \/ Create(c) \/ Fill(c) \/ Cleanup(c)
    PROVE  Accounted(c)' /\ Found(c)'
<1> DEFINE q == call[c]
           r == call'[c]
<1>1. /\ TypeOK /\ CallsOK /\ q \in CallRecord(c) /\ q.image \in Images(c)
      /\ q.pc \in Publishing /\ q.pc \in {"write", "link", "create", "fill", "cleanup"}
      /\ q.pc # "cleanup" => q.suffix \in Attempts
    BY TypeOKParts
    DEF ReportInv, FillInv, CallsOK, CallRecord, WriteTemp, Link, Create, Fill, Cleanup, At,
        Publishing
<1>2. Accounted(c) /\ Found(c)
    BY <1>1 DEF ReportInv, Sound, At
<1>3. \A pc \in {"write", "link", "create", "fill", "cleanup", "next"} : pc \in Publishing
    BY DEF Publishing
<1>4. q.pc # "cleanup" => Target(c) \in Names
    BY <1>1, TargetType DEF Target
\* The call goes on without having touched the disk.
<1>5. ASSUME NEW pc \in {"link", "create", "cleanup"}, q.pc \in {"write", "link", "create"},
             r.pc = pc, Locals(c), r.landed = q.landed, UNCHANGED disk
      PROVE  Accounted(c)' /\ Found(c)'
    <2>1. q.landed = None /\ Owned(c, q.image) = {}
        BY <1>2, <1>5 DEF Found
    <2>2. Owned(c, q.image)' = {} /\ r.landed = None
        BY <1>5, <2>1, SameDisk DEF Locals
    <2>3. r.pc \in Publishing /\ r.pc # "fill"
        BY <1>3, <1>5
    <2> QED BY <1>1, <1>5, <2>2, <2>3, SameDisk, UnderWay
<1>6. ASSUME NEW whole \in BOOLEAN, Place(c, Mine(c, whole)), q.pc \in {"link", "create", "fill"},
             q.pc # "fill" => ~Taken(c), Locals(c)
      PROVE  /\ disk'[Target(c)] = Mine(c, whole) /\ Owned(c, q.image)' = {Target(c)}
             /\ q.landed = None
             /\ \A j : j # q.image =>
                  Owned(c, j)' = Owned(c, j) /\ \A n \in Owned(c, j) : disk'[n] = disk[n]
    <2>1. /\ q.landed = None
          /\ Owned(c, q.image) \subseteq {Target(c)}
          /\ disk[Target(c)] = None \/ Target(c) \in Owned(c, q.image)
        BY <1>2, <1>6 DEF Found, At, Taken
    <2>2. Target(c) \in Names /\ q.image \in Nat
        BY <1>1, <1>4, <1>6 DEF Images
    <2>3. /\ disk'[Target(c)] = Mine(c, whole)
          /\ \A j : j # q.image =>
               Owned(c, j)' = Owned(c, j) /\ \A n \in Owned(c, j) : disk'[n] = disk[n]
          /\ {n \in Names : disk'[n] # None /\ disk'[n].by = c /\ disk'[n].image = q.image}
               = Owned(c, q.image) \cup {Target(c)}
        BY <1>1, <1>6, <2>1, <2>2, PlaceOwned
    <2>4. Owned(c, q.image)'
            = {n \in Names : disk'[n] # None /\ disk'[n].by = c /\ disk'[n].image = q.image}
        BY <1>6 DEF Owned, Locals
    <2> QED BY <2>1, <2>3, <2>4
\* The whole image stands under the name.
<1>7. ASSUME Place(c, Mine(c, TRUE)), call' = Land(c), q.pc \in {"link", "fill"},
             q.pc # "fill" => ~Taken(c)
      PROVE  Accounted(c)' /\ Found(c)'
    <2>1. r.pc = "cleanup" /\ Locals(c) /\ r.landed = Target(c)
        BY <1>1, <1>7, LandLocals
    <2>2. /\ disk'[Target(c)] = Mine(c, TRUE) /\ Owned(c, q.image)' = {Target(c)}
          /\ \A j : j # q.image =>
               Owned(c, j)' = Owned(c, j) /\ \A n \in Owned(c, j) : disk'[n] = disk[n]
        BY <1>6, <1>7, <2>1
    <2>3. disk'[r.landed] = File(c, q.image, TRUE)
        BY <2>1, <2>2 DEF Mine
    <2> QED BY <1>1, <1>3, <2>1, <2>2, <2>3, UnderWay
<1>8. CASE WriteTemp(c)
    <2>1. PICK pc \in {"link", "cleanup"} : Goto(c, pc)
        BY <1>8 DEF WriteTemp
    <2>2. r.pc = pc /\ Locals(c) /\ r.landed = q.landed
        BY <1>1, <2>1, GotoLocals
    <2> QED BY <1>5, <1>8, <2>2 DEF WriteTemp, At
<1>9. ASSUME Advance(c), UNCHANGED disk, q.pc \in {"link", "create"}
      PROVE  Accounted(c)' /\ Found(c)'
    BY <1>1, <1>5, <1>9, AdvanceLocals
<1>10. CASE Link(c)
    <2>1. q.pc = "link"
        BY <1>10 DEF Link, At
    <2>2. ASSUME Goto(c, "create"), UNCHANGED disk PROVE Accounted(c)' /\ Found(c)'
        BY <1>1, <1>5, <2>1, <2>2, GotoLocals
    <2> QED BY <1>7, <1>9, <1>10, <2>1, <2>2 DEF Link
<1>11. CASE Create(c)
    <2>1. q.pc = "create"
        BY <1>11 DEF Create, At
    <2>2. ASSUME Goto(c, "cleanup"), UNCHANGED disk PROVE Accounted(c)' /\ Found(c)'
        BY <1>1, <1>5, <2>1, <2>2, GotoLocals
    <2>3. ASSUME Place(c, Mine(c, FALSE)), Goto(c, "fill"), ~Taken(c)
          PROVE  Accounted(c)' /\ Found(c)'
        <3>1. /\ r.pc = "fill" /\ Locals(c)
              /\ r.landed = q.landed /\ Target(c)' = Target(c)
            BY <1>1, <2>3, GotoLocals DEF Target
        <3>2. /\ Owned(c, q.image)' = {Target(c)} /\ q.landed = None
              /\ \A j : j # q.image =>
                   Owned(c, j)' = Owned(c, j) /\ \A n \in Owned(c, j) : disk'[n] = disk[n]
            BY <1>6, <2>1, <2>3, <3>1
        <3> QED BY <1>1, <1>3, <3>1, <3>2, UnderWay
    <2> QED BY <1>9, <1>11, <2>1, <2>2, <2>3 DEF Create
<1>12. CASE Fill(c)
    <2>1. q.pc = "fill"
        BY <1>12 DEF Fill, At
    <2>2. ASSUME NEW whole \in BOOLEAN, Place(c, Mine(c, whole)), Goto(c, "cleanup")
          PROVE  Accounted(c)' /\ Found(c)'
        <3>1. r.pc = "cleanup" /\ Locals(c) /\ r.landed = q.landed
            BY <1>1, <2>2, GotoLocals
        <3>2. /\ q.landed = None
              /\ \A j : j # q.image =>
                   Owned(c, j)' = Owned(c, j) /\ \A n \in Owned(c, j) : disk'[n] = disk[n]
            BY <1>6, <2>1, <2>2, <3>1
        <3> QED BY <1>1, <1>3, <3>1, <3>2, UnderWay
    <2> QED BY <1>7, <1>12, <2>1, <2>2 DEF Fill
<1>13. CASE Cleanup(c)
    <2>1. q.pc = "cleanup" /\ UNCHANGED disk /\ Goto(c, "next")
        BY <1>13 DEF Cleanup, At
    <2>2. r.pc = "next" /\ Locals(c) /\ r.landed = q.landed
        BY <1>1, <2>1, GotoLocals
    <2>3. q.landed # None => /\ Owned(c, q.image)' = {q.landed}
                             /\ disk'[q.landed] = File(c, q.image, TRUE)
        <3>1. Owned(c, q.image)' = Owned(c, q.image)
            BY <2>1, <2>2 DEF Owned, Locals
        <3>2. q.landed # None => /\ Owned(c, q.image) = {q.landed}
                                 /\ disk[q.landed] = File(c, q.image, TRUE)
            BY <1>2, <2>1 DEF Found
        <3> QED BY <2>1, <3>1, <3>2
    <2> QED BY <1>1, <1>3, <2>1, <2>2, <2>3, SameDisk, UnderWay
<1> QED
    BY <1>8, <1>10, <1>11, <1>12, <1>13

LEMMA PublishingExplained ==
    ASSUME ReportInv, NEW c \in Calls,
           \/ MakeTemp(c) \/ WriteTemp(c) \/ Link(c) \/ Create(c) \/ Fill(c)
           \/ Cleanup(c) \/ NextImage(c)
    PROVE  Explained(c)'
<1>0. CallsOK /\ RestOK /\ call[c] \in CallRecord(c)
    BY TypeOKParts DEF ReportInv, FillInv, CallsOK
<1>1. call[c].pc \in Publishing \cup {"temp"} /\ Outcome(c)' = Outcome(c)
    <2>1. UNCHANGED requests
        BY DEF MakeTemp, WriteTemp, Link, Create, Fill, Cleanup, NextImage
    <2>2. \E pc \in Publishing \cup {"temp"} : At(c, pc)
        BY DEF MakeTemp, WriteTemp, Link, Create, Fill, Cleanup, NextImage, Publishing
    <2> QED BY <2>1, <2>2 DEF At, Outcome
<1>2. ~At(c, "refused") /\ ~At(c, "killed")
    BY <1>1 DEF At, Publishing
<1>3. /\ Outcome(c) \subseteq {"busy", "billed"} /\ "billed" \in Outcome(c)
      /\ error[c] = None
    BY <1>1, <1>2 DEF ReportInv, Sound, Explained
\* The call goes on, or answers.
<1>4. ASSUME UNCHANGED error, call'[c].pc \in Publishing \cup {"temp", "answered"}
      PROVE  Explained(c)'
    <2>1. call'[c].pc \notin Requesting \cup {"refused"}
        BY <1>4 DEF Publishing, Requesting
    <2> QED BY <1>1, <1>3, <1>4, <2>1 DEF Explained, At
<1>5. CASE MakeTemp(c)
    <2>1. call'[c].pc \in {"write", "next"}
        <3>1. PICK i \in call[c].todo, pc \in {"write", "next"} :
                call' = [call EXCEPT ![c].pc = pc, ![c].image = i, ![c].suffix = 0,
                                     ![c].landed = None]
            BY <1>5 DEF MakeTemp
        <3> QED BY <1>0, <3>1 DEF CallsOK, CallRecord
    <2> QED BY <1>4, <1>5, <2>1 DEF MakeTemp, Publishing
<1>6. CASE WriteTemp(c) \/ Link(c) \/ Create(c) \/ Fill(c) \/ Cleanup(c)
    <2>1. /\ UNCHANGED error
          /\ \/ \E pc \in {"link", "create", "fill", "cleanup", "next"} : Goto(c, pc)
             \/ Advance(c) \/ call' = Land(c)
        BY <1>6 DEF WriteTemp, Link, Create, Fill, Cleanup
    <2>2. call'[c].pc \in {"link", "create", "fill", "cleanup", "next"}
        BY <1>0, <2>1, GotoLocals, AdvanceLocals, LandLocals
    <2> QED BY <1>4, <2>1, <2>2 DEF Publishing
<1>7. CASE NextImage(c)
    <2>1. PICK pc \in {"temp", "answered", "refused"} :
            /\ call'[c].pc = pc
            /\ error' = IF pc = "refused" THEN [error EXCEPT ![c] = "output_error"] ELSE error
        BY <1>0, <1>7 DEF NextImage, CallsOK, CallRecord
    <2>2. CASE pc # "refused"
        BY <1>4, <2>1, <2>2
    <2>3. CASE pc = "refused"
        <3>1. call'[c].pc = "refused" /\ error'[c] = "output_error"
            BY <1>0, <2>1, <2>3 DEF RestOK
        <3>2. "refused" \notin Requesting \cup Publishing
            BY DEF Requesting, Publishing
        <3>3. "output_error" \notin ProviderRefusals
            BY DEF ProviderRefusals
        <3> QED BY <1>1, <1>3, <3>1, <3>2, <3>3 DEF Explained, At
    <2> QED BY <2>2, <2>3
<1> QED
    BY <1>5, <1>6, <1>7

LEMMA ReportStep == ReportInv /\ [Next]_vars => ReportInv'
<1> SUFFICES ASSUME ReportInv, [Next]_vars PROVE ReportInv'
    OBVIOUS
<1>1. FillInv /\ FillInv'
    BY FillStep DEF ReportInv
<1>2. ASSUME NEW c \in Calls, Undisturbed(c) PROVE Sound(c)'
    BY <1>2, UndisturbedSound
<1>3. ASSUME NEW c \in Calls, Step(c) PROVE Sound(c)'
    <2>1. CASE \/ Check(c) \/ Attempt(c) \/ AttemptRefused(c)
               \/ Receive(c) \/ ErrorResponse(c) \/ NoResponse(c)
        BY <2>1, RequestsReport, RequestsExplained DEF Sound
    <2>2. CASE MakeTemp(c)
        BY <2>2, MakeTempReport, PublishingExplained DEF Sound
    <2>3. CASE WriteTemp(c) \/ Link(c) \/ Create(c) \/ Fill(c) \/ Cleanup(c)
        BY <2>3, PublishingReport, PublishingExplained DEF Sound
    <2>4. CASE NextImage(c)
        BY <2>4, NextImageReport, PublishingExplained DEF Sound
    <2> QED BY <1>3, <2>1, <2>2, <2>3, <2>4 DEF Step
<1>4. ASSUME NEW c \in Calls, Kill(c) PROVE Sound(c)'
    <2>1. call'[c].pc = "killed"
        BY <1>1, <1>4, TypeOKParts, OffBudgetStep DEF FillInv, Kill
    <2> QED BY <2>1 DEF Sound, At
<1>5. ASSUME NEW c \in Calls PROVE Sound(c)'
    <2>1. CASE Step(c) \/ Kill(c)
        BY <1>3, <1>4, <2>1
    <2>2. CASE ~(Step(c) \/ Kill(c))
        <3>1. \/ UNCHANGED vars
              \/ \E n \in UserFiles : UserSaves(n)
              \/ \E d \in Calls : d # c /\ (Step(d) \/ Kill(d))
            BY <2>2 DEF Next
        <3> QED BY <1>1, <1>2, <3>1, OthersStep
    <2> QED BY <2>1, <2>2
<1> QED
    BY <1>1, <1>5 DEF ReportInv

LEMMA ReportInit == Init => ReportInv
<1> SUFFICES ASSUME Init PROVE ReportInv
    OBVIOUS
<1>1. FillInv
    BY TypedInit DEF FillInv, Init, At
<1>2. ASSUME NEW c \in Calls PROVE Sound(c)
    <2>1. /\ call[c].pc = "checking" /\ call[c].received = {} /\ call[c].todo = {}
          /\ call[c].failed = {} /\ call[c].published = [i \in Images(c) |-> None]
          /\ requests[c] = <<>> /\ error[c] = None
        BY DEF Init
    <2>2. Landed(c) = {} /\ Outcome(c) = {}
        BY <2>1 DEF Landed, Outcome
    <2>3. \A i : Owned(c, i) = {}
        <3>1. TheUsers.by # c
            BY ImageAssumption DEF TheUsers, File
        <3> QED BY <3>1 DEF Owned, Init
    <2>4. "checking" \notin Publishing
        BY DEF Publishing
    <2> QED BY <2>1, <2>2, <2>3, <2>4 DEF Sound, Accounted, Found, Explained, At, Answered
<1> QED
    BY <1>1, <1>2 DEF ReportInv

\* A call that has as many images as were asked for has all of them.
LEMMA AllLanded ==
    ASSUME NEW c \in Calls, NEW L \in SUBSET Images(c), Cardinality(L) = Wanted[c]
    PROVE  L = Images(c)
<1>1. Wanted[c] \in Nat
    BY ImageAssumption
<1>2. /\ IsFiniteSet(1 .. Wanted[c])
      /\ Cardinality(1 .. Wanted[c]) = IF 1 > Wanted[c] THEN 0 ELSE Wanted[c] - 1 + 1
    <2>1. 1 \in Int /\ Wanted[c] \in Int
        BY <1>1
    <2> QED BY ONLY <2>1, FS_Interval
<1>3. IsFiniteSet(Images(c)) /\ Cardinality(Images(c)) = Wanted[c]
    BY <1>1, <1>2 DEF Images
<1> QED
    BY <1>3, FS_Subset

LEMMA ReportFollows == ReportInv => ReportIsTrue
<1> SUFFICES ASSUME ReportInv, NEW c \in Calls, Answered(c)
             PROVE  FilesAreTrue(c) /\ ErrorIsTrue(c)
    BY DEF ReportIsTrue
<1>1. Accounted(c) /\ Found(c) /\ Explained(c)
    BY DEF ReportInv, Sound, Answered, At
<1>2. call[c].todo = {} /\ call[c].pc \notin Publishing
    BY <1>1 DEF Accounted, Answered, Publishing
<1>3. Landed(c) \cup call[c].failed = call[c].received
      /\ Landed(c) \cap call[c].failed = {}
    BY <1>1, <1>2 DEF Accounted
<1>4. Complete(c) => Landed(c) = Images(c)
    BY AllLanded DEF Complete, Landed
<1>5. ASSUME NEW n \in Names, disk[n] # None, disk[n].by = c
      PROVE  call[c].published[disk[n].image] = n \/ disk[n].image \in call[c].failed
    <2> DEFINE i == disk[n].image
    <2>1. i \in Images(c) /\ n \in Owned(c, i)
        <3>1. disk[n] # TheUsers
            BY <1>5, ImageAssumption DEF TheUsers, File
        <3>2. PICK d \in Calls : disk[n] \in [by : {d}, image : Images(d), whole : BOOLEAN]
            BY <1>5, <3>1 DEF ReportInv, FillInv, TypeOK
        <3> QED BY <1>5, <3>2 DEF Owned
    <2>2. i \in Landed(c) \/ i \in call[c].failed
        BY <1>1, <1>2, <2>1 DEF Found
    <2> QED BY <1>1, <2>1, <2>2 DEF Found
<1>6. FilesAreTrue(c)
    BY <1>1, <1>3, <1>4, <1>5 DEF FilesAreTrue, Landed, Accounted, Found
<1>7. ErrorIsTrue(c)
    BY <1>1 DEF ErrorIsTrue, Explained, Outcome, At
<1> QED
    BY <1>6, <1>7

\* What an ended call says of its images is what stands on the disk, and what its
\* error code says of the costs is what became of its requests, whatever failed
\* and whatever other calls and the user did meanwhile (server.py:231,
\* errors.py:70).
THEOREM ReportTheorem == Spec => []ReportIsTrue
<1>1. ReportInv /\ [Next]_vars => ReportInv'
    BY ReportStep
<1> QED
    BY <1>1, ReportInit, ReportFollows, PTL DEF Spec

------------------------------------------------------------------------------
(* The temporary files. *)

\* Where a call has a .part file of the image it publishes.
Holding == {"write", "link", "create", "fill", "cleanup"}

Held(p) ==
    At(p[1], "killed") \/ (call[p[1]].pc \in Holding /\ call[p[1]].image = p[2])

PartInv == TypeOK /\ \A p \in temps \ stuck : Held(p)

LEMMA PartStep == PartInv /\ [Next]_vars => PartInv'
<1> SUFFICES ASSUME PartInv, [Next]_vars PROVE PartInv'
    OBVIOUS
<1>1. TypeOK /\ TypeOK' /\ CallsOK
    BY TypedStep, TypeOKParts DEF PartInv
<1>2. ASSUME NEW p \in temps \ stuck, call'[p[1]] = call[p[1]] PROVE Held(p)'
    BY <1>2 DEF PartInv, Held, At
<1>3. CASE UNCHANGED vars
    BY <1>1, <1>2, <1>3 DEF vars, PartInv
<1>4. CASE \E n \in UserFiles : UserSaves(n)
    BY <1>1, <1>2, <1>4 DEF UserSaves, PartInv
<1>5. ASSUME NEW c \in Calls, Step(c) \/ Kill(c) PROVE PartInv'
    \* Of the other calls, the files are as they were.
    <2>1. ASSUME NEW p \in temps \ stuck, p[1] # c PROVE Held(p)'
        <3>1. p[1] \in Calls
            BY DEF PartInv, TypeOK
        <3> QED BY <1>1, <1>2, <1>5, <2>1, <3>1, OtherCalls
    <2>2. ASSUME NEW p \in temps \ stuck, p[1] = c
          PROVE  At(c, "killed") \/ (call[c].pc \in Holding /\ p = Part(c))
        <3>1. p = <<p[1], p[2]>>
            BY DEF PartInv, TypeOK
        <3> QED BY <2>2, <3>1 DEF PartInv, Held, Part
    <2>3. ~At(c, "killed")
        BY <1>5 DEF Step, Kill, Check, Attempt, AttemptRefused, Receive, ErrorResponse,
                    NoResponse, MakeTemp, WriteTemp, Link, Create, Fill, Cleanup, NextImage, At
    <2>4. CASE Kill(c)
        <3>1. call'[c].pc = "killed" /\ UNCHANGED <<temps, stuck>>
            BY <1>1, <2>4, OffBudgetStep DEF Kill
        <3> QED BY <1>1, <2>1, <3>1 DEF PartInv, Held, At
    <2>5. CASE \/ Check(c) \/ Attempt(c) \/ AttemptRefused(c) \/ Receive(c)
               \/ ErrorResponse(c) \/ NoResponse(c) \/ NextImage(c)
        <3>1. call[c].pc \notin Holding /\ UNCHANGED <<temps, stuck>>
            BY <2>5 DEF Check, Attempt, AttemptRefused, Receive, ErrorResponse, NoResponse,
                        NextImage, At, Holding
        <3> QED BY <1>1, <2>1, <2>2, <2>3, <3>1 DEF PartInv
    <2>6. CASE MakeTemp(c)
        <3>1. PICK i \in call[c].todo, pc \in {"write", "next"} :
                /\ call' = [call EXCEPT ![c].pc = pc, ![c].image = i, ![c].suffix = 0,
                                        ![c].landed = None]
                /\ temps' = IF pc = "write" THEN temps \cup {<<c, i>>} ELSE temps
                /\ stuck' = stuck
            BY <2>6 DEF MakeTemp
        <3>2. call'[c].pc = pc /\ call'[c].image = i
            BY <1>1, <3>1 DEF CallsOK, CallRecord
        <3>3. call[c].pc \notin Holding
            BY <2>6 DEF MakeTemp, At, Holding
        <3>4. \A p \in temps \ stuck : p[1] # c
            BY <2>2, <2>3, <3>3
        <3>5. pc = "write" => Held(<<c, i>>)'
            BY <3>2 DEF Held, Holding
        <3> QED BY <1>1, <2>1, <3>1, <3>4, <3>5 DEF PartInv
    <2>7. CASE WriteTemp(c) \/ Link(c) \/ Create(c) \/ Fill(c)
        <3>1. /\ UNCHANGED <<temps, stuck>>
              /\ \/ \E pc \in {"link", "create", "fill", "cleanup"} : Goto(c, pc)
                 \/ Advance(c) \/ call' = Land(c)
            BY <2>7 DEF WriteTemp, Link, Create, Fill
        <3>2. call'[c].pc \in {"link", "create", "fill", "cleanup"}
              /\ call'[c].image = call[c].image
            BY <1>1, <3>1, GotoLocals, AdvanceLocals, LandLocals DEF Locals
        <3>3. \A p \in temps \ stuck : p[1] = c => Held(p)'
            BY <2>2, <2>3, <3>2 DEF Held, Holding, Part
        <3> QED BY <1>1, <2>1, <3>1, <3>3 DEF PartInv
    <2>8. CASE Cleanup(c)
        <3>1. \A p \in temps' \ stuck' : p \in temps \ stuck /\ p # Part(c)
            BY <2>8 DEF Cleanup
        <3> QED BY <1>1, <2>1, <2>2, <2>3, <3>1 DEF PartInv
    <2> QED BY <1>5, <2>4, <2>5, <2>6, <2>7, <2>8 DEF Step
<1> QED
    BY <1>3, <1>4, <1>5 DEF Next

\* When a call has ended the only .part files it leaves are those whose removal
\* failed: every way out of a publication goes through the finally clause
\* (images.py:540).
THEOREM NoPartTheorem == Spec => []NoPartLeft
<1>1. Init => PartInv
    BY TypedInit DEF Init, PartInv
<1>2. PartInv /\ [Next]_vars => PartInv'
    BY PartStep
<1>3. PartInv => NoPartLeft
    BY DEF PartInv, Held, NoPartLeft, Answered, At, Holding
<1> QED
    BY <1>1, <1>2, <1>3, PTL DEF Spec

------------------------------------------------------------------------------
(* Every call ends: how many steps it may still take. *)

\* To make a temporary file, to write it, to try each name in two ways, to fill
\* a created file, to clean up, and to go on.
PerImage == 2 * MAX_COLLISION_SUFFIX + 5
Rest(m) == Cardinality(m.todo) * PerImage

\* What is left to do for the image under way.
InImage(m) ==
    CASE m.pc = "write" -> 2 * MAX_COLLISION_SUFFIX + 4
      [] m.pc = "link" -> 2 * (MAX_COLLISION_SUFFIX - m.suffix) + 3
      [] m.pc = "create" -> 2 * (MAX_COLLISION_SUFFIX - m.suffix) + 2
      [] m.pc = "fill" -> 3
      [] m.pc = "cleanup" -> 2
      [] OTHER -> 1

\* What is left to do for a call that asks for so many images.
StepsOf(m, wanted) ==
    LET publication == wanted * PerImage
    IN  CASE m.pc = "checking" -> publication + 2 * MAX_API_ATTEMPTS + 2
          [] m.pc = "attempt" -> publication + 2 * (MAX_API_ATTEMPTS - m.attempt) + 3
          [] m.pc = "waiting" -> publication + 2 * (MAX_API_ATTEMPTS - m.attempt) + 2
          [] m.pc = "temp" -> Rest(m)
          [] m.pc \in Publishing -> Rest(m) - PerImage + InImage(m)
          [] OTHER -> 0

StepsLeft(c) == StepsOf(call[c], Wanted[c])

\* Every step of a call takes one off its count, which starts with a number that
\* the constants of the code bound, whatever fails and whatever stands in the
\* directory; nothing else that happens adds to it.  With the scheduling that
\* FairSpec assumes this is why every call ends (api.py:438, images.py:516).
StepsAreCounted ==
    /\ [](\A c \in Calls :
            StepsLeft(c) \in 0 .. (Wanted[c] * PerImage + 2 * MAX_API_ATTEMPTS + 2))
    /\ [][\A c \in Calls : /\ Step(c) => StepsLeft(c)' < StepsLeft(c)
                           /\ StepsLeft(c)' <= StepsLeft(c)]_vars

LEMMA Product ==
    ASSUME NEW n \in Nat, NEW k \in Nat, NEW w \in Nat, n <= k
    PROVE  n * w \in Nat /\ n * w <= k * w /\ (n - 1) * w = n * w - w
<1>1. n * w \in Nat /\ (k - n) * w \in Nat /\ (n - 1) * w = n * w - w
    OBVIOUS
<1>2. (k - n) * w = k * w - n * w
    OBVIOUS
<1>3. n * w \in Int /\ k * w \in Int
    OBVIOUS
<1> QED
    BY <1>1, <1>2, <1>3

LEMMA RestType ==
    ASSUME NEW c \in Calls, NEW s \in SUBSET Images(c)
    PROVE  /\ PerImage \in Nat /\ Cardinality(s) * PerImage \in Nat
           /\ Wanted[c] * PerImage \in Nat
           /\ Cardinality(s) * PerImage <= Wanted[c] * PerImage
           /\ \A i \in s : /\ Cardinality(s) * PerImage >= PerImage
                           /\ Cardinality(s \ {i}) * PerImage
                                = Cardinality(s) * PerImage - PerImage
<1>1. Wanted[c] \in Nat /\ PerImage \in Nat
    BY ImageAssumption, Numbers DEF PerImage
<1>2. IsFiniteSet(Images(c)) /\ Cardinality(Images(c)) = Wanted[c]
    BY SMTT(40), <1>1, FS_Interval DEF Images
<1>3. /\ IsFiniteSet(s) /\ Cardinality(s) \in Nat /\ Cardinality(s) <= Wanted[c]
    BY <1>2, FS_Subset, FS_CardinalityType
<1> DEFINE n == Cardinality(s)
<1>4. /\ n * PerImage \in Nat /\ n * PerImage <= Wanted[c] * PerImage
      /\ (n - 1) * PerImage = n * PerImage - PerImage
    BY <1>1, <1>3, Product
<1>5. Wanted[c] * PerImage \in Nat
    BY <1>1, Product
<1>6. ASSUME NEW i \in s
      PROVE  n * PerImage >= PerImage /\ Cardinality(s \ {i}) * PerImage = n * PerImage - PerImage
    <2>1. IsFiniteSet(s \ {i}) /\ Cardinality(s \ {i}) = n - 1
        BY <1>3, <1>6, FS_RemoveElement
    <2>2. n - 1 \in Nat
        BY <2>1, FS_CardinalityType
    <2>3. (n - 1) * PerImage \in Nat
        BY <1>1, <2>2, Product
    <2> QED BY <1>1, <1>4, <2>1, <2>3
<1> QED
    BY <1>1, <1>4, <1>5, <1>6

\* The count at each place.
LEMMA StepsAt ==
    ASSUME NEW c \in Calls, NEW m \in CallRecord(c),
           m.pc \in Publishing => m.image \in m.todo,
           m.pc \in {"write", "link", "create", "fill"} => m.suffix \in Attempts
    PROVE  LET steps == StepsOf(m, Wanted[c])
               all == Wanted[c] * PerImage
               tries == MAX_API_ATTEMPTS - m.attempt
               names == MAX_COLLISION_SUFFIX - m.suffix
               others == Rest(m) - PerImage
           IN  /\ tries \in Nat /\ m.attempt \in Nat \ {0} /\ m.suffix \in Nat
               /\ Rest(m) \in Nat /\ all \in Nat /\ Rest(m) <= all /\ PerImage \in Nat
               /\ m.pc \in Publishing => others \in Nat
               /\ m.pc \in {"write", "link", "create", "fill"} => names \in Nat \ {0}
               /\ m.pc = "checking" => steps = all + 2 * MAX_API_ATTEMPTS + 2
               /\ m.pc = "attempt" => steps = all + 2 * tries + 3
               /\ m.pc = "waiting" => steps = all + 2 * tries + 2
               /\ m.pc = "temp" => steps = Rest(m)
               /\ m.pc = "write" => steps = others + 2 * MAX_COLLISION_SUFFIX + 4
               /\ m.pc = "link" => steps = others + 2 * names + 3
               /\ m.pc = "create" => steps = others + 2 * names + 2
               /\ m.pc = "fill" => steps = others + 3
               /\ m.pc = "cleanup" => steps = others + 2
               /\ m.pc = "next" => steps = others + 1
               /\ m.pc \in {"answered", "refused", "killed"} => steps = 0
<1>2. m.attempt \in 1 .. MAX_API_ATTEMPTS /\ m.todo \in SUBSET Images(c)
      /\ m.suffix \in 0 .. MAX_COLLISION_SUFFIX
    BY DEF CallRecord
<1>3. /\ MAX_API_ATTEMPTS - m.attempt \in Nat /\ m.attempt \in Nat \ {0}
      /\ m.pc \in {"write", "link", "create", "fill"} =>
            MAX_COLLISION_SUFFIX - m.suffix \in Nat \ {0}
    BY <1>2, Numbers DEF Attempts
<1>4. /\ Rest(m) \in Nat /\ Rest(m) <= Wanted[c] * PerImage
      /\ m.pc \in Publishing => Rest(m) - PerImage \in Nat
      /\ Wanted[c] * PerImage \in Nat /\ PerImage \in Nat
    BY <1>2, RestType DEF Rest
<1>5. m.pc \in {"write", "link", "create", "fill", "cleanup", "next"} =>
        StepsOf(m, Wanted[c]) = Rest(m) - PerImage + InImage(m)
    BY DEF StepsOf, Publishing
<1>6. /\ m.pc = "checking" => StepsOf(m, Wanted[c]) = Wanted[c] * PerImage + 2 * MAX_API_ATTEMPTS + 2
      /\ m.pc = "attempt" => StepsOf(m, Wanted[c])
                               = Wanted[c] * PerImage + 2 * (MAX_API_ATTEMPTS - m.attempt) + 3
      /\ m.pc = "waiting" => StepsOf(m, Wanted[c])
                               = Wanted[c] * PerImage + 2 * (MAX_API_ATTEMPTS - m.attempt) + 2
      /\ m.pc = "temp" => StepsOf(m, Wanted[c]) = Rest(m)
      /\ m.pc \in {"answered", "refused", "killed"} => StepsOf(m, Wanted[c]) = 0
    BY DEF StepsOf, Publishing
<1>7. /\ m.pc = "write" => InImage(m) = 2 * MAX_COLLISION_SUFFIX + 4
      /\ m.pc = "link" => InImage(m) = 2 * (MAX_COLLISION_SUFFIX - m.suffix) + 3
      /\ m.pc = "create" => InImage(m) = 2 * (MAX_COLLISION_SUFFIX - m.suffix) + 2
      /\ m.pc = "fill" => InImage(m) = 3
      /\ m.pc = "cleanup" => InImage(m) = 2
      /\ m.pc = "next" => InImage(m) = 1
    BY DEF InImage
<1>8. /\ m.pc = "write" => StepsOf(m, Wanted[c]) = Rest(m) - PerImage + 2 * MAX_COLLISION_SUFFIX + 4
      /\ m.pc = "link" => StepsOf(m, Wanted[c])
                            = Rest(m) - PerImage + 2 * (MAX_COLLISION_SUFFIX - m.suffix) + 3
      /\ m.pc = "create" => StepsOf(m, Wanted[c])
                            = Rest(m) - PerImage + 2 * (MAX_COLLISION_SUFFIX - m.suffix) + 2
      /\ m.pc = "fill" => StepsOf(m, Wanted[c]) = Rest(m) - PerImage + 3
      /\ m.pc = "cleanup" => StepsOf(m, Wanted[c]) = Rest(m) - PerImage + 2
      /\ m.pc = "next" => StepsOf(m, Wanted[c]) = Rest(m) - PerImage + 1
    BY <1>3, <1>4, <1>5, <1>7, Numbers DEF Publishing
<1> QED
    BY <1>2, <1>3, <1>4, <1>6, <1>8

\* A step of a call takes at least one off its count.
LEMMA CountDown == ASSUME TypeOK, TypeOK', NEW c \in Calls, Step(c)
                   PROVE  StepsLeft(c)' < StepsLeft(c)
<1> DEFINE m == call[c]
           n == call'[c]
           all == Wanted[c] * PerImage
<1>0. CallsOK
    BY TypeOKParts
<1>1. /\ m \in CallRecord(c)
      /\ m.pc \in Publishing => m.image \in m.todo
      /\ m.pc \in {"write", "link", "create", "fill"} => m.suffix \in Attempts
    BY DEF TypeOK
<1>2. /\ n \in CallRecord(c)
      /\ n.pc \in Publishing => n.image \in n.todo
      /\ n.pc \in {"write", "link", "create", "fill"} => n.suffix \in Attempts
    BY DEF TypeOK
<1>3. StepsLeft(c) = StepsOf(m, Wanted[c]) /\ StepsLeft(c)' = StepsOf(n, Wanted[c])
    BY DEF StepsLeft
<1>4. CASE n.pc = "refused" /\ m.pc \in Requesting
    BY <1>1, <1>2, <1>3, <1>4, StepsAt, Numbers DEF Requesting
<1>5. CASE Check(c) \/ Attempt(c) \/ AttemptRefused(c) \/ NoResponse(c)
    <2>1. /\ m.pc \in Requesting
          /\ \/ n.pc = "refused"
             \/ m.pc = "checking" /\ n.pc = "attempt"
             \/ m.pc = "attempt" /\ n.pc = "waiting" /\ n.attempt = m.attempt
        <3>1. ASSUME NEW code, Refuse(c, code) PROVE n.pc = "refused"
            BY <1>0, <3>1, OffBudgetStep DEF Refuse
        <3>2. CASE Check(c)
            BY ZenonT(60), <1>0, <1>1, <3>1, <3>2 DEF Check, At, Requesting, CallsOK, CallRecord
        <3>3. CASE Attempt(c)
            BY <1>0, <1>1, <3>3 DEF Attempt, At, Requesting, CallsOK, CallRecord
        <3>4. CASE AttemptRefused(c) \/ NoResponse(c)
            BY <3>1, <3>4 DEF AttemptRefused, NoResponse, At, Requesting
        <3> QED BY <1>5, <3>2, <3>3, <3>4
    <2> HIDE DEF m, n
    <2> QED BY <1>1, <1>2, <1>3, <1>4, <2>1, StepsAt, Numbers
<1>6. CASE Receive(c)
    <2>1. n.pc \in {"temp", "refused"} /\ m.pc = "waiting"
        BY <1>0, <1>6, ReceiveStep DEF Receive, At
    <2>2. Rest(n) <= all /\ Rest(n) \in Nat
        BY <1>2, StepsAt
    <2> HIDE DEF m, n
    <2> QED BY <1>1, <1>2, <1>3, <1>4, <2>1, <2>2, StepsAt, Numbers DEF Requesting
<1>7. CASE ErrorResponse(c)
    <2>1. /\ m.pc = "waiting"
          /\ \/ n.pc = "refused"
             \/ n.pc = "attempt" /\ n.attempt = m.attempt + 1
        <3> DEFINE again(d, delay, retryable) == retryable /\ CanRetry(c, m.spent + d, delay)
        <3>1. PICK d \in 0 .. m.timeout, delay \in Delays, retryable \in BOOLEAN :
                call' = IF again(d, delay, retryable)
                        THEN [call EXCEPT ![c].spent = m.spent + d + delay, ![c].timeout = 0,
                                          ![c].attempt = @ + 1, ![c].pc = "attempt"]
                        ELSE OffBudget(c, "refused")
            BY <1>7, RetryOrEnd
        <3> HIDE DEF again
        <3>2. CASE again(d, delay, retryable)
            BY <1>0, <1>1, <1>7, <3>1, <3>2 DEF ErrorResponse, At, CallsOK, CallRecord
        <3>3. CASE ~again(d, delay, retryable)
            BY <1>0, <1>7, <3>1, <3>3, OffBudgetStep DEF ErrorResponse, At
        <3> QED BY <3>2, <3>3
    <2> HIDE DEF m, n
    <2> QED BY <1>1, <1>2, <1>3, <1>4, <2>1, StepsAt, Numbers DEF Requesting
<1>8. CASE MakeTemp(c)
    <2>1. /\ m.pc = "temp" /\ n.pc \in {"write", "next"} /\ n.todo = m.todo
        BY <1>0, <1>1, <1>8 DEF MakeTemp, At, CallsOK, CallRecord
    <2>2. Rest(n) = Rest(m)
        BY <2>1 DEF Rest
    <2>3. PerImage = 2 * MAX_COLLISION_SUFFIX + 5
        BY DEF PerImage
    <2> HIDE DEF m, n
    <2> QED BY <1>1, <1>2, <1>3, <2>1, <2>2, <2>3, StepsAt, Numbers
<1>9. CASE WriteTemp(c) \/ Link(c) \/ Create(c) \/ Fill(c) \/ Cleanup(c)
    <2>1. /\ n.todo = m.todo
          /\ \/ m.pc = "write" /\ n.pc = "link" /\ n.suffix = m.suffix
             \/ m.pc = "link" /\ n.pc = "create" /\ n.suffix = m.suffix
             \/ m.pc \in {"link", "create"} /\ n.pc = "link" /\ n.suffix = m.suffix + 1
             \/ m.pc = "create" /\ n.pc = "fill"
             \/ m.pc \in {"write", "link", "create", "fill"} /\ n.pc = "cleanup"
             \/ m.pc = "cleanup" /\ n.pc = "next"
        <3>1. ASSUME m.pc \in {"link", "create"}, Advance(c)
              PROVE  n.pc \in {"link", "cleanup"} /\ n.todo = m.todo /\ n.suffix = m.suffix + 1
            BY <1>0, <1>1, <3>1 DEF Advance, CallsOK, CallRecord
        <3>2. CASE WriteTemp(c) \/ Cleanup(c)
            BY <1>0, <3>2, GotoLocals DEF WriteTemp, Cleanup, At, Locals
        <3>3. CASE Link(c)
            BY <1>0, <3>1, <3>3, GotoLocals, LandLocals DEF Link, At, Locals
        <3>4. CASE Create(c)
            BY <1>0, <3>1, <3>4, GotoLocals DEF Create, At, Locals
        <3>5. CASE Fill(c)
            BY <1>0, <3>5, GotoLocals, LandLocals DEF Fill, At, Locals
        <3> QED BY <1>9, <3>2, <3>3, <3>4, <3>5
    <2>2. Rest(n) = Rest(m)
        BY <2>1 DEF Rest
    <2> HIDE DEF m, n
    <2> QED BY <1>1, <1>2, <1>3, <2>1, <2>2, StepsAt, Numbers
<1>10. CASE NextImage(c)
    <2>1. /\ m.pc = "next" /\ n.pc \in {"temp", "answered", "refused"}
          /\ n.todo = m.todo \ {m.image} /\ m.image \in m.todo
        BY <1>0, <1>1, <1>10 DEF NextImage, At, CallsOK, CallRecord, Publishing
    <2>2. m.todo \in SUBSET Images(c)
        BY <1>1 DEF CallRecord
    <2>3. Rest(n) = Rest(m) - PerImage
        BY <2>1, <2>2, RestType DEF Rest
    <2> HIDE DEF m, n
    <2> QED BY <1>1, <1>2, <1>3, <2>1, <2>3, StepsAt, Numbers
<1> QED
    BY <1>5, <1>6, <1>7, <1>8, <1>9, <1>10 DEF Step

\* Nothing else that happens adds to it.
LEMMA NoneAdded == ASSUME TypeOK, TypeOK', [Next]_vars, NEW c \in Calls
                   PROVE  StepsLeft(c)' <= StepsLeft(c)
<1>1. StepsLeft(c) \in Nat /\ StepsLeft(c)' \in Nat
    <2>1. ASSUME NEW m \in CallRecord(c),
                 m.pc \in Publishing => m.image \in m.todo,
                 m.pc \in {"write", "link", "create", "fill"} => m.suffix \in Attempts
          PROVE  StepsOf(m, Wanted[c]) \in Nat
        <3>1. m.pc \in Places
            BY DEF CallRecord
        <3> QED BY <2>1, <3>1, StepsAt, Numbers DEF Places, Requesting, Publishing
    <2> QED BY <2>1 DEF StepsLeft, TypeOK
<1>2. CASE call'[c] = call[c]
    BY <1>1, <1>2 DEF StepsLeft
<1>3. CASE Step(c)
    BY <1>1, <1>3, CountDown
<1>4. CASE Kill(c)
    <2>1. call'[c].pc = "killed"
        BY <1>4, TypeOKParts, OffBudgetStep DEF Kill
    <2>2. StepsLeft(c)' = 0
        BY <2>1 DEF StepsLeft, StepsOf, Publishing
    <2> QED BY <1>1, <2>2
<1>5. ASSUME NEW d \in Calls, Step(d) \/ Kill(d), d # c PROVE call'[c] = call[c]
    BY <1>5, OtherCalls
<1>6. ASSUME \/ UNCHANGED vars
             \/ \E n \in UserFiles : UserSaves(n)
      PROVE  call'[c] = call[c]
    BY <1>6 DEF vars, UserSaves
<1> QED
    BY <1>2, <1>3, <1>4, <1>5, <1>6 DEF Next

\* However it goes, a call takes no more steps than the constants of the code
\* allow.
THEOREM CountTheorem == Spec => StepsAreCounted
<1> DEFINE most(c) == Wanted[c] * PerImage + 2 * MAX_API_ATTEMPTS + 2
           Bound == \A c \in Calls : StepsLeft(c) \in 0 .. most(c)
           Counts == \A c \in Calls : /\ Step(c) => StepsLeft(c)' < StepsLeft(c)
                                      /\ StepsLeft(c)' <= StepsLeft(c)
<1>1. TypeOK => Bound
    <2>1. ASSUME TypeOK, NEW c \in Calls PROVE StepsLeft(c) \in 0 .. most(c)
        <3> DEFINE m == call[c]
        <3>1. /\ m \in CallRecord(c) /\ m.pc \in Places
              /\ m.pc \in Publishing => m.image \in m.todo
              /\ m.pc \in {"write", "link", "create", "fill"} => m.suffix \in Attempts
            BY <2>1 DEF TypeOK, CallRecord
        <3>2. PerImage = 2 * MAX_COLLISION_SUFFIX + 5
            BY DEF PerImage
        <3>3. MAX_API_ATTEMPTS - m.attempt <= MAX_API_ATTEMPTS - 1
              /\ MAX_COLLISION_SUFFIX - m.suffix <= MAX_COLLISION_SUFFIX
            BY <3>1, StepsAt, Numbers
        <3> HIDE DEF m
        <3>4. StepsOf(m, Wanted[c]) \in 0 .. most(c)
            BY <3>1, <3>2, <3>3, StepsAt, Numbers DEF Places, Requesting, Publishing
        <3> QED BY <3>4 DEF StepsLeft, m
    <2> QED BY <2>1
<1>2. TypeOK /\ TypeOK' /\ [Next]_vars => Counts
    BY CountDown, NoneAdded
<1> HIDE DEF Bound, Counts
<1>3. TypeOK /\ TypeOK' /\ [Next]_vars => [Counts]_vars
    BY <1>2
<1>4. Spec => []Bound /\ [][Counts]_vars
    BY <1>1, <1>3, ImageTypes, PTL DEF Spec
<1> QED
    BY <1>4 DEF StepsAreCounted, Bound, Counts

==============================================================================
