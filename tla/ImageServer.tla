---------------------------- MODULE ImageServer ----------------------------
(***************************************************************************)
(* One paid call of the image server: checks, at most two requests under   *)
(* one deadline, decoding, and publication of the images into a directory  *)
(* it shares with the calls of other servers and with the user             *)
(* (src/gpt_image_2/api.py, server.py, images.py).  Every call runs in a   *)
(* process of its own; time is counted in units per call.                  *)
(***************************************************************************)
EXTENDS ImageRequest, FiniteSets

CONSTANTS
    None, Calls,
    Base,         \* [Calls -> Seq(Nat)]: the basename, as a stem with suffixes
    Wanted,       \* [Calls -> Nat]: how many images a call asks for
    Edits,        \* calls of edit_image: they read files to upload
    UserFiles,    \* names the user's own files may take
    LinkAnswers,  \* does the file system make a hard link: TRUE, FALSE or both
    API_ATTEMPT_TIMEOUT, OPERATION_DEADLINE, RETRY_MIN_REMAINING,
    MAX_API_ATTEMPTS, FIRST_COLLISION_SUFFIX, MAX_COLLISION_SUFFIX,
    Readings,     \* time that reading the files of an edit takes
    MaxFaults, MaxKills

ASSUME ImageAssumption ==
    /\ Base \in [Calls -> Seq(Nat)] /\ Wanted \in [Calls -> Nat \ {0}]
    /\ Edits \subseteq Calls /\ LinkAnswers \subseteq BOOLEAN /\ None \notin Calls
    /\ {API_ATTEMPT_TIMEOUT, RETRY_MIN_REMAINING, MaxFaults, MaxKills} \subseteq Nat
    /\ {MAX_API_ATTEMPTS, MAX_COLLISION_SUFFIX} \subseteq Nat \ {0}
    /\ Readings \subseteq Nat
    /\ OPERATION_DEADLINE \in Nat /\ OPERATION_DEADLINE > API_ATTEMPT_TIMEOUT
    /\ RETRY_MIN_REMAINING <= API_ATTEMPT_TIMEOUT
    /\ FIRST_COLLISION_SUFFIX \in Nat \ {0}
    /\ None \notin ERROR_CODES
    /\ None \notin [by : Calls \cup {None}, image : Nat, whole : BOOLEAN]

VARIABLES
    call,      \* per call: its program counter and locals
    requests,  \* per call: what became of each request it sent
    error,     \* per call: the error code it answered, or None
    disk,      \* the output directory: name -> what stands there
    temps,     \* .part files, as <<call, image>>
    stuck,     \* those whose removal failed
    faults, kills

vars == <<call, requests, error, disk, temps, stuck, faults, kills>>

Attempts == 0 .. MAX_COLLISION_SUFFIX - 1

\* image, image-2, image-3, ...: the stem is <<>>, a suffix is appended.
CandidateName(basename, attempt) ==
    IF attempt = 0 THEN basename
    ELSE Append(basename, attempt + FIRST_COLLISION_SUFFIX - 1)

Names == UserFiles \cup {CandidateName(Base[c], k) : c \in Calls, k \in Attempts}
Images(c) == 1 .. Wanted[c]
File(who, image, whole) == [by |-> who, image |-> image, whole |-> whole]
TheUsers == File(None, 0, TRUE)
\* A request brought images, got an error answer that may or may not be retried,
\* or no answer.
Fates == {"billed", "busy", "rejected", "unknown"}

\* Where a call is: before and between its requests, publishing, or done.
Requesting == {"checking", "attempt", "waiting"}
Publishing == {"write", "link", "create", "fill", "cleanup", "next"}
Places == Requesting \cup Publishing \cup {"temp", "answered", "refused", "killed"}

Init ==
    /\ call = [c \in Calls |->
         [pc |-> "checking", spent |-> 0, attempt |-> 1, timeout |-> 0,
          received |-> {}, todo |-> {}, image |-> 0, suffix |-> 0, landed |-> None,
          published |-> [i \in Images(c) |-> None], failed |-> {}]]
    /\ requests = [c \in Calls |-> <<>>]
    /\ error = [c \in Calls |-> None]
    /\ disk \in [Names -> {None, TheUsers}]
    /\ \A n \in Names \ UserFiles : disk[n] = None
    /\ temps = {} /\ stuck = {} /\ faults = 0 /\ kills = 0

At(c, pc) == call[c].pc = pc
Goto(c, pc) == call' = [call EXCEPT ![c].pc = pc]
Answered(c) == call[c].pc \in {"answered", "refused"}

\* A file system operation fails: an errno the code maps or swallows.
Fault == faults < MaxFaults /\ faults' = faults + 1
NoFault == UNCHANGED faults

------------------------------------------------------------------------------
(* The requests (api.py). *)

\* Nothing consults the budget any more.
OffBudget(c, pc) == [call EXCEPT ![c].spent = 0, ![c].timeout = 0, ![c].pc = pc]

ReadingTime(c) == IF c \in Edits THEN Readings ELSE {0}

\* Every failure becomes one error with one code.
Refuse(c, code) ==
    /\ call' = OffBudget(c, "refused")
    /\ error' = [error EXCEPT ![c] = code]

\* The budget starts with the tool call; a request that does not validate or
\* finds no credential is refused before anything is sent.
Check(c) ==
    /\ At(c, "checking")
    /\ \/ /\ \E t \in ReadingTime(c) :
               call' = [call EXCEPT ![c].spent = t, ![c].pc = "attempt"]
          /\ UNCHANGED error
       \/ \E code \in Refusals[(c \in Edits)] : Refuse(c, code)
    /\ UNCHANGED <<requests, disk, temps, stuck, faults, kills>>

AttemptTimeout(spent) == Min({API_ATTEMPT_TIMEOUT, OPERATION_DEADLINE - spent})

\* The timeout is fixed before the files of an edit are read again.
Attempt(c) ==
    /\ At(c, "attempt")
    /\ \E t \in ReadingTime(c) :
         call' = [call EXCEPT ![c].timeout = AttemptTimeout(call[c].spent),
                              ![c].spent = @ + t, ![c].pc = "waiting"]
    /\ call[c].spent < OPERATION_DEADLINE
    /\ UNCHANGED <<requests, error, disk, temps, stuck, faults, kills>>

\* The deadline has passed, or a file of an edit is gone or has grown.
AttemptRefused(c) ==
    /\ At(c, "attempt")
    /\ \/ call[c].spent >= OPERATION_DEADLINE /\ Refuse(c, "deadline_exceeded")
       \/ /\ call[c].spent < OPERATION_DEADLINE
          /\ \E file \in FilesOf(c \in Edits) : file \notin Uploaded
          /\ Refuse(c, "invalid_input_file")
    /\ UNCHANGED <<requests, disk, temps, stuck, faults, kills>>

Sent(c, fate) == requests' = [requests EXCEPT ![c] = Append(@, fate)]

\* The entries, of those with data, that decode to the format asked for.
Decodable(n) == SUBSET (1 .. n)

\* Images arrive; all are decoded before any is published.  Those that do not
\* decode fail; with none left, or none sent, the call ends with an error, as
\* it does when the answer itself cannot be parsed.
Receive(c) ==
    /\ At(c, "waiting")
    /\ \E n \in 0 .. Wanted[c] : \E good \in Decodable(n) :
         /\ call' = [OffBudget(c, IF good = {} THEN "refused" ELSE "temp") EXCEPT
                    ![c].received = 1 .. n, ![c].todo = good, ![c].failed = (1 .. n) \ good]
         /\ IF good # {} THEN UNCHANGED error
            ELSE \E code \in {"output_error"} \cup (IF n = 0 THEN {"internal_error"} ELSE {}) :
                   error' = [error EXCEPT ![c] = code]
    /\ Sent(c, "billed")
    /\ UNCHANGED <<disk, temps, stuck, faults, kills>>

\* Mutant: the wait is not counted when the time left for a retry is checked.
CanRetryAtOnce(c, spent, delay) ==
    /\ call[c].attempt < MAX_API_ATTEMPTS
    /\ spent + RETRY_MIN_REMAINING <= OPERATION_DEADLINE

CanRetry(c, spent, delay) ==
    /\ call[c].attempt < MAX_API_ATTEMPTS
    /\ spent + delay + RETRY_MIN_REMAINING <= OPERATION_DEADLINE

\* An explicit error response.  After one of RETRYABLE_STATUS the call sleeps
\* and tries again; otherwise, or without the time for it, it ends.
ErrorResponse(c) ==
    /\ At(c, "waiting")
    /\ \E d \in 0 .. call[c].timeout, delay \in Delays, status \in Statuses :
         LET spent == call[c].spent + d
             again == Retryable(status) /\ CanRetry(c, spent, delay)
         IN  /\ again =>
                  /\ call' = [call EXCEPT ![c].spent = spent + delay, ![c].timeout = 0,
                                          ![c].attempt = @ + 1, ![c].pc = "attempt"]
                  /\ UNCHANGED error
             /\ ~again => \E moderated \in BOOLEAN : Refuse(c, CodeOf(status, moderated))
             /\ Sent(c, IF Retryable(status) THEN "busy" ELSE "rejected")
    /\ UNCHANGED <<disk, temps, stuck, faults, kills>>

\* Mutant: a timeout is retried like an error response.
RetryNoResponse(c) ==
    /\ At(c, "waiting")
    /\ \E d \in 0 .. call[c].timeout :
         call' = IF CanRetry(c, call[c].spent + d, 0)
                 THEN [call EXCEPT ![c].spent = @ + d, ![c].attempt = @ + 1, ![c].pc = "attempt"]
                 ELSE OffBudget(c, "refused")
    /\ UNCHANGED error
    /\ Sent(c, "unknown")
    /\ UNCHANGED <<disk, temps, stuck, faults, kills>>

\* A timeout or a lost connection: nobody knows whether the request was billed.
NoResponse(c) ==
    /\ At(c, "waiting")
    /\ \E code \in {"api_timeout", "connection_error"} : Refuse(c, code)
    /\ Sent(c, "unknown")
    /\ UNCHANGED <<disk, temps, stuck, faults, kills>>

------------------------------------------------------------------------------
(* Publication, one image after the other (server.py, images.py). *)

Part(c) == <<c, call[c].image>>
Target(c) == CandidateName(Base[c], call[c].suffix)
Mine(c, whole) == File(c, call[c].image, whole)

\* mkdir and mkstemp stand before the try: their errors leave no file, but
\* must not abort the other images.
MakeTemp(c) ==
    /\ At(c, "temp")
    /\ \E i \in call[c].todo, pc \in {"write", "next"} :
         /\ \A j \in call[c].todo : i <= j
         /\ call' = [call EXCEPT ![c].pc = pc, ![c].image = i, ![c].suffix = 0,
                                 ![c].landed = None]
         /\ IF pc = "write" THEN NoFault /\ temps' = temps \cup {<<c, i>>}
            ELSE Fault /\ UNCHANGED temps
    /\ UNCHANGED <<requests, error, disk, stuck, kills>>

\* Mutant: a failed write is not followed by the finally clause.
WriteTempOnly(c) ==
    /\ At(c, "write")
    /\ \/ NoFault /\ Goto(c, "link")
       \/ Fault /\ Goto(c, "next")
    /\ UNCHANGED <<requests, error, disk, temps, stuck, kills>>

\* The bytes go to the temporary file; a failure goes to the finally clause.
WriteTemp(c) ==
    /\ At(c, "write")
    /\ \/ NoFault /\ Goto(c, "link")
       \/ Fault /\ Goto(c, "cleanup")
    /\ UNCHANGED <<requests, error, disk, temps, stuck, kills>>

Taken(c) == disk[Target(c)] # None

\* Mutant: the same name is tried for ever.
TryAgain(c) == Goto(c, "link")

\* The name is taken: the next suffix, or an error when there are no more.
Advance(c) ==
    LET more == call[c].suffix + 1 \in Attempts
    IN  call' = [call EXCEPT ![c].suffix = @ + 1,
                             ![c].pc = IF more THEN "link" ELSE "cleanup"]

Land(c) == [call EXCEPT ![c].landed = Target(c), ![c].pc = "cleanup"]
Place(c, file) == disk' = [disk EXCEPT ![Target(c)] = file]

\* os.link makes a name for the whole temporary file, or fails on one that is
\* taken.  Any other answer, as of file systems without hard links, leads to a
\* create.
Link(c) ==
    /\ At(c, "link")
    /\ \/ /\ TRUE \in LinkAnswers
          /\ IF Taken(c) THEN Advance(c) /\ UNCHANGED disk
             ELSE Place(c, Mine(c, TRUE)) /\ call' = Land(c)
       \/ /\ FALSE \in LinkAnswers
          /\ Goto(c, "create") /\ UNCHANGED disk
    /\ UNCHANGED <<requests, error, temps, stuck, faults, kills>>

\* Mutant: the fallback opens the target without O_EXCL.
CreateOver(c) ==
    /\ At(c, "create")
    /\ NoFault /\ Place(c, Mine(c, FALSE)) /\ Goto(c, "fill")
    /\ UNCHANGED <<requests, error, temps, stuck, kills>>

\* The fallback: an exclusive create, after which the empty file is filled.
Create(c) ==
    /\ At(c, "create")
    /\ \/ /\ NoFault
          /\ IF Taken(c) THEN Advance(c) /\ UNCHANGED disk
             ELSE Place(c, Mine(c, FALSE)) /\ Goto(c, "fill")
       \/ Fault /\ Goto(c, "cleanup") /\ UNCHANGED disk
    /\ UNCHANGED <<requests, error, temps, stuck, kills>>

\* A failed write leaves part of the image, a failed fsync all of it.
Fill(c) ==
    /\ At(c, "fill")
    /\ \/ NoFault /\ Place(c, Mine(c, TRUE)) /\ call' = Land(c)
       \/ /\ Fault /\ Goto(c, "cleanup")
          /\ \E whole \in BOOLEAN : Place(c, Mine(c, whole))
    /\ UNCHANGED <<requests, error, temps, stuck, kills>>

\* The finally clause; an error here is swallowed.
Cleanup(c) ==
    /\ At(c, "cleanup")
    /\ \/ NoFault /\ temps' = temps \ {Part(c)} /\ UNCHANGED stuck
       \/ Fault /\ stuck' = stuck \cup {Part(c)} /\ UNCHANGED temps
    /\ Goto(c, "next")
    /\ UNCHANGED <<requests, error, disk, kills>>

\* Mutant: the loop is not guarded: an image that fails ends the call.
NextUnguarded(c) ==
    /\ At(c, "next")
    /\ LET published == [call[c].published EXCEPT ![call[c].image] = call[c].landed]
           todo == call[c].todo \ {call[c].image}
           pc == IF call[c].landed = None THEN "refused"
                 ELSE IF todo # {} THEN "temp" ELSE "answered"
       IN  /\ call' = [call EXCEPT ![c].published = published, ![c].todo = todo, ![c].pc = pc]
           /\ error' = IF pc = "refused" THEN [error EXCEPT ![c] = "output_error"] ELSE error
    /\ UNCHANGED <<requests, disk, temps, stuck, faults, kills>>

\* An image that landed is reported with its path, another as failed, and the
\* loop goes on.  The call answers when at least one image landed.
NextImage(c) ==
    /\ At(c, "next")
    /\ LET published == [call[c].published EXCEPT ![call[c].image] = call[c].landed]
           todo == call[c].todo \ {call[c].image}
           pc == IF todo # {} THEN "temp"
                 ELSE IF \E i \in Images(c) : published[i] # None THEN "answered"
                 ELSE "refused"
       IN  /\ call' = [call EXCEPT ![c].published = published, ![c].todo = todo, ![c].pc = pc,
                      ![c].failed = IF call[c].landed = None THEN @ \cup {call[c].image} ELSE @]
           /\ error' = IF pc = "refused" THEN [error EXCEPT ![c] = "output_error"] ELSE error
    /\ UNCHANGED <<requests, disk, temps, stuck, faults, kills>>

\* The answer says whether it has all that was asked for.
Complete(c) ==
    /\ Cardinality({i \in Images(c) : call[c].published[i] # None}) = Wanted[c]
    /\ call[c].failed = {}

------------------------------------------------------------------------------
(* The world around the calls. *)

\* The user saves a file of that name; outputs are not deleted meanwhile.
UserSaves(n) ==
    /\ n \in UserFiles /\ disk[n] = None
    /\ disk' = [disk EXCEPT ![n] = TheUsers]
    /\ UNCHANGED <<call, requests, error, temps, stuck, faults, kills>>

\* The host cuts the server off.
Kill(c) ==
    /\ ~Answered(c) /\ ~At(c, "killed")
    /\ kills < MaxKills /\ kills' = kills + 1
    /\ call' = OffBudget(c, "killed")
    /\ UNCHANGED <<requests, error, disk, temps, stuck, faults>>

Step(c) ==
    \/ Check(c) \/ Attempt(c) \/ AttemptRefused(c)
    \/ Receive(c) \/ ErrorResponse(c) \/ NoResponse(c)
    \/ MakeTemp(c) \/ WriteTemp(c) \/ Link(c) \/ Create(c) \/ Fill(c)
    \/ Cleanup(c) \/ NextImage(c)

Next ==
    \/ \E c \in Calls : Step(c) \/ Kill(c)
    \/ \E n \in UserFiles : UserSaves(n)

Spec == Init /\ [][Next]_vars
FairSpec == Spec /\ \A c \in Calls : WF_vars(Step(c))

------------------------------------------------------------------------------
(* Properties. *)

CallRecord(c) ==
    [pc : Places, spent : Nat, attempt : 1 .. MAX_API_ATTEMPTS,
     timeout : 0 .. API_ATTEMPT_TIMEOUT,
     received : SUBSET Images(c), todo : SUBSET Images(c), failed : SUBSET Images(c),
     image : Images(c) \cup {0}, suffix : 0 .. MAX_COLLISION_SUFFIX, landed : Names \cup {None},
     published : [Images(c) -> Names \cup {None}]]

TypeOK ==
    /\ DOMAIN call = Calls
    /\ \A c \in Calls :
         /\ call[c] \in CallRecord(c)
         /\ call[c].pc \in Publishing => call[c].image \in call[c].todo
         /\ call[c].pc \in {"write", "link", "create", "fill"} => call[c].suffix \in Attempts
    /\ requests \in [Calls -> Seq(Fates)]
    /\ error \in [Calls -> ERROR_CODES \cup {None}]
    /\ DOMAIN disk = Names
    /\ \A n \in Names : disk[n] \in {None, TheUsers}
         \/ disk[n] \in UNION {[by : {c}, image : Images(c), whole : BOOLEAN] : c \in Calls}
    /\ stuck \subseteq UNION {{c} \X Images(c) : c \in Calls}
    /\ temps \subseteq UNION {{c} \X Images(c) : c \in Calls}
    /\ faults \in 0 .. MaxFaults /\ kills \in 0 .. MaxKills

\* A file of the user or of another call is never overwritten, whatever fails
\* and whichever way of publishing is taken: all that ever happens to a name
\* that is taken is that the call that made the file fills it (images.py:457).
NeverOverwritten ==
    [][\A n \in Names : disk[n] # None /\ disk'[n] # disk[n] =>
         \E c \in Calls : \E i \in Images(c) : disk[n] = File(c, i, FALSE) /\ disk'[n] = File(c, i, TRUE)]_vars

\* What an ended call says is what it left: a reported image stands whole under
\* its name, each image received is reported either as landed or as failed,
\* and any other file of the call belongs to an image that failed.  An error
\* about one image loses no other (server.py:132).  A call that says it is
\* complete has delivered all that was asked for (server.py:231).
FilesAreTrue(c) ==
    LET landed == {i \in Images(c) : call[c].published[i] # None}
    IN  /\ \A i \in landed : disk[call[c].published[i]] = File(c, i, TRUE)
        /\ landed \cup call[c].failed = call[c].received
        /\ landed \cap call[c].failed = {}
        /\ At(c, "refused") => landed = {}
        /\ At(c, "answered") /\ Complete(c) => landed = Images(c)
        /\ \A n \in Names : disk[n] # None /\ disk[n].by = c =>
             \/ call[c].published[disk[n].image] = n
             \/ disk[n].image \in call[c].failed

\* The code of an error tells what the caller owes: a call that was billed ends
\* with images or with an error about its output, one that may have been says
\* that there was no answer, and after any other code nothing was paid: the call
\* may be repeated (errors.py:70).
ErrorIsTrue(c) ==
    LET sent == {requests[c][k] : k \in DOMAIN requests[c]}
    IN  /\ At(c, "answered") => error[c] = None /\ "billed" \in sent
        /\ At(c, "refused") =>
             /\ "billed" \in sent => error[c] \in {"output_error", "internal_error"}
             /\ "unknown" \in sent <=> error[c] \in {"api_timeout", "connection_error"}
             /\ error[c] = "output_error" => "billed" \in sent
             /\ error[c] \in ProviderRefusals => "rejected" \in sent

ReportIsTrue == \A c \in Calls : Answered(c) => FilesAreTrue(c) /\ ErrorIsTrue(c)

\* An ended call leaves no .part file, but one that could not be removed
\* (images.py:540).
NoPartLeft == \A c \in Calls : Answered(c) => \A p \in temps \ stuck : p[1] # c

\* No call is billed twice, and none is refused twice for the same fault: once
\* a request was answered with images, may have been, or was rejected for what it
\* is, the call sends no other, whatever becomes of its files and time meanwhile
\* (api.py:8, errors.py:70).
PaidOnce ==
    \A c \in Calls : \A k \in DOMAIN requests[c] :
        requests[c][k] # "busy" => k = Len(requests[c])

\* A request that gets no answer is given up by the deadline, if the client
\* keeps to the timeout, however the time was spent before: but for the second
\* reading of the files of an edit, which is not deducted (api.py:448).
InTime ==
    \A c \in Calls : At(c, "waiting") =>
        \E t \in ReadingTime(c) :
            call[c].spent + call[c].timeout <= OPERATION_DEADLINE + t

\* A retry is only sent with time enough to finish, whatever the first attempt
\* and the wait after it took (constants.py:186).
RetryHasRoom ==
    \A c \in Calls : At(c, "waiting") /\ call[c].attempt > 1 =>
        call[c].timeout >= RETRY_MIN_REMAINING

\* The two bounds of the time of a call: no request outlives the deadline, and
\* none is sent again only to time out (api.py:448, :489).
TimeIsKept == InTime /\ RetryHasRoom

\* Every call ends, unless it is killed.
EveryCallEnds == \A c \in Calls : <>(Answered(c) \/ At(c, "killed"))

==============================================================================
