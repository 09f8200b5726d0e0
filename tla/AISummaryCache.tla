---------------------------- MODULE AISummaryCache ----------------------------
(***************************************************************************)
(* The process-local cache of AI summaries (AIExecutiveSummaryCache,      *)
(* get_or_generate): requests of one event loop, a first look without the *)
(* lock, then a FIFO lock, a second look, and a generation that may take  *)
(* minutes while other requests arrive.  A request is interrupted only    *)
(* where it awaits: at the lock, and while the summary is generated.      *)
(*                                                                         *)
(* A summary is represented by the number of the generation that made it. *)
(***************************************************************************)
EXTENDS Integers, Sequences, FiniteSets

CONSTANTS
    Request,        \* concurrent requests
    Key,            \* time ranges asked for (the time to live is a setting)
    Nobody,         \* the lock is free
    TTL,            \* ttl_seconds, ai_summary_cache_seconds
    MaxEntries,     \* max_entries
    MaxTime,        \* bound: the clock
    MaxGenerations, \* bound: summaries generated
    MaxFaults       \* bound: generations that fail

ASSUME ParametersAssumption ==
    /\ Nobody \notin Request
    /\ TTL \in Nat \ {0} /\ MaxEntries \in Nat \ {0}
    /\ MaxTime \in Nat /\ MaxGenerations \in Nat /\ MaxFaults \in Nat

VARIABLES
    now,      \* monotonic()
    entries,  \* _entries; place is the order of insertion of the dict
    lock,     \* who holds _lock
    queue,    \* who waits for it, in order of arrival
    pc,       \* idle, waiting or generating
    want,     \* the key asked for; Nobody while a request is idle
    made,     \* history: the generations that ended well
    begun,    \* history: when the generation under way began
    answer,   \* history: the last answer given
    faults    \* counts the faults, to bound them

vars == <<now, entries, lock, queue, pc, want, made, begun, answer, faults>>

-----------------------------------------------------------------------------
(* The dict *)

\* Mutated form of IsFresh: an entry is used as long as it is there.
IsFreshAlways(e) == TRUE

IsFresh(e) == now < e.expires_at

Hit(k) == \E e \in entries : e.key = k /\ IsFresh(e)

EntryOf(k) == CHOOSE e \in entries : e.key = k

\* Mutated form of Pruned: expired entries stay.
PrunedNot == entries

\* _prune_expired
Pruned == {e \in entries : now < e.expires_at}

\* A key that is present keeps its place, a new one comes last: its place is
\* the number of its generation, higher than any before.
Put(k, generation) ==
    LET old == {e \in entries : e.key = k}
        place == IF old = {} THEN generation ELSE (CHOOSE e \in old : TRUE).place
    IN (entries \ old) \cup {[key |-> k, generation |-> generation,
                             expires_at |-> now + TTL, place |-> place]}

\* _trim_oldest: the last MaxEntries stay.
Trimmed(es) ==
    {e \in es : Cardinality({f \in es : f.place > e.place}) < MaxEntries}

-----------------------------------------------------------------------------
(* get_or_generate *)

Answered(r, k, generation) ==
    /\ pc' = [pc EXCEPT ![r] = "idle"]
    /\ want' = [want EXCEPT ![r] = Nobody]
    /\ answer' = [key |-> k, generation |-> generation, at |-> now]

\* Bounds the requests that may still generate.
Admitted ==
    Len(made) + Cardinality({r \in Request : pc[r] # "idle"}) < MaxGenerations

\* The first look finds an entry: no lock is taken.
AnswerAtOnce(r, k) ==
    /\ pc[r] = "idle"
    /\ Hit(k)
    /\ Answered(r, k, EntryOf(k).generation)
    /\ UNCHANGED <<now, entries, lock, queue, made, begun, faults>>

\* The second look, with the lock: expired entries of all keys are dropped.
StartGeneration(r) ==
    /\ lock' = r
    /\ pc' = [pc EXCEPT ![r] = "generating"]
    /\ entries' = Pruned
    /\ begun' = now
    /\ UNCHANGED <<now, made, answer, faults>>

\* The lock is free and nobody is about to get it.
GenerateAtOnce(r, k) ==
    /\ pc[r] = "idle"
    /\ ~Hit(k)
    /\ Admitted
    /\ lock = Nobody /\ queue = <<>>
    /\ want' = [want EXCEPT ![r] = k]
    /\ StartGeneration(r)
    /\ UNCHANGED queue

Wait(r, k) ==
    /\ pc[r] = "idle"
    /\ ~Hit(k)
    /\ Admitted
    /\ lock # Nobody \/ queue # <<>>
    /\ want' = [want EXCEPT ![r] = k]
    /\ pc' = [pc EXCEPT ![r] = "waiting"]
    /\ queue' = Append(queue, r)
    /\ UNCHANGED <<now, entries, lock, made, begun, answer, faults>>

\* The first in the queue is woken up: another request may have made what it
\* wants meanwhile ...
AnswerWaiter(r) ==
    /\ lock = Nobody /\ queue # <<>> /\ r = Head(queue)
    /\ Hit(want[r])
    /\ queue' = Tail(queue)
    /\ entries' = Pruned
    /\ Answered(r, want[r], EntryOf(want[r]).generation)
    /\ UNCHANGED <<now, lock, made, begun, faults>>

\* Mutated form of GenerateForWaiter: there is no second look.
GenerateForWaiterBlindly(r) ==
    /\ lock = Nobody /\ queue # <<>> /\ r = Head(queue)
    /\ queue' = Tail(queue)
    /\ StartGeneration(r)
    /\ UNCHANGED want

\* ... or not.
GenerateForWaiter(r) ==
    /\ lock = Nobody /\ queue # <<>> /\ r = Head(queue)
    /\ ~Hit(want[r])
    /\ queue' = Tail(queue)
    /\ StartGeneration(r)
    /\ UNCHANGED want

\* generate returns: the entry is stored, the lock released.
Generated(r) ==
    /\ pc[r] = "generating"
    /\ made' = Append(made, [key |-> want[r], begun |-> begun, ended |-> now])
    /\ entries' = Trimmed(Put(want[r], Len(made) + 1))
    /\ lock' = Nobody
    /\ begun' = 0
    /\ Answered(r, want[r], Len(made) + 1)
    /\ UNCHANGED <<now, queue, faults>>

\* Mutated form of GenerationFails: the lock is not released.
GenerationFailsLocked(r) ==
    /\ pc[r] = "generating"
    /\ faults < MaxFaults
    /\ faults' = faults + 1
    /\ pc' = [pc EXCEPT ![r] = "idle"]
    /\ want' = [want EXCEPT ![r] = Nobody]
    /\ begun' = 0
    /\ UNCHANGED <<now, entries, lock, queue, made, answer>>

\* generate raises, or is cancelled: nothing is stored, the lock is released
\* and the error is this request's alone.
GenerationFails(r) ==
    /\ pc[r] = "generating"
    /\ faults < MaxFaults
    /\ faults' = faults + 1
    /\ pc' = [pc EXCEPT ![r] = "idle"]
    /\ want' = [want EXCEPT ![r] = Nobody]
    /\ begun' = 0
    /\ lock' = Nobody
    /\ UNCHANGED <<now, entries, queue, made, answer>>

Tick ==
    /\ now < MaxTime
    /\ now' = now + 1
    /\ UNCHANGED <<entries, lock, queue, pc, want, made, begun, answer, faults>>

-----------------------------------------------------------------------------

Init ==
    /\ now = 0
    /\ entries = {}
    /\ lock = Nobody
    /\ queue = <<>>
    /\ pc = [r \in Request |-> "idle"]
    /\ want = [r \in Request |-> Nobody]
    /\ made = <<>>
    /\ begun = 0
    /\ answer = [key |-> Nobody, generation |-> 0, at |-> 0]
    /\ faults = 0

\* What a request does once it waits or generates.
Proceed(r) ==
    AnswerWaiter(r) \/ GenerateForWaiter(r) \/ Generated(r) \/ GenerationFails(r)

Next ==
    \/ \E r \in Request :
        \/ \E k \in Key : AnswerAtOnce(r, k) \/ GenerateAtOnce(r, k) \/ Wait(r, k)
        \/ Proceed(r)
    \/ Tick

Spec == Init /\ [][Next]_vars

\* The event loop runs every task that is ready, and a generation ends: the
\* provider's request has a timeout.
FairSpec == Spec /\ \A r \in Request : WF_vars(Proceed(r))

-----------------------------------------------------------------------------
(* Properties *)

Entry == [key : Key, generation : Nat, expires_at : Nat, place : Nat]

\* Types.
TypeOK ==
    /\ now \in Nat
    /\ entries \in SUBSET Entry
    /\ lock \in Request \cup {Nobody}
    /\ queue \in Seq(Request)
    /\ pc \in [Request -> {"idle", "waiting", "generating"}]
    /\ want \in [Request -> Key \cup {Nobody}]
    /\ made \in Seq([key : Key, begun : Nat, ended : Nat])
    /\ begun \in Nat
    /\ answer \in [key : Key \cup {Nobody}, generation : Nat, at : Nat]
    /\ faults \in Nat

\* The oldest entry by insertion is also the first to expire, and no key has
\* two: so _trim_oldest, which keeps the dict within its limit, gives up the
\* summary that is worth least.
OldestExpiresFirst ==
    /\ Cardinality(entries) <= MaxEntries
    /\ \A e, f \in entries :
        /\ e.place < f.place => e.expires_at <= f.expires_at
        /\ e # f => e.key # f.key

\* Generation is coalesced: a summary of the same range is generated again
\* only when the earlier one has expired, or when at least MaxEntries others
\* have been generated in between and pushed it out (get_or_generate, the
\* second look with the lock).
Coalesced ==
    \A i, j \in DOMAIN made :
        i < j /\ made[i].key = made[j].key =>
            \/ made[j].begun >= made[i].ended + TTL
            \/ j - i > MaxEntries

\* Every answer is a summary of the range asked for, and was made less than
\* the time to live ago, however long the request waited for the lock.
AnswerIsCurrent ==
    answer.generation # 0 =>
        /\ answer.generation \in DOMAIN made
        /\ made[answer.generation].key = answer.key
        /\ answer.at < made[answer.generation].ended + TTL

\* Every request ends, with an answer or with the error of its own generation:
\* one that waits behind others, or behind a failing one, is not forgotten.
RequestsEnd == \A r \in Request : pc[r] # "idle" ~> pc[r] = "idle"
=============================================================================
