------------------------------ MODULE ArtifactStore ------------------------------
(***************************************************************************)
(* rlm0/research/artifacts.py: put_bytes on one directory, by threads of   *)
(* several ArtifactStore objects.  The capacity check and the write are    *)
(* under the lock of one object only; other objects, of this process or of *)
(* others, share nothing but the directory.  A write may fail, and a       *)
(* process may die and leave its temporary file, which nobody removes and  *)
(* every later check counts.                                               *)
(*                                                                         *)
(* Data is a model value with a size; its content address is itself.       *)
(***************************************************************************)
EXTENDS Naturals, FiniteSets, FiniteSetsExt, Functions

CONSTANTS
    Putters,          \* threads
    StoreOf,          \* the store object each uses
    Data,
    Size,             \* the bytes of each
    MaxTotalBytes,
    MaxArtifactBytes,
    CrashBound        \* bound on the processes that die

VARIABLES
    content,  \* what is under each content address: absent, part or whole
    temp,     \* the bytes of each thread's temporary file
    litter,   \* the bytes of the temporary files of processes that died
    holder,   \* of each store's lock
    pc,
    item,     \* what each thread puts
    returned, \* the references put_bytes has returned
    crashes

vars == <<content, temp, litter, holder, pc, item, returned, crashes>>

Nobody == "nobody"
Store == Range(StoreOf)

TypeOK ==
    /\ content \in [Data -> {"absent", "part", "whole"}]
    /\ temp \in [Putters -> Nat]
    /\ litter \in Nat
    /\ holder \in [Store -> Putters \cup {Nobody}]
    /\ pc \in [Putters -> {"idle", "lock", "look", "check", "make", "write", "replace"}]
    /\ item \in [Putters -> Data]
    /\ returned \in SUBSET Data
    /\ crashes \in 0..CrashBound
    /\ \A t \in Putters : (holder[StoreOf[t]] = t) <=> (pc[t] \notin {"idle", "lock"})

Init ==
    /\ content = [d \in Data |-> "absent"]
    /\ temp = [t \in Putters |-> 0]
    /\ litter = 0
    /\ holder = [s \in Store |-> Nobody]
    /\ pc = [t \in Putters |-> "idle"]
    /\ item = [t \in Putters |-> CHOOSE d \in Data : TRUE]
    /\ returned = {} /\ crashes = 0

Sum(S, f(_)) == MapThenSumSet(f, S)

\* _total_bytes: objects and temporary files, whoever they belong to.
ObjectBytes == Sum({d \in Data : content[d] = "whole"}, LAMBDA d : Size[d])
TotalBytes == ObjectBytes + litter + Sum(Putters, LAMBDA t : temp[t])

Leave(t) ==
    /\ pc' = [pc EXCEPT ![t] = "idle"]
    /\ holder' = [holder EXCEPT ![StoreOf[t]] = Nobody]

\* put_bytes begins: an object above its own bound is refused at once.
Put(t) ==
    /\ pc[t] = "idle"
    /\ \E d \in Data :
        /\ Size[d] <= MaxArtifactBytes
        /\ item' = [item EXCEPT ![t] = d]
    /\ pc' = [pc EXCEPT ![t] = "lock"]
    /\ UNCHANGED <<content, temp, litter, holder, returned, crashes>>

Lock(t) ==
    /\ pc[t] = "lock" /\ holder[StoreOf[t]] = Nobody
    /\ holder' = [holder EXCEPT ![StoreOf[t]] = t]
    /\ pc' = [pc EXCEPT ![t] = "look"]
    /\ UNCHANGED <<content, temp, litter, item, returned, crashes>>

\* An object that is there is read back; one that does not match is an error.
Look(t) ==
    /\ pc[t] = "look"
    /\ IF content[item[t]] = "absent"
       THEN pc' = [pc EXCEPT ![t] = "check"] /\ UNCHANGED <<holder, returned>>
       ELSE /\ Leave(t)
            /\ returned' = IF content[item[t]] = "whole"
                           THEN returned \cup {item[t]} ELSE returned
    /\ UNCHANGED <<content, temp, litter, item, crashes>>

Check(t) ==
    /\ pc[t] = "check"
    /\ IF TotalBytes + Size[item[t]] <= MaxTotalBytes
       THEN pc' = [pc EXCEPT ![t] = "make"] /\ UNCHANGED holder
       ELSE Leave(t)
    /\ UNCHANGED <<content, temp, litter, item, returned, crashes>>

\* A file another object replaces or removes after it was listed, and before
\* its size is asked for, fails the whole sum.
CheckVanished(t) ==
    /\ pc[t] = "check"
    /\ \E u \in Putters : StoreOf[u] # StoreOf[t] /\ pc[u] \in {"write", "replace"}
    /\ Leave(t)
    /\ UNCHANGED <<content, temp, litter, item, returned, crashes>>

Make(t) ==
    /\ pc[t] = "make"
    /\ pc' = [pc EXCEPT ![t] = "write"]
    /\ UNCHANGED <<content, temp, litter, holder, item, returned, crashes>>

\* Seeded fault: the destination is written in place.
WriteInPlace(t) ==
    /\ pc[t] = "write"
    /\ content' = [content EXCEPT ![item[t]] = "part"]
    /\ temp' = [temp EXCEPT ![t] = Size[item[t]]]
    /\ pc' = [pc EXCEPT ![t] = "replace"]
    /\ UNCHANGED <<litter, holder, item, returned, crashes>>

Write(t) ==
    /\ pc[t] = "write"
    /\ temp' = [temp EXCEPT ![t] = Size[item[t]]]
    /\ pc' = [pc EXCEPT ![t] = "replace"]
    /\ UNCHANGED <<content, litter, holder, item, returned, crashes>>

\* The write, its flush or its sync fails: the file goes, the error is raised.
WriteFails(t) ==
    /\ pc[t] \in {"write", "replace"}
    /\ temp' = [temp EXCEPT ![t] = 0]
    /\ Leave(t)
    /\ UNCHANGED <<content, litter, item, returned, crashes>>

\* os.replace, over an object another store may have put there meanwhile.
Replace(t) ==
    /\ pc[t] = "replace"
    /\ content' = [content EXCEPT ![item[t]] = "whole"]
    /\ temp' = [temp EXCEPT ![t] = 0]
    /\ returned' = returned \cup {item[t]}
    /\ Leave(t)
    /\ UNCHANGED <<litter, item, crashes>>

\* The process of a store dies, with all its threads; a file cut short keeps
\* the bytes it has.
Crash(s) ==
    /\ crashes < CrashBound /\ holder[s] # Nobody
    /\ litter' = litter + temp[holder[s]]
    /\ temp' = [temp EXCEPT ![holder[s]] = 0]
    /\ holder' = [holder EXCEPT ![s] = Nobody]
    /\ pc' = [t \in Putters |-> IF StoreOf[t] = s THEN "idle" ELSE pc[t]]
    /\ crashes' = crashes + 1
    /\ UNCHANGED <<content, item, returned>>

Next ==
    \/ \E t \in Putters :
        \/ Put(t) \/ Lock(t) \/ Look(t) \/ Check(t) \/ CheckVanished(t)
        \/ Make(t) \/ Write(t) \/ WriteFails(t) \/ Replace(t)
    \/ \E s \in Store : Crash(s)

Spec == Init /\ [][Next]_vars

-----------------------------------------------------------------------------

\* What was promised is kept: once put_bytes has returned a reference, its
\* object is there and whole, whatever else fails, dies or puts the same data.
ReturnedIsKept == \A d \in returned : content[d] = "whole"

\* The store is never over its total by more than one object for each of the
\* other store objects on the directory: one object alone is exact.
OverByOthersOnly ==
    TotalBytes <= MaxTotalBytes + (Cardinality(Store) - 1) * MaxArtifactBytes

\* What was stored stays, within the room there is.
StoreKeepsItsWord == ReturnedIsKept /\ OverByOthersOnly
=============================================================================
