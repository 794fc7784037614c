------------------------------ MODULE SessionMemory ------------------------------
(***************************************************************************)
(* One session of the agents' short-term memory in Redis: a value per key, *)
(* stored with SETEX, and an index set of the keys, which get_all and      *)
(* delete_session go by.  set is three round trips, delete_session two,    *)
(* and nothing holds them together: coroutines and pods interleave, Redis  *)
(* may fail in between, and time passes.                                   *)
(***************************************************************************)
EXTENDS Integers

CONSTANTS
  Keys,       \* keys of the session
  Setters,    \* coroutines that call set
  Erasers,    \* coroutines that call delete_session
  Ttls,       \* lifetimes asked for, in clock units: the default and others
  MaxTtl      \* the longest of them

ASSUME SessionAssumption == Keys # {} /\ MaxTtl \in Nat /\ Ttls \subseteq 1..MaxTtl

VARIABLES
  ttl,        \* ttl[k]: remaining lifetime of the value, 0 when there is none
  index,      \* members of the index set
  indexTtl,   \* remaining lifetime of the index, 0 when there is none, or Never
  setPc,      \* setPc[c]: the next call of a running set
  setKey,     \* setKey[c], setTtl[c]: its arguments
  setTtl,
  listed,     \* listed[e]: the members delete_session has read, or NotRead
  excused     \* history: keys whose listing was lost in one of the known ways

setVars == <<setPc, setKey, setTtl>>
sessionVars == <<ttl, index, indexTtl, setVars, listed, excused>>

Never == MaxTtl + 1
NotRead == [members |-> {}, read |-> FALSE]
Listing(members) == [members |-> members, read |-> TRUE]
SomeKey == CHOOSE k \in Keys : TRUE

SessionTypeOK ==
  /\ ttl \in [Keys -> 0..MaxTtl]
  /\ index \in SUBSET Keys
  /\ indexTtl \in 0..Never
  /\ setPc \in [Setters -> {"idle", "sadd", "expire"}]
  /\ setKey \in [Setters -> Keys]
  /\ setTtl \in [Setters -> 0..MaxTtl]
  /\ listed \in [Erasers -> [members : SUBSET Keys, read : BOOLEAN]]
  /\ excused \in SUBSET Keys

SessionInit ==
  /\ ttl = [k \in Keys |-> 0]
  /\ index = {} /\ indexTtl = 0
  /\ setPc = [c \in Setters |-> "idle"]
  /\ setKey = [c \in Setters |-> SomeKey]
  /\ setTtl = [c \in Setters |-> 0]
  /\ listed = [e \in Erasers |-> NotRead]
  /\ excused = {}

Live == {k \in Keys : ttl[k] > 0}

--------------------------------------------------------------------------------
(* set *)

\* Variant of Setex: a lifetime in milliseconds handed on as seconds.
SetexMillis(c) ==
  /\ setPc[c] = "idle"
  /\ \E k \in Keys, t \in Ttls :
       /\ ttl' = [ttl EXCEPT ![k] = 1000 * t]
       /\ setKey' = [setKey EXCEPT ![c] = k]
       /\ setTtl' = [setTtl EXCEPT ![c] = t]
  /\ setPc' = [setPc EXCEPT ![c] = "sadd"]
  /\ UNCHANGED <<index, indexTtl, listed, excused>>

\* The value is there from here on.
Setex(c) ==
  /\ setPc[c] = "idle"
  /\ \E k \in Keys, t \in Ttls :
       /\ ttl' = [ttl EXCEPT ![k] = t]
       /\ setKey' = [setKey EXCEPT ![c] = k]
       /\ setTtl' = [setTtl EXCEPT ![c] = t]
  /\ setPc' = [setPc EXCEPT ![c] = "sadd"]
  /\ UNCHANGED <<index, indexTtl, listed, excused>>

\* A set created by SADD has no lifetime yet.
Sadd(c) ==
  /\ setPc[c] = "sadd"
  /\ index' = index \cup {setKey[c]}
  /\ indexTtl' = IF index = {} THEN Never ELSE indexTtl
  /\ setPc' = [setPc EXCEPT ![c] = "expire"]
  /\ UNCHANGED <<ttl, setKey, setTtl, listed, excused>>

SetDone(c) ==
  /\ setPc' = [setPc EXCEPT ![c] = "idle"]
  /\ setKey' = [setKey EXCEPT ![c] = SomeKey]
  /\ setTtl' = [setTtl EXCEPT ![c] = 0]

\* Variant of Expire: only an index without a lifetime gets one (EXPIRE ... NX).
ExpireNX(c) ==
  /\ setPc[c] = "expire" /\ index # {}
  /\ indexTtl' = IF indexTtl = Never THEN setTtl[c] ELSE indexTtl
  /\ excused' = {k \in Live : ttl[k] > setTtl[c]}
                  \cup (((excused \cup {setKey[c]}) \cap Live) \ index)
  /\ SetDone(c)
  /\ UNCHANGED <<ttl, index, listed>>

\* EXPIRE gives the index the lifetime of this key, also when that is shorter
\* than what other keys have left.
Expire(c) ==
  /\ setPc[c] = "expire" /\ index # {}
  /\ indexTtl' = setTtl[c]
  /\ excused' = {k \in Live : ttl[k] > setTtl[c]}
                  \cup (((excused \cup {setKey[c]}) \cap Live) \ index)
  /\ SetDone(c)
  /\ UNCHANGED <<ttl, index, listed>>

\* EXPIRE of an index that expired or was deleted since SADD does nothing.
ExpireMissing(c) ==
  /\ setPc[c] = "expire" /\ index = {}
  /\ excused' = excused \cup ({setKey[c]} \cap Live)
  /\ SetDone(c)
  /\ UNCHANGED <<ttl, index, indexTtl, listed>>

\* A call raises, or the pod dies: the steps already taken remain.
SetFails(c) ==
  /\ setPc[c] # "idle"
  /\ excused' = excused \cup ({setKey[c]} \cap Live)
  /\ SetDone(c)
  /\ UNCHANGED <<ttl, index, indexTtl, listed>>

--------------------------------------------------------------------------------
(* delete_session, and time *)

EraseList(e) ==
  /\ ~listed[e].read
  /\ listed' = [listed EXCEPT ![e] = Listing(index)]
  /\ UNCHANGED <<ttl, index, indexTtl, setVars, excused>>

\* One DEL of the values listed before and of the index as it is now.
EraseDelete(e) ==
  /\ listed[e].read
  /\ ttl' = [k \in Keys |-> IF k \in listed[e].members THEN 0 ELSE ttl[k]]
  /\ index' = {} /\ indexTtl' = 0
  /\ excused' = (excused \cup (index \cap Live)) \ listed[e].members
  /\ listed' = [listed EXCEPT ![e] = NotRead]
  /\ UNCHANGED setVars

EraseFails(e) ==
  /\ listed[e].read
  /\ listed' = [listed EXCEPT ![e] = NotRead]
  /\ UNCHANGED <<ttl, index, indexTtl, setVars, excused>>

\* Redis drops what has expired.
SessionTick ==
  /\ ttl' = [k \in Keys |-> IF ttl[k] > 0 THEN ttl[k] - 1 ELSE 0]
  /\ indexTtl' = IF indexTtl \in {0, Never} THEN indexTtl ELSE indexTtl - 1
  /\ index' = IF indexTtl' = 0 THEN {} ELSE index
  /\ excused' = {k \in excused : ttl'[k] > 0}
  /\ UNCHANGED <<setVars, listed>>

SessionNext ==
  \/ \E c \in Setters :
       Setex(c) \/ Sadd(c) \/ Expire(c) \/ ExpireMissing(c) \/ SetFails(c)
  \/ \E e \in Erasers : EraseList(e) \/ EraseDelete(e) \/ EraseFails(e)
  \/ SessionTick

SessionSpec == SessionInit /\ [][SessionNext]_sessionVars

--------------------------------------------------------------------------------
(* Properties *)

\* A set of k that has not returned yet.
BeingSet(k) == \E c \in Setters : setPc[c] # "idle" /\ setKey[c] = k

\* What get_all and delete_session do not see.  A value that can be read is in
\* the index, for as long as it lives, except in the known ways: its set is
\* under way or failed halfway, another set gave the index a shorter lifetime,
\* the index vanished between SADD and EXPIRE, or delete_session dropped an
\* index that had grown since it read it.  So nothing else survives an erasure.
UnlistedIsExplained ==
  \A k \in Live :
    \/ k \in index /\ indexTtl >= ttl[k]
    \/ BeingSet(k)
    \/ k \in excused
================================================================================
