---------------------------- MODULE NameResolver ----------------------------
(***************************************************************************)
(* Display names of players (ResolvePlayerDisplayName and WatchNameCache   *)
(* of addon/WoWTranslate/WoWTranslate.lua).  A callback that needs the     *)
(* translation of a sender's name waits in pendingNameTranslations until   *)
(* somebody runs finish() for the name: the callback of its request, or,   *)
(* when Translate returned false, a watch that looks into the cache every  *)
(* 0.1 s and gives up after NAME_RETRY_LIMIT looks.  What waits is a set   *)
(* of chat lines here; callbacks of one name run together, in one handler. *)
(*                                                                         *)
(* The API is used as AddonApi describes it (see ChatFrames).  A watch may *)
(* reach its limit at any look: looks are not counted.                     *)
(***************************************************************************)
EXTENDS Naturals, FiniteSets, Functions

CONSTANTS
  Senders,      \* raw names
  ApiOutcomes   \* how Translate answers: "queued", "skipped", "refused"

VARIABLES
  pendingNameTranslations,  \* name -> the lines that wait for it
  nameRequests,             \* names whose request is in flight
  nameRetryWaiters,         \* names that are watched
  nameCache                 \* names whose translation is cached

nameVars == <<pendingNameTranslations, nameRequests, nameRetryWaiters, nameCache>>

Without(f, x) == Restrict(f, DOMAIN f \ {x})

With(f, x, v) == [y \in DOMAIN f \cup {x} |-> IF y = x THEN v ELSE f[y]]

NamesInit ==
  /\ pendingNameTranslations = <<>>
  /\ nameRequests = {} /\ nameRetryWaiters = {} /\ nameCache = {}

WatchNameCache(name) == nameRetryWaiters' = nameRetryWaiters \cup {name}

(* The callback runs at once: the name needs no translation, it is cached, *)
(* or the DLL is not there, whoever else waits for it; or the DLL answers  *)
(* "error|...", upon which Translate runs the callback and returns false.  *)
NameAtOnce(name) ==
  \/ UNCHANGED nameVars
  \/ /\ name \notin nameCache \cup DOMAIN pendingNameTranslations \cup nameRequests
     /\ "refused" \in ApiOutcomes
     /\ WatchNameCache(name)
     /\ UNCHANGED <<pendingNameTranslations, nameRequests, nameCache>>

NameAwaitedUnwatched(name, lines) ==
  /\ name \notin nameCache
  /\ \/ /\ name \in DOMAIN pendingNameTranslations
        /\ pendingNameTranslations' = [pendingNameTranslations EXCEPT ![name] = @ \cup lines]
        /\ UNCHANGED <<nameRequests, nameRetryWaiters>>
     \/ /\ name \notin DOMAIN pendingNameTranslations
        /\ pendingNameTranslations' = With(pendingNameTranslations, name, lines)
        /\ \/ /\ "queued" \in ApiOutcomes /\ name \notin nameRequests
              /\ nameRequests' = nameRequests \cup {name}
           \/ /\ "skipped" \in ApiOutcomes \/ name \in nameRequests
              /\ UNCHANGED nameRequests
        /\ UNCHANGED nameRetryWaiters
  /\ UNCHANGED nameCache

(* The callback joins those that wait already, or is the first: then the   *)
(* name is asked for, and watched if Translate returns false, because its  *)
(* cap is reached or the name is in flight as it is.                       *)
NameAwaited(name, lines) ==
  /\ name \notin nameCache
  /\ \/ /\ name \in DOMAIN pendingNameTranslations
        /\ pendingNameTranslations' = [pendingNameTranslations EXCEPT ![name] = @ \cup lines]
        /\ UNCHANGED <<nameRequests, nameRetryWaiters>>
     \/ /\ name \notin DOMAIN pendingNameTranslations
        /\ pendingNameTranslations' = With(pendingNameTranslations, name, lines)
        /\ \/ /\ "queued" \in ApiOutcomes /\ name \notin nameRequests
              /\ nameRequests' = nameRequests \cup {name}
              /\ UNCHANGED nameRetryWaiters
           \/ /\ "skipped" \in ApiOutcomes \/ name \in nameRequests
              /\ WatchNameCache(name)
              /\ UNCHANGED nameRequests
  /\ UNCHANGED nameCache

(* finish(), of each of the names: those who wait are taken off the table  *)
(* and called.                                                             *)
Waiting(names) ==
  UNION {pendingNameTranslations[n] : n \in names \cap DOMAIN pendingNameTranslations}

Finish(names) ==
  pendingNameTranslations' =
    Restrict(pendingNameTranslations, DOMAIN pendingNameTranslations \ names)

(* The request's callback, with a translation or an error.                 *)
NameAnswered(name) ==
  /\ name \in nameRequests
  /\ nameRequests' = nameRequests \ {name}
  /\ nameCache' \in {nameCache, nameCache \cup {name}}
  /\ Finish({name})
  /\ UNCHANGED nameRetryWaiters

(* NameRetryOnUpdate: the watches that find the name in the cache, and     *)
(* those at their limit, end.                                              *)
NameRetryOnUpdate(names) ==
  /\ names # {} /\ nameRetryWaiters \cap nameCache \subseteq names
  /\ names \subseteq nameRetryWaiters
  /\ nameRetryWaiters' = nameRetryWaiters \ names
  /\ Finish(names)
  /\ UNCHANGED <<nameRequests, nameCache>>
=============================================================================
