----------------------------- MODULE FileCache -----------------------------
(***************************************************************************)
(* The memo in front of StormArchive::FindFileEntry: the table of          *)
(* windows/turbo/src/storm/filecache.rs and the hooks that probe, replay,  *)
(* record and flush it (windows/turbo/src/win/hooks.rs).  Several threads  *)
(* look files up while one of them mounts or unmounts an archive.  The     *)
(* table's mutex is held for one probe, insert or clear and never across a *)
(* call of the client, so each of those is a step and so is each call.     *)
(*                                                                         *)
(* Storm itself (the open list, reference counts, the stock resolver) is   *)
(* external.  A handle may come back, after its archive is gone, for       *)
(* another archive.  A name's spelling and search scope are part of the    *)
(* key; names too long to be cached, and the resolver's return codes 2 and *)
(* 3, go to stock and are never recorded: they are not modelled.  Nor are  *)
(* the lookups stock makes through the hook while it answers a query of a  *)
(* container: the answer is taken from the archives in one step.           *)
(***************************************************************************)
EXTENDS Integers, Sequences, FiniteSets, FiniteSetsExt, SequencesExt

CONSTANTS
  Threads,
  Mounters,      \* the threads among them that mount and unmount archives
  Handles,       \* addresses of archives
  Names,
  BlockTables,   \* what an archive can hold: the block index of each name, 0 if none
  Redirect,      \* the archive that answers, if it can, for what is in another
  Shapes,        \* the sets of out-pointers call sites pass
  BucketOf,      \* Key::populate's hash of each key
  MaxChanges     \* bound: mounts and unmounts

None == 0
Keys == [archive : Handles \cup {None}, name : Names]
Outs == {"archive", "found_in", "block"}
Buckets == {BucketOf[k] : k \in Keys}
Ways == {0, 1}

ASSUME FileCacheAssumption ==
  /\ IsFiniteSet(Threads) /\ Mounters \subseteq Threads
  /\ None \notin Handles
  /\ BlockTables \subseteq [Names -> Nat]
  /\ Redirect \in [Handles -> Handles]
  /\ Shapes \subseteq SUBSET Outs
  /\ DOMAIN BucketOf = Keys
  /\ MaxChanges \in Nat

VARIABLES
  open,     \* the open-archive list, in the order it is searched
  blocks,   \* the block table of the archive at each handle
  refs,     \* how often each handle is referenced
  changes,  \* mounts and unmounts so far
  table,    \* the buckets of the memo
  call      \* what each thread is doing

stormVars == <<open, blocks, refs, changes>>
vars == <<stormVars, table, call>>

EmptyEntry == [used |-> FALSE]
EmptyBucket == [ways |-> [w \in Ways |-> EmptyEntry], evict_next |-> 0]

(* KNOWN_FOUND, KNOWN_FOUND_IN and KNOWN_BLOCK are "archive", "found_in"   *)
(* and "block".  Two fields are history: block_of is the archive whose     *)
(* table block indexes, and straddled says that the answer was asked for   *)
(* before a change of the list and recorded after it.                      *)
NoHit == [negative |-> TRUE, found |-> None, found_in |-> None, block |-> 0,
          known |-> {}, block_of |-> None, straddled |-> FALSE]

NoKey == [archive |-> None, name |-> CHOOSE n \in Names : TRUE]

(* found and found_in are the handles the running call has a reference to. *)
Idle == [at |-> "idle", key |-> NoKey, outs |-> {}, hit |-> NoHit,
         found |-> None, found_in |-> None, ret |-> 0, straddled |-> FALSE]

Init ==
  /\ open = <<>>
  /\ blocks = [h \in Handles |-> [n \in Names |-> 0]]
  /\ refs = [h \in Handles |-> 0]
  /\ changes = 0
  /\ table = [b \in Buckets |-> EmptyBucket]
  /\ call = [t \in Threads |-> Idle]

-----------------------------------------------------------------------------
(* Storm                                                                   *)

IsOpen(h) == h \in Range(open)

(* The first archive of the list, or the one asked, that has the name.     *)
Owners(k) == {i \in DOMAIN open : /\ k.archive \in {None, open[i]}
                                  /\ blocks[open[i]][k.name] # 0}

Owner(k) == IF Owners(k) = {} THEN None ELSE open[Min(Owners(k))]

(* The archive found, "possibly a redirect" of the one the walk matched in *)
FoundFor(k) ==
  LET owner == Owner(k)
      redirects == /\ owner # None /\ IsOpen(Redirect[owner])
                   /\ blocks[Redirect[owner]][k.name] # 0
  IN IF redirects THEN Redirect[owner] ELSE owner

(* 0x650780 takes a reference if the handle is on the list; 0x6507e0 gives *)
(* one back.  References given back together are one step.                 *)
Refs(given) == refs' = [h \in Handles |-> refs[h] + given[h]]

Times(h, handles) == Cardinality({i \in DOMAIN handles : handles[i] = h})

Take(handles) == Refs([h \in Handles |-> Times(h, handles)])
GiveBack(handles) == Refs([h \in Handles |-> -Times(h, handles)])

-----------------------------------------------------------------------------
(* The table: two ways a bucket, the one not touched last is evicted next. *)

Matches(entry, k) == entry.used /\ entry.key = k

WaysOf(k) == {w \in Ways : Matches(table[BucketOf[k]].ways[w], k)}

Touched(w) == IF w = 0 THEN 1 ELSE 0

(* The block index is kept, whatever archive it is for.                    *)
MergedKeeping(old, new) ==
  LET brings == "block" \in new.known IN
  IF old.negative \/ new.negative THEN new
  ELSE [negative |-> FALSE,
        found |-> IF "archive" \in new.known THEN new.found ELSE old.found,
        found_in |-> IF "found_in" \in new.known THEN new.found_in ELSE old.found_in,
        block |-> IF brings THEN new.block ELSE old.block,
        known |-> old.known \cup new.known,
        block_of |-> IF brings THEN new.block_of ELSE old.block_of,
        straddled |-> old.straddled \/ new.straddled]

(* Fields accumulate; a block index is dropped with the archive it is for. *)
Merged(old, new) ==
  LET found == IF "archive" \in new.known THEN new.found ELSE old.found
      keeps == "block" \in new.known \/ ("block" \in old.known /\ found = old.found)
  IN IF old.negative \/ new.negative THEN new
     ELSE [negative |-> FALSE, found |-> found,
           found_in |-> IF "found_in" \in new.known THEN new.found_in ELSE old.found_in,
           block |-> IF "block" \in new.known THEN new.block
                     ELSE IF keeps THEN old.block ELSE 0,
           known |-> ((old.known \cup new.known) \ {"block"})
                     \cup IF keeps THEN {"block"} ELSE {},
           block_of |-> IF "block" \in new.known THEN new.block_of
                        ELSE IF keeps THEN old.block_of ELSE None,
           straddled |-> old.straddled \/ new.straddled]

(* The way insert writes: the key's own, an empty one, or the evicted one. *)
WayFor(k) ==
  LET bucket == table[BucketOf[k]]
      empty == {w \in Ways : ~bucket.ways[w].used}
  IN IF WaysOf(k) # {} THEN Min(WaysOf(k))
     ELSE IF empty # {} THEN Min(empty) ELSE bucket.evict_next

Insert(k, hit) ==
  LET w == WayFor(k)
      kept == IF WaysOf(k) = {} THEN hit ELSE Merged(table[BucketOf[k]].ways[w].hit, hit)
  IN table' = [table EXCEPT ![BucketOf[k]] =
                 [ways |-> [@.ways EXCEPT ![w] = [used |-> TRUE, key |-> k, hit |-> kept]],
                  evict_next |-> Touched(w)]]

-----------------------------------------------------------------------------
(* A lookup                                                                *)

At(t, where) == call[t].at = where

Goto(t, where) == call' = [call EXCEPT ![t].at = where]

(* The replay is given up, and stock asked.                                *)
GiveUp(t) == call' = [call EXCEPT ![t] = [Idle EXCEPT !.at = "delegate", !.key = call[t].key,
                                            !.outs = call[t].outs]]

(* The call returns; the caller keeps the archives it was given, if any.   *)
Return(t, found, found_in) ==
  call' = [call EXCEPT ![t] =
             [Idle EXCEPT !.at = IF {found, found_in} = {None} THEN "idle" ELSE "returned",
                          !.found = found, !.found_in = found_in]]

(* What a replay does next: reference the found archive, read its block    *)
(* table, reference the archive found in, write the out-pointers.          *)
AfterBlock(outs) == IF "found_in" \in outs THEN "ref_found_in" ELSE "write"
AfterFound(outs) == IF "block" \in outs THEN "read_block" ELSE AfterBlock(outs)
AfterProbe(outs) == IF outs \cap {"archive", "block"} = {} THEN AfterFound(outs) ELSE "ref_found"

(* storm_wanted_fields                                                     *)
Wanted(outs) == outs \cup IF "block" \in outs THEN {"archive"} ELSE {}

(* The hook probes; a negative is replayed at once, a positive that does   *)
(* not carry every field the call wants is left to stock.                  *)
Probe(t, k, outs) ==
  LET ways == WaysOf(k)
      hit == table[BucketOf[k]].ways[Min(ways)].hit
      begun == [Idle EXCEPT !.key = k, !.outs = outs]
  IN /\ At(t, "idle")
     /\ IF ways = {}
        THEN /\ call' = [call EXCEPT ![t] = [begun EXCEPT !.at = "delegate"]]
             /\ UNCHANGED table
        ELSE /\ table' = [table EXCEPT ![BucketOf[k]].evict_next = Touched(Min(ways))]
             /\ IF hit.negative THEN Return(t, None, None)
                ELSE call' = [call EXCEPT ![t] =
                       IF Wanted(outs) \subseteq hit.known
                       THEN [begun EXCEPT !.hit = hit, !.at = AfterProbe(outs)]
                       ELSE [begun EXCEPT !.at = "delegate"]]
     /\ UNCHANGED stormVars

RefFound(t) ==
  LET c == call[t]
      h == c.hit.found
  IN /\ At(t, "ref_found")
     /\ IF IsOpen(h)
        THEN /\ Take(<<h>>)
             /\ call' = [call EXCEPT ![t].found = h, ![t].at = AfterFound(c.outs)]
        ELSE UNCHANGED refs /\ GiveUp(t)
     /\ UNCHANGED <<open, blocks, changes, table>>

ReadBlockKeeping(t) ==
  LET c == call[t] IN
  /\ At(t, "read_block")
  /\ \/ Goto(t, AfterBlock(c.outs))
     \/ ~IsOpen(c.found) /\ GiveUp(t)
  /\ UNCHANGED <<stormVars, table>>

(* The block table is there, unless the archive has left the list.         *)
ReadBlock(t) ==
  LET c == call[t] IN
  /\ At(t, "read_block")
  /\ \/ UNCHANGED refs /\ Goto(t, AfterBlock(c.outs))
     \/ /\ ~IsOpen(c.found)
        /\ GiveBack(<<c.found>>) /\ GiveUp(t)
  /\ UNCHANGED <<open, blocks, changes, table>>

(* If it is gone, what was referenced on the way is given back.            *)
RefFoundIn(t) ==
  LET c == call[t]
      h == c.hit.found_in
  IN /\ At(t, "ref_found_in")
     /\ IF IsOpen(h)
        THEN Take(<<h>>) /\ call' = [call EXCEPT ![t].found_in = h, ![t].at = "write"]
        ELSE GiveBack(<<c.found>>) /\ GiveUp(t)
     /\ UNCHANGED <<open, blocks, changes, table>>

(* The out-pointers are written; a reference taken for the block record    *)
(* alone is given back.                                                    *)
Write(t) ==
  LET c == call[t]
      lent == "archive" \notin c.outs
  IN /\ At(t, "write")
     /\ GiveBack(IF lent THEN <<c.found>> ELSE <<>>)
     /\ Return(t, IF lent THEN None ELSE c.found, c.found_in)
     /\ UNCHANGED <<open, blocks, changes, table>>

(* The original: it references the archives it writes to the out-pointers. *)
Delegate(t) ==
  LET c == call[t]
      owner == Owner(c.key)
      answers == FoundFor(c.key)
      found == IF "archive" \in c.outs THEN answers ELSE None
      found_in == IF "found_in" \in c.outs THEN owner ELSE None
  IN /\ At(t, "delegate")
     /\ Take(<<found, found_in>>)
     /\ call' = [call EXCEPT ![t] = [c EXCEPT !.at = "record", !.found = found,
                   !.found_in = found_in, !.ret = IF owner = None THEN 0 ELSE 1,
                   !.hit = IF owner = None THEN NoHit
                           ELSE [negative |-> FALSE, found |-> found, found_in |-> found_in,
                                 block |-> IF "block" \in c.outs
                                           THEN blocks[answers][c.key.name] ELSE 0,
                                 known |-> c.outs,
                                 block_of |-> IF "block" \in c.outs THEN answers ELSE None,
                                 straddled |-> FALSE]]]
     /\ UNCHANGED <<open, blocks, changes, table>>

(* storm_record_result: positives, and negatives of a global lookup; a     *)
(* block record can only be kept with the archive it is in.                *)
Record(t) ==
  LET c == call[t] IN
  /\ At(t, "record")
  /\ IF \/ c.ret = 0 /\ c.key.archive = None
        \/ c.ret = 1 /\ ("block" \in c.outs => "archive" \in c.outs)
     THEN Insert(c.key, [c.hit EXCEPT !.straddled = c.straddled])
     ELSE UNCHANGED table
  /\ Return(t, c.found, c.found_in)
  /\ UNCHANGED stormVars

(* The caller is done with the archives it was given.                      *)
CallerDone(t) ==
  /\ At(t, "returned")
  /\ GiveBack(<<call[t].found, call[t].found_in>>)
  /\ call' = [call EXCEPT ![t] = Idle]
  /\ UNCHANGED <<open, blocks, changes, table>>

-----------------------------------------------------------------------------
(* A mount or an unmount                                                   *)

(* The list changes under a lookup whose answer is not recorded yet.       *)
ListChanges(t) ==
  /\ t \in Mounters /\ At(t, "idle") /\ changes < MaxChanges
  /\ changes' = changes + 1

Straddling == [u \in Threads |-> IF At(u, "record") THEN [call[u] EXCEPT !.straddled = TRUE]
                                 ELSE call[u]]

(* SFileOpenArchive: the original puts an archive on the list, where its   *)
(* priority belongs.                                                       *)
Mount(t, h, content, i) ==
  /\ ListChanges(t)
  /\ ~IsOpen(h) /\ refs[h] = 0
  /\ open' = InsertAt(open, i, h)
  /\ blocks' = [blocks EXCEPT ![h] = content]
  /\ call' = [Straddling EXCEPT ![t].at = "flush"]
  /\ UNCHANGED <<refs, table>>

MountFails(t) ==
  /\ t \in Mounters /\ At(t, "idle")
  /\ Goto(t, "flush")
  /\ UNCHANGED <<stormVars, table>>

UnmountUnflushed(t, h) ==
  /\ ListChanges(t)
  /\ IsOpen(h)
  /\ open' = Remove(open, h)
  /\ call' = Straddling
  /\ UNCHANGED <<blocks, refs, table>>

(* SFileCloseArchive takes it off; whoever has a reference keeps it alive. *)
Unmount(t, h) ==
  /\ ListChanges(t)
  /\ IsOpen(h)
  /\ open' = Remove(open, h)
  /\ call' = [Straddling EXCEPT ![t].at = "flush"]
  /\ UNCHANGED <<blocks, refs, table>>

(* storm_filecache_flush, once the original has returned.                  *)
Flush(t) ==
  /\ At(t, "flush")
  /\ table' = [b \in Buckets |-> EmptyBucket]
  /\ Goto(t, "idle")
  /\ UNCHANGED stormVars

Lookup(t) ==
  \/ \E k \in Keys, outs \in Shapes : Probe(t, k, outs)
  \/ RefFound(t) \/ ReadBlock(t) \/ RefFoundIn(t) \/ Write(t)
  \/ Delegate(t) \/ Record(t) \/ CallerDone(t)

Change(t) ==
  \/ \E h \in Handles, content \in BlockTables, i \in 1 .. Len(open) + 1 :
       Mount(t, h, content, i)
  \/ MountFails(t)
  \/ \E h \in Handles : Unmount(t, h)
  \/ Flush(t)

Next == \E t \in Threads : Lookup(t) \/ Change(t)

Spec == Init /\ [][Next]_vars

-----------------------------------------------------------------------------
(* Properties                                                              *)

(* What a record says is what stock would answer.                          *)
Agrees(k, hit) ==
  IF hit.negative THEN Owner(k) = None
  ELSE /\ Owner(k) # None
       /\ "archive" \in hit.known => hit.found = FoundFor(k)
       /\ "found_in" \in hit.known => hit.found_in = Owner(k)
       /\ "block" \in hit.known => hit.block = blocks[FoundFor(k)][k.name]

(* "A hit must replay exactly what stock returned for the identical query" *)
(* and "a hit cannot outlive its archive": when no flush is to come, every *)
(* record is the answer stock would give now, whatever was merged into it  *)
(* and whatever lookups and list changes overlapped.  The one exception is *)
(* the lookup that asked before a change and recorded after its flush.     *)
RecordsCurrent ==
  (\A t \in Threads : ~At(t, "flush")) =>
    \A b \in Buckets, w \in Ways :
      LET entry == table[b].ways[w] IN
      entry.used => entry.hit.straddled \/ Agrees(entry.key, entry.hit)

(* "The block index is relative to the found archive's table": a record    *)
(* never has a block index beside the handle of another archive, whatever  *)
(* calls its fields came from and whatever changed between them, also when *)
(* one of them straddled a change - it would be replayed against the wrong *)
(* block table.                                                            *)
BlockInItsArchive ==
  \A b \in Buckets, w \in Ways :
    LET entry == table[b].ways[w] IN
    entry.used /\ "block" \in entry.hit.known =>
      "archive" \in entry.hit.known /\ entry.hit.block_of = entry.hit.found

(* Every reference to an archive is one a caller was given or a replay     *)
(* still holds: none leaks when a replay is given up half way because an   *)
(* archive was unmounted between its steps ("refcounts follow the stock    *)
(* epilogue exactly").                                                     *)
RefsAccounted ==
  \A h \in Handles :
    refs[h] = Cardinality({t \in Threads : call[t].found = h})
              + Cardinality({t \in Threads : call[t].found_in = h})
=============================================================================
