-------------------------- MODULE PortraitsProofs --------------------------
(***************************************************************************)
(* The safety of the portrait cache, for any units, keys, textures and     *)
(* frames.                                                                 *)
(*                                                                         *)
(* The argument: a texture's slot holds a target only while the texture is *)
(* registered (Targets), and the release goes over every registered one.   *)
(* A frame that shows a target is among the sources of its texture, so the *)
(* release defers its unit (ShownRight); what makes that inductive is that *)
(* one key has one handle (HandlesRight, EntriesRight), and that a portrait*)
(* of the client's own is only rendered over if it is a player's.          *)
(***************************************************************************)
EXTENDS Portraits, TLAPS

-----------------------------------------------------------------------------
(* The inductive invariant                                                 *)

RecordTypes == [handle : Textures \cup {None}, dirty : BOOLEAN]

TextureTypes ==
  [gpu : BOOLEAN, slot : {"none", "placeholder", "target", "pixels"}, resolved : BOOLEAN]

EntryTypes == [key : Keys, fresh : BOOLEAN, sources : SUBSET Guids]

RenderTypes == [frame : Frames, guid : Guids]

PortraitTypes ==
  /\ record \in [Keys -> RecordTypes \cup {None}]
  /\ texture \in [Textures -> TextureTypes \cup {None}]
  /\ entries \in [Textures -> EntryTypes \cup {None}]
  /\ deferred \subseteq Guids /\ asking \subseteq Frames /\ blind \subseteq Frames
  /\ device \in {"up", "released"} /\ resources \in {"none", "mask", "depth"}
  /\ unit \in [Frames -> Guids \cup {None}]
  /\ shown \in [Frames -> Textures \cup {None}]
  /\ rendering \in RenderTypes \cup {None}

(* A handle has its texture, and one key; only a player's record is dirty. *)
HandlesRight ==
  /\ \A k \in Keys : handle(k) # None => texture[handle(k)] # None
  /\ \A k, j \in Keys : handle(k) # None /\ handle(k) = handle(j) => k = j
  /\ \A k \in Keys : dirty(k) => k \in Players

(* An entry is of the texture its key has, which shows what was rendered   *)
(* while the entry is fresh.                                               *)
EntriesRight ==
  \A t \in Textures : entries[t] # None =>
    /\ texture[t] # None /\ texture[t].gpu
    /\ handle(entries[t].key) = t
    /\ entries[t].fresh => texture[t].slot = "target"

Targets ==
  \A t \in Textures : texture[t] # None =>
    /\ texture[t].slot = "target" => entries[t] # None
    /\ ~texture[t].gpu => texture[t].resolved

(* While a portrait is rendered the device is up, the frame still wants it *)
(* or has its unit deferred, and one of the client's own is a player's.    *)
RenderingRight ==
  rendering # None =>
    LET k == KeyOf[rendering.guid] IN
    /\ device = "up"
    /\ unit[rendering.frame] = rendering.guid \/ unit[rendering.frame] \in deferred
    /\ handle(k) # None /\ ~texture[handle(k)].gpu => k \in Players

Refreshed(f) ==
  \/ unit[f] \in deferred
  \/ f \in asking
  \/ rendering # None /\ rendering.frame = f
  \/ f \in blind

(* A frame shows a target that knows its unit, its unit's portrait as the  *)
(* client made it, or it is asked for again.                               *)
Explained(f, t) ==
  /\ texture[t] # None
  /\ \/ Refreshed(f)
     \/ texture[t].gpu /\ texture[t].slot = "target" /\ unit[f] \in entries[t].sources
     \/ ~texture[t].gpu /\ unit[f] \in Guids /\ handle(KeyOf[unit[f]]) = t

ShownRight == \A f \in Frames : shown[f] # None => Explained(f, shown[f])

ReleasedRight ==
  device = "released" =>
    /\ rendering = None /\ resources # "depth"
    /\ \A t \in Textures : texture[t] # None => texture[t].slot # "target"

PortraitInv ==
  /\ PortraitTypes /\ HandlesRight /\ EntriesRight /\ Targets
  /\ RenderingRight /\ ShownRight /\ ReleasedRight

-----------------------------------------------------------------------------
(* No handle, record, texture, entry or render is None.                    *)
LEMMA NoneIsOther ==
  /\ None \notin Textures /\ None \notin RecordTypes /\ None \notin TextureTypes
  /\ None \notin EntryTypes /\ None \notin RenderTypes
  <1>1. DOMAIN None = {"none"} /\ "none" \notin {"handle", "gpu", "key", "frame"}
    BY DEF None
  <1>2. None \notin RecordTypes
    <2>1. \A r \in RecordTypes : "handle" \in DOMAIN r
      BY DEF RecordTypes
    <2> QED BY <1>1, <2>1
  <1>3. None \notin TextureTypes
    <2>1. \A r \in TextureTypes : "gpu" \in DOMAIN r
      BY DEF TextureTypes
    <2> QED BY <1>1, <2>1
  <1>4. None \notin EntryTypes
    <2>1. \A r \in EntryTypes : "key" \in DOMAIN r
      BY DEF EntryTypes
    <2> QED BY <1>1, <2>1
  <1>5. None \notin RenderTypes
    <2>1. \A r \in RenderTypes : "frame" \in DOMAIN r
      BY DEF RenderTypes
    <2> QED BY <1>1, <2>1
  <1> QED BY <1>2, <1>3, <1>4, <1>5, PortraitsAssumption

(* A handle is a texture, and a record's handle is that of its key.        *)
LEMMA HandlesAre ==
  ASSUME PortraitTypes
  PROVE  /\ \A k \in Keys : handle(k) \in Textures \cup {None}
         /\ \A k \in Keys : dirty(k) \in BOOLEAN
         /\ \A k \in Keys : record[k] # None =>
              record[k] \in RecordTypes /\ handle(k) = record[k].handle /\ dirty(k) = record[k].dirty
         /\ \A k \in Keys : record[k] = None => handle(k) = None /\ dirty(k) = FALSE
         /\ \A t \in Textures : texture[t] # None => texture[t] \in TextureTypes
         /\ \A t \in Textures : entries[t] # None => entries[t] \in EntryTypes
         /\ \A t \in Textures : Registered(t) <=> entries[t] # None
         /\ rendering # None => rendering.frame \in Frames /\ rendering.guid \in Guids
         /\ \A g \in Guids : KeyOf[g] \in Keys
         /\ \A k \in Keys : /\ Resolved(k) \in Textures \cup {None}
                            /\ Resolved(k) # None => Resolved(k) = handle(k)
  <1>1. \A k \in Keys : record[k] # None => record[k] \in RecordTypes
    BY DEF PortraitTypes
  <1>2. \A k \in Keys : /\ record[k] # None => handle(k) = record[k].handle
                        /\ record[k] = None => handle(k) = None
    BY DEF handle, Cached
  <1>3. \A k \in Keys : /\ record[k] # None => dirty(k) = record[k].dirty
                        /\ record[k] = None => dirty(k) = FALSE
    <2> TAKE k \in Keys
    <2>1. CASE record[k] # None
      <3>1. record[k].dirty \in BOOLEAN
        BY <1>1, <2>1 DEF RecordTypes
      <3> QED BY <2>1, <3>1 DEF dirty, Cached
    <2>2. CASE record[k] = None
      BY <2>2 DEF dirty, Cached
    <2> QED BY <2>1, <2>2
  <1>4. \A k \in Keys : handle(k) \in Textures \cup {None} /\ dirty(k) \in BOOLEAN
    BY <1>1, <1>2, <1>3 DEF RecordTypes
  <1>5. /\ \A t \in Textures : texture[t] # None => texture[t] \in TextureTypes
        /\ \A t \in Textures : entries[t] # None => entries[t] \in EntryTypes
    BY DEF PortraitTypes
  <1>6. \A t \in Textures : Registered(t) <=> entries[t] # None
    BY NoneIsOther DEF Registered
  <1>7. rendering # None => rendering.frame \in Frames /\ rendering.guid \in Guids
    BY DEF PortraitTypes, RenderTypes
  <1>8. \A g \in Guids : KeyOf[g] \in Keys
    BY PortraitsAssumption
  <1>9. \A k \in Keys : /\ Resolved(k) \in Textures \cup {None}
                        /\ Resolved(k) # None => Resolved(k) = handle(k)
    BY <1>4 DEF Resolved
  <1> QED BY <1>1, <1>2, <1>3, <1>4, <1>5, <1>6, <1>7, <1>8, <1>9

(* The records stay, up to how they are marked.                            *)
LEMMA HandlesKept ==
  ASSUME HandlesRight, record' = record,
         \A t \in Textures : texture[t] # None => texture'[t] # None, PortraitTypes
  PROVE  HandlesRight' /\ \A k : handle(k)' = handle(k) /\ dirty(k)' = dirty(k)
  <1>1. \A k : handle(k)' = handle(k) /\ dirty(k)' = dirty(k)
    BY DEF handle, dirty, Cached
  <1>2. \A k \in Keys : handle(k) # None => handle(k) \in Textures
    BY HandlesAre
  <1> QED BY <1>1, <1>2 DEF HandlesRight

(* Entries are marked: none comes or goes, none turns fresh or loses a     *)
(* source.                                                                 *)
EntriesMarked ==
  /\ entries' \in [Textures -> EntryTypes \cup {None}]
  /\ \A t \in Textures :
       /\ entries'[t] = None <=> entries[t] = None
       /\ entries[t] # None =>
            /\ entries'[t].key = entries[t].key
            /\ entries'[t].fresh => entries[t].fresh
            /\ entries[t].sources \subseteq entries'[t].sources

LEMMA InvalidatedMarks ==
  ASSUME PortraitTypes, NEW t \in Textures \cup {None}, entries' = Invalidated(t)
  PROVE  EntriesMarked
  <1>1. CASE ~Registered(t)
    BY <1>1 DEF Invalidated, EntriesMarked, PortraitTypes
  <1>2. CASE Registered(t)
    <2> DEFINE e == [entries[t] EXCEPT !.fresh = FALSE]
    <2>1. t \in Textures /\ entries[t] \in EntryTypes
      BY <1>2, HandlesAre DEF Registered
    <2>2. e \in EntryTypes /\ e.key = entries[t].key /\ e.fresh = FALSE /\ e.sources = entries[t].sources
      BY <2>1 DEF EntryTypes
    <2>3. entries' = [entries EXCEPT ![t] = e]
      BY <1>2 DEF Invalidated
    <2> HIDE DEF e
    <2> QED BY <2>1, <2>2, <2>3, NoneIsOther DEF EntriesMarked, PortraitTypes
  <1> QED BY <1>1, <1>2

LEMMA ObservedMarks ==
  ASSUME PortraitTypes, NEW t \in Textures \cup {None}, NEW g \in Guids, entries' = Observed(t, g)
  PROVE  EntriesMarked /\ (Registered(t) => g \in entries'[t].sources)
  <1>1. CASE ~Registered(t)
    BY <1>1 DEF Observed, EntriesMarked, PortraitTypes
  <1>2. CASE Registered(t)
    <2> DEFINE e == [entries[t] EXCEPT !.sources = @ \cup {g}]
    <2>1. t \in Textures /\ entries[t] \in EntryTypes
      BY <1>2, HandlesAre DEF Registered
    <2>2. /\ e \in EntryTypes /\ e.key = entries[t].key /\ e.fresh = entries[t].fresh
          /\ e.sources = entries[t].sources \cup {g}
      BY <2>1 DEF EntryTypes
    <2>3. entries' = [entries EXCEPT ![t] = e]
      BY <1>2 DEF Observed
    <2> HIDE DEF e
    <2> QED BY <2>1, <2>2, <2>3, NoneIsOther DEF EntriesMarked, PortraitTypes
  <1> QED BY <1>1, <1>2

(* A request changes no record and no texture.                             *)
LEMMA MarkedRight ==
  ASSUME PortraitInv, UNCHANGED <<record, texture>>, EntriesMarked
  PROVE  HandlesRight' /\ EntriesRight' /\ Targets'
  <1>1. HandlesRight' /\ \A k : handle(k)' = handle(k)
    BY HandlesKept DEF PortraitInv
  <1>2. EntriesRight'
    <2> SUFFICES ASSUME NEW t \in Textures, entries'[t] # None
                 PROVE  /\ texture[t] # None /\ texture[t].gpu
                        /\ handle(entries[t].key)' = t
                        /\ entries'[t].fresh => texture[t].slot = "target"
      BY DEF EntriesRight
    <2>1. /\ texture[t] # None /\ texture[t].gpu /\ handle(entries[t].key) = t
          /\ entries[t].fresh => texture[t].slot = "target"
      BY DEF PortraitInv, EntriesRight, EntriesMarked
    <2>2. entries'[t].key = entries[t].key /\ (entries'[t].fresh => entries[t].fresh)
      BY DEF EntriesMarked
    <2>3. handle(entries[t].key)' = handle(entries[t].key)
      BY <2>2 DEF handle, Cached
    <2> QED BY <2>1, <2>2, <2>3
  <1>3. Targets'
    BY DEF PortraitInv, Targets, EntriesMarked
  <1> QED BY <1>1, <1>2, <1>3

(* What another frame shows.                                               *)
LEMMA ExplainedStill ==
  ASSUME PortraitInv, NEW f \in Frames, shown[f] # None, shown'[f] = shown[f], unit'[f] = unit[f],
         UNCHANGED <<record, texture>>, EntriesMarked, Refreshed(f) => Refreshed(f)'
  PROVE  Explained(f, shown[f])'
  <1>1. Explained(f, shown[f]) /\ shown[f] \in Textures
    BY DEF PortraitInv, ShownRight, PortraitTypes
  <1>2. \A k : handle(k)' = handle(k)
    BY HandlesKept DEF PortraitInv
  <1>3. texture[shown[f]] # None /\ (texture[shown[f]].slot = "target" => entries[shown[f]] # None)
    BY <1>1 DEF PortraitInv, Targets, Explained
  <1>4. CASE Refreshed(f)
    BY <1>3, <1>4 DEF Explained
  <1>5. CASE texture[shown[f]].gpu /\ texture[shown[f]].slot = "target"
             /\ unit[f] \in entries[shown[f]].sources
    BY <1>1, <1>3, <1>5 DEF Explained, EntriesMarked
  <1>6. CASE ~texture[shown[f]].gpu /\ unit[f] \in Guids /\ handle(KeyOf[unit[f]]) = shown[f]
    <2>1. handle(KeyOf[unit[f]])' = shown'[f]
      BY <1>2, <1>6
    <2> QED BY <1>3, <1>6, <2>1 DEF Explained
  <1> QED BY <1>1, <1>4, <1>5, <1>6 DEF Explained

(* A request: what is shown in the frame that asks is all that needs an    *)
(* explanation.                                                            *)
LEMMA AskRight ==
  ASSUME PortraitInv, NEW f \in Frames, NEW g \in Guids, Asks(f, g),
         UNCHANGED <<record, texture, device>>, EntriesMarked,
         deferred' \in {deferred, deferred \cup {g}},
         \A h \in Frames \ {f} : shown'[h] = shown[h],
         \/ UNCHANGED <<resources, rendering>>
         \/ device = "up" /\ resources' \in {"depth", resources} /\ rendering = None
            /\ rendering' = [frame |-> f, guid |-> g] /\ ~Reusable(KeyOf[g]),
         rendering = None \/ deferred' = deferred \cup {g},
         shown' \in [Frames -> Textures \cup {None}],
         blind' \subseteq Frames, \A h \in blind \ {f} : h \in blind',
         shown'[f] # None => Explained(f, shown[f])'
  PROVE  PortraitInv'
  <1>1. PortraitTypes /\ unit[f] \in Guids \cup {None}
    BY DEF PortraitInv, PortraitTypes
  <1>2. /\ unit' = [unit EXCEPT ![f] = g] /\ asking' = asking \ {f}
        /\ unit'[f] = g /\ \A h \in Frames \ {f} : unit'[h] = unit[h]
    BY <1>1 DEF Asks, PortraitTypes
  <1>3. PortraitTypes'
    <2>1. entries' \in [Textures -> EntryTypes \cup {None}]
      BY DEF EntriesMarked
    <2>2. deferred' \subseteq Guids /\ unit' \in [Frames -> Guids \cup {None}] /\ asking' \subseteq Frames
      BY <1>1, <1>2 DEF PortraitTypes
    <2>3. rendering' \in RenderTypes \cup {None} /\ resources' \in {"none", "mask", "depth"}
      BY <1>1 DEF PortraitTypes, RenderTypes
    <2> QED BY <1>1, <2>1, <2>2, <2>3 DEF PortraitTypes
  <1>4. HandlesRight' /\ EntriesRight' /\ Targets'
    BY MarkedRight
  <1>5. \A k : handle(k)' = handle(k) /\ dirty(k)' = dirty(k)
    BY HandlesKept DEF PortraitInv
  <1>6. RenderingRight'
    <2>1. CASE UNCHANGED <<resources, rendering>>
      <3> SUFFICES ASSUME rendering # None PROVE RenderingRight'
        BY <2>1 DEF RenderingRight
      <3> DEFINE k == KeyOf[rendering.guid]
      <3>1. /\ device = "up"
            /\ unit[rendering.frame] = rendering.guid \/ unit[rendering.frame] \in deferred
            /\ handle(k) # None /\ ~texture[handle(k)].gpu => k \in Players
            /\ rendering.frame \in Frames
        BY <1>1, HandlesAre DEF PortraitInv, RenderingRight
      <3>2. unit'[rendering.frame] = rendering.guid \/ unit'[rendering.frame] \in deferred'
        BY <1>2, <3>1
      <3>3. k' = k /\ handle(k)' = handle(k)
        BY <2>1, <1>5
      <3> QED BY <2>1, <3>1, <3>2, <3>3 DEF RenderingRight
    <2>2. CASE device = "up" /\ rendering' = [frame |-> f, guid |-> g] /\ ~Reusable(KeyOf[g])
      <3> DEFINE k == KeyOf[g]
      <3>1. k \in Keys
        BY PortraitsAssumption
      <3>2. ASSUME handle(k) # None, ~texture[handle(k)].gpu
            PROVE  k \in Players
        <4>1. handle(k) \in Textures /\ texture[handle(k)] # None
          BY <1>1, <3>1, <3>2, HandlesAre DEF PortraitInv, HandlesRight
        <4>2. texture[handle(k)].resolved
          BY <3>2, <4>1 DEF PortraitInv, Targets
        <4>3. Resolved(k) = handle(k) /\ ~gpu(handle(k))
          BY <3>2, <4>1, <4>2 DEF Resolved, gpu
        <4>4. ~Registered(handle(k))
          BY <1>1, <3>2, <4>1, HandlesAre DEF PortraitInv, EntriesRight
        <4>5. dirty(k)
          BY <2>2, <3>2, <4>3, <4>4 DEF Reusable
        <4> QED BY <3>1, <4>5 DEF PortraitInv, HandlesRight
      <3>3. handle(k)' = handle(k)
        BY <1>5
      <3>4. rendering'.guid = g /\ rendering'.frame = f
        BY <2>2
      <3> QED BY <1>2, <2>2, <3>2, <3>3, <3>4 DEF RenderingRight
    <2> QED BY <2>1, <2>2
  <1>7. ShownRight'
    <2> SUFFICES ASSUME NEW h \in Frames, shown'[h] # None
                 PROVE  Explained(h, shown[h])'
      BY DEF ShownRight
    <2>1. CASE h = f
      BY <2>1
    <2>2. CASE h # f
      <3>1. shown'[h] = shown[h] /\ unit'[h] = unit[h] /\ shown[h] # None
        BY <1>2, <2>2
      <3>2. Refreshed(h) => Refreshed(h)'
        BY <1>2, <2>2 DEF Refreshed
      <3> QED BY <3>1, <3>2, ExplainedStill
    <2> QED BY <2>1, <2>2
  <1>8. ReleasedRight'
    BY DEF PortraitInv, ReleasedRight
  <1> QED BY <1>3, <1>4, <1>6, <1>7, <1>8 DEF PortraitInv

LEMMA AskStep ==
  ASSUME PortraitInv, NEW f \in Frames, NEW g \in Guids, SetPortrait(f, g)
  PROVE  PortraitInv'
  <1>1. /\ PortraitTypes /\ KeyOf[g] \in Keys
        /\ Resolved(KeyOf[g]) \in Textures \cup {None}
        /\ handle(KeyOf[g]) \in Textures \cup {None}
        /\ shown \in [Frames -> Textures \cup {None}] /\ blind \subseteq Frames
        /\ unit \in [Frames -> Guids \cup {None}]
    BY HandlesAre DEF PortraitInv, PortraitTypes
  <1>2. entries' = entries => EntriesMarked
    BY <1>1 DEF EntriesMarked, PortraitTypes
  <1>3. Asks(f, g) => unit'[f] = g
    BY <1>1 DEF Asks
  <1>4. shown[f] # None => texture[shown[f]] # None
    BY DEF PortraitInv, ShownRight, Explained
  <1>5. CASE AskWithin(f, g)
    <2>1. Asks(f, g) /\ Defer(g) /\ rendering # None
          /\ UNCHANGED <<record, texture, entries, device, resources, shown, blind, rendering>>
      BY <1>5 DEF AskWithin
    <2>2. shown'[f] # None => Explained(f, shown[f])'
      BY <1>3, <1>4, <2>1 DEF Explained, Refreshed, Defer
    <2> QED BY <1>1, <1>2, <2>1, <2>2, AskRight DEF Defer
  <1>6. CASE AskPending(f, g)
    <2>1. Asks(f, g) /\ g \in deferred /\ rendering = None
          /\ UNCHANGED <<record, texture, entries, deferred, device, resources, shown, blind, rendering>>
      BY <1>6 DEF AskPending
    <2>2. shown'[f] # None => Explained(f, shown[f])'
      BY <1>3, <1>4, <2>1 DEF Explained, Refreshed
    <2> QED BY <1>1, <1>2, <2>1, <2>2, AskRight
  <1>7. ASSUME MustRender(f, g)
        PROVE  EntriesMarked /\ Asks(f, g) /\ rendering = None /\ ~Reusable(KeyOf[g])
    <2>1. /\ entries' = IF dirty(KeyOf[g]) THEN Invalidated(Resolved(KeyOf[g])) ELSE entries
          /\ Asks(f, g) /\ rendering = None /\ ~Reusable(KeyOf[g])
      BY <1>7 DEF MustRender
    <2>2. entries' = entries \/ entries' = Invalidated(Resolved(KeyOf[g]))
      BY <2>1
    <2> QED BY <1>1, <1>2, <2>1, <2>2, InvalidatedMarks
  <1>8. CASE AskNotReady(f, g)
    <2>1. /\ EntriesMarked /\ Asks(f, g) /\ rendering = None /\ Defer(g)
          /\ UNCHANGED <<record, texture, device, resources, shown, blind, rendering>>
      BY <1>7, <1>8 DEF AskNotReady
    <2>2. shown'[f] # None => Explained(f, shown[f])'
      BY <1>3, <1>4, <2>1 DEF Explained, Refreshed, Defer
    <2> QED BY <1>1, <2>1, <2>2, AskRight DEF Defer
  <1>9. CASE AskNoCamera(f, g)
    <2>1. /\ EntriesMarked /\ Asks(f, g) /\ rendering = None /\ Show(f, None)
          /\ UNCHANGED <<record, texture, deferred, device, resources, rendering>>
      BY <1>7, <1>9 DEF AskNoCamera
    <2>2. /\ shown'[f] = None /\ shown' \in [Frames -> Textures \cup {None}]
          /\ \A h \in Frames \ {f} : shown'[h] = shown[h]
          /\ blind' = blind \ {f}
      BY <1>1, <2>1 DEF Show
    <2> QED BY <1>1, <2>1, <2>2, AskRight
  <1>10. CASE AskRender(f, g)
    <2>1. /\ EntriesMarked /\ Asks(f, g) /\ rendering = None /\ device = "up" /\ ~Reusable(KeyOf[g])
          /\ rendering' = [frame |-> f, guid |-> g] /\ resources' \in {"depth", resources}
          /\ UNCHANGED <<record, texture, deferred, device, shown, blind>>
      BY <1>7, <1>10 DEF AskRender
    <2>2. shown'[f] # None => Explained(f, shown[f])'
      <3>1. rendering' # None
        <4>1. rendering' \in RenderTypes
          BY <2>1 DEF RenderTypes
        <4> QED BY <4>1, NoneIsOther
      <3>2. rendering'.frame = f
        BY <2>1
      <3> QED BY <1>4, <2>1, <3>1, <3>2 DEF Explained, Refreshed
    <2> QED BY <1>1, <2>1, <2>2, AskRight
  <1>11. CASE AskHit(f, g)
    <2> DEFINE k == KeyOf[g]
               t == Resolved(k)
    <2>1. /\ rendering = None /\ Asks(f, g) /\ Reusable(k)
          /\ entries' = Observed(t, g) /\ ShowCached(f, k)
          /\ UNCHANGED <<record, texture, deferred, device, resources, rendering>>
      BY <1>11 DEF AskHit
    <2>2. EntriesMarked /\ (Registered(t) => g \in entries'[t].sources)
      BY <1>1, <2>1, ObservedMarks
    <2>3. /\ shown'[f] = handle(k) /\ shown' \in [Frames -> Textures \cup {None}]
          /\ \A h \in Frames \ {f} : shown'[h] = shown[h]
          /\ blind' = IF t = None THEN blind \cup {f} ELSE blind \ {f}
      BY <1>1, <2>1 DEF ShowCached
    <2>4. handle(k) # None /\ texture[handle(k)] # None /\ handle(k) \in Textures
      BY <1>1, <2>1 DEF Reusable, PortraitInv, HandlesRight
    <2>5. Explained(f, shown[f])'
      <3>1. CASE t = None
        BY <2>1, <2>3, <2>4, <3>1 DEF Explained, Refreshed
      <3>2. CASE t # None /\ Registered(t)
        <4>1. t = handle(k) /\ entries[t] # None /\ valid(t, k)
          BY <1>1, <2>1, <3>2, HandlesAre DEF Reusable
        <4>2. texture[t].gpu /\ texture[t].slot = "target"
          BY <2>4, <4>1 DEF PortraitInv, EntriesRight, valid
        <4> QED BY <1>3, <2>1, <2>2, <2>3, <2>4, <3>2, <4>1, <4>2 DEF Explained
      <3>3. CASE t # None /\ ~Registered(t)
        <4>1. t = handle(k) /\ ~gpu(t)
          BY <1>1, <2>1, <3>3, HandlesAre DEF Reusable, valid
        <4>2. ~texture[t].gpu
          BY <3>3, <4>1 DEF gpu
        <4>3. handle(KeyOf[unit[f]])' = handle(k)
          BY <1>3, <2>1 DEF handle, Cached
        <4> QED BY <1>3, <2>1, <2>3, <2>4, <4>1, <4>2, <4>3 DEF Explained
      <3> QED BY <3>1, <3>2, <3>3
    <2>6. blind' \subseteq Frames /\ \A h \in blind \ {f} : h \in blind'
      BY <1>1, <2>3
    <2> HIDE DEF t
    <2> QED BY <1>1, <2>1, <2>2, <2>3, <2>5, <2>6, AskRight
  <1>12. CASE AskOriginal(f, g)
    <2>1. /\ Asks(f, g) /\ device = "released" /\ rendering = None
          /\ UNCHANGED <<record, texture, entries, device, resources, rendering>>
      BY <1>12 DEF AskOriginal, PortraitInv, ReleasedRight
    <2>2. CASE Defer(g) /\ UNCHANGED <<shown, blind>>
      <3>1. shown'[f] # None => Explained(f, shown[f])'
        BY <1>3, <1>4, <2>1, <2>2 DEF Explained, Refreshed, Defer
      <3> QED BY <1>1, <1>2, <2>1, <2>2, <3>1, AskRight DEF Defer
    <2>3. CASE /\ \E t \in {None, handle(KeyOf[g])} : shown' = [shown EXCEPT ![f] = t]
               /\ blind' = blind \cup {f} /\ UNCHANGED deferred
      <3>1. PICK t \in {None, handle(KeyOf[g])} : shown' = [shown EXCEPT ![f] = t]
        BY <2>3
      <3>2. /\ shown'[f] = t /\ shown' \in [Frames -> Textures \cup {None}]
            /\ \A h \in Frames \ {f} : shown'[h] = shown[h]
        BY <1>1, <3>1
      <3>3. t # None => texture[t] # None
        BY <1>1 DEF PortraitInv, HandlesRight
      <3>4. shown'[f] # None => Explained(f, shown[f])'
        BY <2>1, <2>3, <3>2, <3>3 DEF Explained, Refreshed
      <3> QED BY <1>1, <1>2, <2>1, <2>3, <3>2, <3>4, AskRight
    <2> QED BY <1>12, <2>2, <2>3 DEF AskOriginal
  <1> QED BY <1>5, <1>6, <1>8, <1>9, <1>10, <1>11, <1>12 DEF SetPortrait

(* What a frame still shows is still explained.                            *)
LEMMA ExplainedOn ==
  ASSUME NEW f \in Frames, NEW t, Explained(f, t), shown'[f] = t, unit'[f] = unit[f],
         texture'[t] # None,
         Refreshed(f) => Refreshed(f)',
         texture[t].gpu /\ texture[t].slot = "target" /\ unit[f] \in entries[t].sources =>
           \/ Refreshed(f)'
           \/ texture'[t].gpu /\ texture'[t].slot = "target" /\ unit[f] \in entries'[t].sources,
         ~texture[t].gpu /\ unit[f] \in Guids /\ handle(KeyOf[unit[f]]) = t =>
           \/ Refreshed(f)'
           \/ texture'[t].gpu /\ texture'[t].slot = "target" /\ unit[f] \in entries'[t].sources
           \/ ~texture'[t].gpu /\ \E k : k = KeyOf[unit[f]] /\ handle(k)' = t
  PROVE  Explained(f, shown[f])'
  <1>1. CASE Refreshed(f)'
    BY <1>1 DEF Explained
  <1>2. CASE texture'[t].gpu /\ texture'[t].slot = "target" /\ unit[f] \in entries'[t].sources
    BY <1>2 DEF Explained
  <1>3. ASSUME ~texture'[t].gpu, NEW k, k = KeyOf[unit[f]], handle(k)' = t, unit[f] \in Guids
        PROVE  Explained(f, shown[f])'
    <2>1. handle(KeyOf[unit[f]])' = t
      BY <1>3 DEF handle, Cached
    <2> QED BY <1>3, <2>1 DEF Explained
  <1> QED BY <1>1, <1>2, <1>3 DEF Explained

(* A key is given the handle its target goes to.                           *)
LEMMA HandleGiven ==
  ASSUME PortraitTypes, HandlesRight, NEW k \in Keys, NEW t \in Textures, TargetHandle(k, t),
         NEW d \in BOOLEAN, d => k \in Players,
         record' = [record EXCEPT ![k] = [handle |-> t, dirty |-> d]],
         \A s \in Textures : texture[s] # None => texture'[s] # None, texture'[t] # None
  PROVE  /\ record' \in [Keys -> RecordTypes \cup {None}] /\ HandlesRight'
         /\ handle(k)' = t
         /\ \A j \in Keys : handle(j) # None => handle(j)' = handle(j)
         /\ texture[t] # None => handle(k) = t
  <1> DEFINE r == [handle |-> t, dirty |-> d]
  <1>1. r \in RecordTypes /\ r # None /\ r.handle = t /\ r.dirty = d
    <2>1. r \in RecordTypes /\ r.handle = t /\ r.dirty = d
      BY DEF RecordTypes
    <2> QED BY <2>1, NoneIsOther
  <1>2. record' = [record EXCEPT ![k] = r] /\ record \in [Keys -> RecordTypes \cup {None}]
    BY DEF PortraitTypes
  <1> HIDE DEF r
  <1>3. record'[k] = r /\ \A j \in Keys \ {k} : record'[j] = record[j]
    BY <1>2
  <1>4. handle(k)' = t /\ dirty(k)' = d
    BY <1>1, <1>3 DEF handle, dirty, Cached
  <1>5. \A j \in Keys \ {k} : handle(j)' = handle(j) /\ dirty(j)' = dirty(j)
    BY <1>3 DEF handle, dirty, Cached
  <1>6. handle(k) # None => handle(k) = t
    BY DEF TargetHandle
  <1>7. texture[t] # None => handle(k) = t
    BY <1>6 DEF TargetHandle
  <1>8. \A j \in Keys : handle(j) # None => handle(j)' = handle(j)
    BY <1>4, <1>5, <1>6
  <1>9. HandlesRight'
    <2>1. \A j \in Keys : handle(j)' # None => texture'[handle(j)'] # None
      <3> SUFFICES ASSUME NEW j \in Keys, handle(j)' # None PROVE texture'[handle(j)'] # None
        OBVIOUS
      <3>1. CASE j = k
        BY <1>4, <3>1
      <3>2. CASE j # k
        <4>1. handle(j)' = handle(j) /\ handle(j) \in Textures /\ texture[handle(j)] # None
          BY <1>5, <3>2, HandlesAre DEF HandlesRight
        <4> QED BY <4>1
      <3> QED BY <3>1, <3>2
    <2>2. ASSUME NEW j \in Keys, j # k, handle(j)' = t
          PROVE  FALSE
      <3>1. handle(j) = t /\ t # None
        BY <1>5, <2>2, NoneIsOther
      <3>2. texture[t] # None
        BY <3>1 DEF HandlesRight
      <3> QED BY <1>7, <2>2, <3>1, <3>2 DEF HandlesRight
    <2>3. \A i, j \in Keys : handle(i)' # None /\ handle(i)' = handle(j)' => i = j
      <3> SUFFICES ASSUME NEW i \in Keys, NEW j \in Keys, handle(i)' # None, handle(i)' = handle(j)'
                   PROVE  i = j
        OBVIOUS
      <3>1. CASE i = k \/ j = k
        BY <1>4, <2>2, <3>1
      <3>2. CASE i # k /\ j # k
        BY <1>5, <3>2 DEF HandlesRight
      <3> QED BY <3>1, <3>2
    <2>4. \A j \in Keys : dirty(j)' => j \in Players
      BY <1>4, <1>5 DEF HandlesRight
    <2> QED BY <2>1, <2>3, <2>4 DEF HandlesRight
  <1>10. record' \in [Keys -> RecordTypes \cup {None}]
    BY <1>1, <1>2
  <1> QED BY <1>4, <1>7, <1>8, <1>9, <1>10

(* While the handles stay, what they are of does.                          *)
LEMMA EntriesStay ==
  ASSUME PortraitInv, \A j \in Keys : handle(j) # None => handle(j)' = handle(j),
         NEW t \in Textures, entries[t] # None, entries'[t] = entries[t], texture'[t] = texture[t]
  PROVE  /\ texture'[t] # None /\ texture'[t].gpu
         /\ handle(entries[t].key)' = t
         /\ entries'[t].fresh => texture'[t].slot = "target"
  <1>1. /\ texture[t] # None /\ texture[t].gpu /\ handle(entries[t].key) = t
        /\ entries[t].fresh => texture[t].slot = "target"
        /\ entries[t].key \in Keys /\ t # None
    BY HandlesAre, NoneIsOther DEF PortraitInv, EntriesRight, EntryTypes
  <1>2. ASSUME NEW k \in Keys, k = entries[t].key
        PROVE  handle(entries[t].key)' = t
    <2>1. handle(k)' = t
      BY <1>1, <1>2
    <2> QED BY <1>2, <2>1 DEF handle, Cached
  <1> QED BY <1>1, <1>2

(* A render fails: its unit is deferred.                                   *)
LEMMA FailedShown ==
  ASSUME PortraitInv, rendering # None, NEW t \in Textures \cup {None},
         NEW f \in Frames, NEW g \in Guids, f = rendering.frame, g = rendering.guid,
         Failed(f, g, t), t # None => texture'[t] # None,
         \A s \in Textures : texture[s] # None => texture'[s] = texture[s],
         \A j \in Keys : handle(j) # None => handle(j)' = handle(j)
  PROVE  ShownRight'
  <1>1. /\ PortraitTypes
        /\ unit[f] = g \/ unit[f] \in deferred
    BY DEF PortraitInv, RenderingRight
  <1>2. /\ UNCHANGED <<entries, unit, asking>> /\ deferred' = deferred \cup {g}
        /\ \A h \in Frames \ {f} : shown'[h] = shown[h]
        /\ shown'[f] \in {t, shown[f]} /\ (t = None => shown'[f] = shown[f])
        /\ \A h \in blind \ {f} : h \in blind'
    <2>1. CASE t = None
      BY <2>1 DEF Failed, Defer
    <2>2. CASE t # None
      BY <1>1, <2>2 DEF Failed, Defer, Show, PortraitTypes
    <2> QED BY <2>1, <2>2
  <1> SUFFICES ASSUME NEW h \in Frames, shown'[h] # None
               PROVE  Explained(h, shown[h])'
    BY DEF ShownRight
  <1>3. shown[h] # None => Explained(h, shown[h]) /\ shown[h] \in Textures /\ texture[shown[h]] # None
    BY <1>1 DEF PortraitInv, ShownRight, PortraitTypes, Explained
  <1>4. CASE h = f
    <2>1. texture'[shown'[f]] # None
      BY <1>2, <1>3, <1>4
    <2>2. unit'[f] \in deferred'
      BY <1>1, <1>2
    <2> QED BY <1>4, <2>1, <2>2 DEF Explained, Refreshed
  <1>5. CASE h # f
    <2>1. shown'[h] = shown[h] /\ unit'[h] = unit[h] /\ texture'[shown[h]] = texture[shown[h]]
      BY <1>2, <1>3, <1>5
    <2>2. Refreshed(h) => Refreshed(h)'
      BY <1>2, <1>5 DEF Refreshed
    <2>3. ASSUME unit[h] \in Guids, handle(KeyOf[unit[h]]) = shown[h]
          PROVE  \E k : k = KeyOf[unit[h]] /\ handle(k)' = shown[h]
      <3>1. KeyOf[unit[h]] \in Keys
        BY <2>3, PortraitsAssumption
      <3>2. PICK k \in Keys : k = KeyOf[unit[h]]
        BY <3>1
      <3>3. handle(k)' = shown[h]
        BY <1>5, <2>1, <2>3, <3>2
      <3> QED BY <3>2, <3>3
    <2> QED BY <1>2, <1>3, <2>1, <2>2, <2>3, ExplainedOn
  <1> QED BY <1>4, <1>5

LEMMA RenderFailsStep ==
  ASSUME PortraitInv, RenderFails
  PROVE  PortraitInv'
  <1>1. PICK f \in Frames, g \in Guids : f = rendering.frame /\ g = rendering.guid
    BY HandlesAre DEF PortraitInv, RenderFails
  <1> DEFINE k == KeyOf[g]
             t == handle(k)
             r == [handle |-> None, dirty |-> k \in Players]
  <1>2. /\ PortraitTypes /\ k \in Keys /\ t \in Textures \cup {None} /\ rendering # None
        /\ t # None => texture[t] # None
    BY HandlesAre DEF PortraitInv, HandlesRight, RenderFails
  <1>3. /\ record' = record \/ (record[k] = None /\ record' = [record EXCEPT ![k] = r])
        /\ Failed(f, g, t) /\ UNCHANGED texture
    BY <1>1 DEF RenderFails, Cached
  <1>4. r \in RecordTypes /\ r # None /\ r.handle = None /\ r.dirty = (k \in Players)
    <2>1. r \in RecordTypes
      BY DEF RecordTypes
    <2> QED BY <2>1, NoneIsOther
  <1> HIDE DEF r
  <1>5. /\ \A j \in Keys : handle(j)' = handle(j)
        /\ \A j \in Keys : dirty(j)' => j \in Players
        /\ record' \in [Keys -> RecordTypes \cup {None}]
    <2>1. CASE record' = record
      BY <1>2, <2>1 DEF handle, dirty, Cached, PortraitInv, HandlesRight, PortraitTypes
    <2>2. CASE record[k] = None /\ record' = [record EXCEPT ![k] = r]
      <3>1. record'[k] = r /\ \A j \in Keys \ {k} : record'[j] = record[j]
        BY <1>2, <2>2 DEF PortraitTypes
      <3>2. handle(k)' = None /\ handle(k) = None /\ dirty(k)' => k \in Players
        BY <1>4, <2>2, <3>1 DEF handle, dirty, Cached
      <3>3. \A j \in Keys \ {k} : handle(j)' = handle(j) /\ dirty(j)' = dirty(j)
        BY <3>1 DEF handle, dirty, Cached
      <3>4. handle(k)' = None /\ handle(k) = None
        BY <1>4, <2>2, <3>1 DEF handle, Cached
      <3> QED BY <1>2, <1>4, <2>2, <3>2, <3>3, <3>4 DEF PortraitInv, HandlesRight, PortraitTypes
    <2> QED BY <1>3, <2>1, <2>2
  <1>6. HandlesRight'
    BY <1>2, <1>3, <1>5 DEF PortraitInv, HandlesRight
  <1>7. /\ UNCHANGED <<entries, device, resources, unit, asking>> /\ deferred' = deferred \cup {g}
        /\ rendering' = None /\ blind' \subseteq blind
        /\ shown' \in [Frames -> Textures \cup {None}]
    BY <1>2, <1>3 DEF Failed, Show, Defer, PortraitTypes
  <1>8. PortraitTypes'
    BY <1>2, <1>3, <1>5, <1>7 DEF PortraitTypes
  <1>9. EntriesRight'
    <2> SUFFICES ASSUME NEW s \in Textures, entries'[s] # None
                 PROVE  /\ texture'[s] # None /\ texture'[s].gpu
                        /\ handle(entries[s].key)' = s
                        /\ entries'[s].fresh => texture'[s].slot = "target"
      BY DEF EntriesRight
    <2>1. entries'[s] = entries[s] /\ texture'[s] = texture[s] /\ entries[s] # None
      BY <1>3, <1>7
    <2> QED BY <1>5, <2>1, EntriesStay
  <1>10. Targets' /\ RenderingRight' /\ ReleasedRight'
    BY <1>3, <1>7 DEF PortraitInv, Targets, RenderingRight, ReleasedRight
  <1>11. ShownRight'
    <2> HIDE DEF t
    <2> QED BY <1>1, <1>2, <1>3, <1>5, FailedShown
  <1> QED BY <1>6, <1>8, <1>9, <1>10, <1>11 DEF PortraitInv

LEMMA PublishUnresolvedStep ==
  ASSUME PortraitInv, NEW t \in Textures, PublishUnresolved(t)
  PROVE  PortraitInv'
  <1>1. PICK f \in Frames, g \in Guids : f = rendering.frame /\ g = rendering.guid
    BY HandlesAre DEF PortraitInv, PublishUnresolved
  <1> DEFINE k == KeyOf[g]
             d == IF Cached(k) THEN dirty(k) ELSE k \in Players
             new == Created(FALSE)
  <1>2. /\ PortraitTypes /\ HandlesRight /\ k \in Keys /\ rendering # None
    BY HandlesAre DEF PortraitInv, PublishUnresolved
  <1>3. /\ TargetHandle(k, t) /\ record' = [record EXCEPT ![k] = [handle |-> t, dirty |-> d]]
        /\ texture' = IF texture[t] = None THEN [texture EXCEPT ![t] = new] ELSE texture
        /\ Failed(f, g, t)
    BY <1>1 DEF PublishUnresolved
  <1>4. d \in BOOLEAN /\ (d => k \in Players)
    <2>1. CASE Cached(k)
      <3>1. dirty(k) \in BOOLEAN /\ (dirty(k) => k \in Players)
        BY <1>2, HandlesAre DEF HandlesRight
      <3>2. d = dirty(k)
        BY <2>1
      <3> QED BY <3>1, <3>2
    <2>2. CASE ~Cached(k)
      <3>1. CASE k \in Players
        <4>1. d = TRUE
          BY <2>2, <3>1
        <4> QED BY <3>1, <4>1
      <3>2. CASE k \notin Players
        <4>1. d = FALSE
          BY <2>2, <3>2
        <4> QED BY <4>1
      <3> QED BY <3>1, <3>2
    <2> QED BY <2>1, <2>2
  <1>5. new \in TextureTypes /\ new # None /\ new.slot # "target" /\ new.gpu = TRUE
    <2>1. new \in TextureTypes /\ new.slot # "target" /\ new.gpu = TRUE
      BY DEF Created, TextureTypes
    <2> QED BY <2>1, NoneIsOther
  <1> HIDE DEF new, d
  <1>6. /\ texture' \in [Textures -> TextureTypes \cup {None}] /\ texture'[t] # None
        /\ \A s \in Textures : texture[s] # None => texture'[s] = texture[s]
        /\ texture[t] = None => texture'[t] = new
        /\ \A s \in Textures \ {t} : texture'[s] = texture[s]
    BY <1>2, <1>3, <1>5 DEF PortraitTypes
  <1>7. \A s \in Textures : texture[s] # None => texture'[s] # None
    BY <1>6
  <1>8. /\ record' \in [Keys -> RecordTypes \cup {None}] /\ HandlesRight'
        /\ \A j \in Keys : handle(j) # None => handle(j)' = handle(j)
    BY <1>2, <1>3, <1>4, <1>6, <1>7, HandleGiven
  <1>9. /\ UNCHANGED <<entries, device, resources, unit, asking>> /\ deferred' = deferred \cup {g}
        /\ rendering' = None /\ blind' \subseteq blind
        /\ shown' \in [Frames -> Textures \cup {None}]
    BY <1>2, <1>3 DEF Failed, Show, Defer, PortraitTypes
  <1>10. PortraitTypes'
    BY <1>2, <1>6, <1>8, <1>9 DEF PortraitTypes
  <1>11. EntriesRight'
    <2> SUFFICES ASSUME NEW s \in Textures, entries'[s] # None
                 PROVE  /\ texture'[s] # None /\ texture'[s].gpu
                        /\ handle(entries[s].key)' = s
                        /\ entries'[s].fresh => texture'[s].slot = "target"
      BY DEF EntriesRight
    <2>1. entries'[s] = entries[s] /\ entries[s] # None
      BY <1>9
    <2>2. texture'[s] = texture[s]
      BY <1>6, <2>1 DEF PortraitInv, EntriesRight
    <2> QED BY <1>8, <2>1, <2>2, EntriesStay
  <1>12. Targets' /\ RenderingRight' /\ ReleasedRight'
    <2>1. Targets'
      <3> SUFFICES ASSUME NEW s \in Textures, texture'[s] # None
                   PROVE  /\ texture'[s].slot = "target" => entries'[s] # None
                          /\ ~texture'[s].gpu => texture'[s].resolved
        BY DEF Targets
      <3>1. CASE texture[s] # None
        BY <1>6, <1>9, <3>1 DEF PortraitInv, Targets
      <3>2. CASE texture[s] = None
        <4>1. texture'[s] = new
          BY <1>6, <3>2
        <4> QED BY <1>5, <4>1
      <3> QED BY <3>1, <3>2
    <2>2. device' = device /\ device = "up" /\ rendering' = None
      BY <1>2, <1>9 DEF PortraitInv, RenderingRight
    <2> QED BY <2>1, <2>2 DEF RenderingRight, ReleasedRight
  <1>13. ShownRight'
    BY <1>1, <1>2, <1>3, <1>6, <1>8, FailedShown
  <1> QED BY <1>8, <1>10, <1>11, <1>12, <1>13 DEF PortraitInv

(* The target moves into the texture, which knows all who are shown it.    *)
LEMMA PublishStep ==
  ASSUME PortraitInv, NEW t \in Textures, Publish(t)
  PROVE  PortraitInv'
  <1>1. PICK f \in Frames, g \in Guids : f = rendering.frame /\ g = rendering.guid
    BY HandlesAre DEF PortraitInv, Publish
  <1> DEFINE k == KeyOf[g]
             new == [Created(TRUE) EXCEPT !.slot = "target"]
             kept == IF Registered(t) /\ entries[t].key = k THEN entries[t].sources ELSE {}
             e == [key |-> k, fresh |-> TRUE, sources |-> kept \cup {g}]
  <1>2. PortraitTypes /\ HandlesRight /\ k \in Keys /\ rendering # None /\ t # None
    BY HandlesAre, NoneIsOther DEF PortraitInv, Publish
  <1>3. /\ TargetHandle(k, t) /\ record' = [record EXCEPT ![k] = [handle |-> t, dirty |-> FALSE]]
        /\ texture' = [texture EXCEPT ![t] = new] /\ entries' = Published(t, k, g)
        /\ Show(f, t) /\ rendering' = None
        /\ UNCHANGED <<deferred, device, resources, unit, asking>>
    BY <1>1 DEF Publish
  <1>4. entries' = [entries EXCEPT ![t] = e]
    BY <1>3 DEF Published
  <1>5. new \in TextureTypes /\ new # None /\ new.slot = "target" /\ new.gpu = TRUE
    <2>1. new \in TextureTypes /\ new.slot = "target" /\ new.gpu = TRUE
      BY DEF Created, TextureTypes
    <2> QED BY <2>1, NoneIsOther
  <1>6. e \in EntryTypes /\ e # None /\ e.key = k /\ e.sources = kept \cup {g}
    <2>1. kept \subseteq Guids
      BY <1>2, HandlesAre DEF EntryTypes
    <2>2. e \in EntryTypes /\ e.key = k /\ e.sources = kept \cup {g}
      BY <1>2, <2>1 DEF EntryTypes
    <2> QED BY <2>2, NoneIsOther
  <1> HIDE DEF new, e
  <1>7. /\ texture' \in [Textures -> TextureTypes \cup {None}] /\ texture'[t] = new
        /\ \A s \in Textures \ {t} : texture'[s] = texture[s]
        /\ entries' \in [Textures -> EntryTypes \cup {None}] /\ entries'[t] = e
        /\ \A s \in Textures \ {t} : entries'[s] = entries[s]
    BY <1>2, <1>3, <1>4, <1>5, <1>6 DEF PortraitTypes
  <1>8. /\ record' \in [Keys -> RecordTypes \cup {None}] /\ HandlesRight'
        /\ handle(k)' = t
        /\ \A j \in Keys : handle(j) # None => handle(j)' = handle(j)
        /\ texture[t] # None => handle(k) = t
    <2>1. \A s \in Textures : texture[s] # None => texture'[s] # None
      BY <1>5, <1>7
    <2>2. texture'[t] # None
      BY <1>5, <1>7
    <2> QED BY <1>2, <1>3, <2>1, <2>2, HandleGiven
  <1>9. /\ shown' = [shown EXCEPT ![f] = t] /\ blind' = blind \ {f}
        /\ shown'[f] = t /\ \A h \in Frames \ {f} : shown'[h] = shown[h]
    BY <1>2, <1>3 DEF Show, PortraitTypes
  <1>10. PortraitTypes'
    BY <1>2, <1>3, <1>7, <1>8, <1>9 DEF PortraitTypes
  <1>11. EntriesRight'
    <2> SUFFICES ASSUME NEW s \in Textures, entries'[s] # None
                 PROVE  /\ texture'[s] # None /\ texture'[s].gpu
                        /\ handle(entries[s].key)' = s
                        /\ entries'[s].fresh => texture'[s].slot = "target"
      BY DEF EntriesRight
    <2>1. CASE s = t
      <3>1. entries'[s].key = k
        BY <1>6, <1>7, <2>1
      <3>2. handle(entries[s].key)' = s
        BY <1>8, <2>1, <3>1 DEF handle, Cached
      <3> QED BY <1>5, <1>7, <2>1, <3>2
    <2>2. CASE s # t
      <3>1. entries'[s] = entries[s] /\ entries[s] # None /\ texture'[s] = texture[s]
        BY <1>7, <2>2
      <3>2. /\ texture'[s] # None /\ texture'[s].gpu
            /\ handle(entries[s].key)' = s
            /\ entries'[s].fresh => texture'[s].slot = "target"
        BY <1>8, <3>1, EntriesStay
      <3> QED BY <3>2
    <2> QED BY <2>1, <2>2
  <1>12. Targets' /\ RenderingRight' /\ ReleasedRight'
    <2>1. Targets'
      BY <1>5, <1>6, <1>7 DEF PortraitInv, Targets
    <2>2. device' = device /\ device = "up" /\ rendering' = None
      BY <1>2, <1>3 DEF PortraitInv, RenderingRight
    <2> QED BY <2>1, <2>2 DEF RenderingRight, ReleasedRight
  <1>13. ShownRight'
    <2> SUFFICES ASSUME NEW h \in Frames, shown'[h] # None
                 PROVE  Explained(h, shown[h])'
      BY DEF ShownRight
    <2>1. CASE h = f
      <3>1. unit'[f] \in deferred' \/ unit'[f] \in entries'[t].sources
        <4>1. unit[f] = g \/ unit[f] \in deferred
          BY <1>1, <1>2 DEF PortraitInv, RenderingRight
        <4> QED BY <1>3, <1>6, <1>7, <4>1
      <3> QED BY <1>5, <1>7, <1>9, <2>1, <3>1 DEF Explained, Refreshed
    <2>2. CASE h # f
      <3> DEFINE s == shown[h]
      <3>1. /\ shown'[h] = s /\ unit'[h] = unit[h] /\ Explained(h, s) /\ s \in Textures
            /\ texture[s] # None /\ s # None
        BY <1>2, <1>3, <1>9, <2>2 DEF PortraitInv, ShownRight, PortraitTypes, Explained
      <3>2. Refreshed(h) => Refreshed(h)'
        BY <1>1, <1>3, <1>9, <2>2 DEF Refreshed
      <3>3. texture'[s] # None
        BY <1>5, <1>7, <3>1
      <3>4. ASSUME texture[s].gpu, texture[s].slot = "target", unit[h] \in entries[s].sources
            PROVE  texture'[s].gpu /\ texture'[s].slot = "target" /\ unit[h] \in entries'[s].sources
        <4>1. CASE s = t
          <5>1. entries[t] # None /\ Registered(t)
            BY <1>2, <3>1, <3>4, <4>1, HandlesAre DEF PortraitInv, Targets
          <5>2. handle(entries[t].key) = t /\ entries[t].key \in Keys /\ handle(k) = t
            BY <1>2, <1>8, <3>1, <4>1, <5>1, HandlesAre DEF PortraitInv, EntriesRight, EntryTypes
          <5>3. entries[t].key = k
            BY <1>2, <5>2 DEF HandlesRight
          <5>4. kept = entries[t].sources
            BY <5>1, <5>3
          <5> QED BY <1>5, <1>6, <1>7, <3>4, <4>1, <5>4
        <4>2. CASE s # t
          BY <1>7, <3>1, <3>4, <4>2
        <4> QED BY <4>1, <4>2
      <3>5. ASSUME ~texture[s].gpu, unit[h] \in Guids, handle(KeyOf[unit[h]]) = s
            PROVE  \/ texture'[s].gpu /\ texture'[s].slot = "target" /\ unit[h] \in entries'[s].sources
                   \/ ~texture'[s].gpu /\ \E j : j = KeyOf[unit[h]] /\ handle(j)' = s
        <4>1. PICK j \in Keys : j = KeyOf[unit[h]]
          BY <3>5, PortraitsAssumption
        <4>2. CASE s = t
          <5>1. handle(k) = t /\ handle(j) = t
            BY <1>8, <3>1, <3>5, <4>1, <4>2
          <5>2. j = k
            BY <1>2, <4>1, <5>1 DEF HandlesRight
          <5>3. k \in Players
            BY <1>1, <1>2, <3>5, <4>2, <5>1 DEF PortraitInv, RenderingRight
          <5>4. unit[h] = g
            BY <3>5, <4>1, <5>2, <5>3, PortraitsAssumption
          <5> QED BY <1>5, <1>6, <1>7, <4>2, <5>4
        <4>3. CASE s # t
          <5>1. texture'[s] = texture[s]
            BY <1>7, <3>1, <4>3
          <5>2. handle(j)' = s
            BY <1>8, <3>1, <3>5, <4>1
          <5> QED BY <3>5, <4>1, <5>1, <5>2
        <4> QED BY <4>2, <4>3
      <3> HIDE DEF s
      <3> QED BY <3>1, <3>2, <3>3, <3>4, <3>5, ExplainedOn
    <2> QED BY <2>1, <2>2
  <1> QED BY <1>8, <1>10, <1>11, <1>12, <1>13 DEF PortraitInv

(* The device lets go of every registered target, and asks for the units.  *)
LEMMA ReleaseStep ==
  ASSUME PortraitInv, NEW teardown \in BOOLEAN, ReleaseResources(teardown)
  PROVE  PortraitInv'
  <1>1. /\ PortraitTypes /\ rendering = None
        /\ device' = "released" /\ resources' = IF teardown \/ resources = "none" THEN "none" ELSE "mask"
        /\ texture' = [t \in Textures |-> Released(t)]
        /\ deferred' = deferred \cup UNION {entries[t].sources : t \in {u \in Textures : Registered(u)}}
        /\ entries' = [t \in Textures |-> IF Registered(t)
                         THEN [entries[t] EXCEPT !.fresh = FALSE, !.sources = {}] ELSE None]
        /\ UNCHANGED <<record, unit, shown, blind, asking, rendering>>
    BY DEF PortraitInv, ReleaseResources
  <1>2. ASSUME NEW t \in Textures, entries[t] # None
        PROVE  /\ texture'[t] \in TextureTypes /\ texture'[t].slot = "placeholder"
               /\ texture'[t].gpu = texture[t].gpu /\ texture'[t].resolved = texture[t].resolved
               /\ entries'[t] \in EntryTypes /\ entries'[t].key = entries[t].key
               /\ entries'[t].fresh = FALSE
               /\ entries[t].sources \subseteq deferred' /\ entries[t].sources \subseteq Guids
    <2>1. /\ Registered(t) /\ texture[t] \in TextureTypes /\ entries[t] \in EntryTypes
      BY <1>1, <1>2, HandlesAre DEF PortraitInv, EntriesRight
    <2>2. texture'[t] = [texture[t] EXCEPT !.slot = "placeholder"]
      BY <1>1, <2>1 DEF Released
    <2>3. entries'[t] = [entries[t] EXCEPT !.fresh = FALSE, !.sources = {}]
      BY <1>1, <2>1
    <2>4. /\ texture'[t] \in TextureTypes /\ texture'[t].slot = "placeholder"
          /\ texture'[t].gpu = texture[t].gpu /\ texture'[t].resolved = texture[t].resolved
      BY <2>1, <2>2 DEF TextureTypes
    <2>5. /\ entries'[t] \in EntryTypes /\ entries'[t].key = entries[t].key
          /\ entries'[t].fresh = FALSE
      BY <2>1, <2>3 DEF EntryTypes
    <2>6. entries[t].sources \subseteq deferred' /\ entries[t].sources \subseteq Guids
      BY <1>1, <2>1 DEF EntryTypes
    <2> QED BY <2>4, <2>5, <2>6
  <1>3. ASSUME NEW t \in Textures, entries[t] = None
        PROVE  texture'[t] = texture[t] /\ entries'[t] = None
    <2>1. ~Registered(t)
      BY <1>1, <1>3, HandlesAre
    <2> QED BY <1>1, <2>1 DEF Released
  <1>4. PortraitTypes'
    <2>1. texture' \in [Textures -> TextureTypes \cup {None}]
      <3>1. \A t \in Textures : texture'[t] \in TextureTypes \cup {None}
        BY <1>1, <1>2, <1>3 DEF PortraitTypes
      <3>2. texture' = [t \in Textures |-> texture'[t]]
        BY <1>1
      <3> QED BY <3>1, <3>2
    <2>2. entries' \in [Textures -> EntryTypes \cup {None}]
      <3>1. \A t \in Textures : entries'[t] \in EntryTypes \cup {None}
        BY <1>2, <1>3
      <3>2. entries' = [t \in Textures |-> entries'[t]]
        BY <1>1
      <3> QED BY <3>1, <3>2
    <2>3. deferred' \subseteq Guids
      <3>1. \A t \in Textures : Registered(t) => entries[t].sources \subseteq Guids
        BY <1>1, <1>2, HandlesAre
      <3> QED BY <1>1, <3>1 DEF PortraitTypes
    <2>4. resources' \in {"none", "mask", "depth"}
      BY <1>1
    <2> QED BY <1>1, <2>1, <2>2, <2>3, <2>4 DEF PortraitTypes
  <1>5. \A t \in Textures : texture[t] # None => texture'[t] # None
    BY <1>2, <1>3, NoneIsOther
  <1>6. HandlesRight' /\ \A k : handle(k)' = handle(k)
    BY <1>1, <1>5, HandlesKept DEF PortraitInv
  <1>7. EntriesRight'
    <2> SUFFICES ASSUME NEW s \in Textures, entries'[s] # None
                 PROVE  /\ texture'[s] # None /\ texture'[s].gpu
                        /\ handle(entries[s].key)' = s
                        /\ entries'[s].fresh => texture'[s].slot = "target"
      BY DEF EntriesRight
    <2>1. entries[s] # None
      BY <1>3
    <2>2. texture[s] # None /\ texture[s].gpu /\ handle(entries[s].key) = s
      BY <2>1 DEF PortraitInv, EntriesRight
    <2>3. handle(entries[s].key)' = handle(entries[s].key)
      <3>1. entries'[s].key = entries[s].key /\ record' = record
        BY <1>1, <1>2, <2>1
      <3> QED BY ONLY <3>1 DEF handle, Cached
    <2> QED BY <1>2, <1>5, <2>1, <2>2, <2>3
  <1>8. \A t \in Textures : texture'[t] # None => texture'[t].slot # "target"
    <2> TAKE t \in Textures
    <2>1. CASE entries[t] # None
      BY <1>2, <2>1
    <2>2. CASE entries[t] = None
      BY <1>3, <2>2 DEF PortraitInv, Targets
    <2> QED BY <2>1, <2>2
  <1>9. Targets'
    <2> SUFFICES ASSUME NEW t \in Textures, texture'[t] # None, ~texture'[t].gpu
                 PROVE  texture'[t].resolved
      BY <1>8 DEF Targets
    <2>1. entries[t] = None
      BY <1>2 DEF PortraitInv, EntriesRight
    <2> QED BY <1>3, <2>1 DEF PortraitInv, Targets
  <1>10. RenderingRight' /\ ReleasedRight'
    BY <1>1, <1>8 DEF RenderingRight, ReleasedRight
  <1>11. ShownRight'
    <2> SUFFICES ASSUME NEW h \in Frames, shown'[h] # None
                 PROVE  Explained(h, shown[h])'
      BY DEF ShownRight
    <2> DEFINE s == shown[h]
    <2>1. /\ shown'[h] = s /\ unit'[h] = unit[h] /\ Explained(h, s) /\ s \in Textures
          /\ texture[s] # None /\ texture'[s] # None
      BY <1>1, <1>5 DEF PortraitInv, ShownRight, PortraitTypes, Explained
    <2>2. Refreshed(h) => Refreshed(h)'
      BY <1>1 DEF Refreshed
    <2>3. ASSUME texture[s].gpu, texture[s].slot = "target", unit[h] \in entries[s].sources
          PROVE  Refreshed(h)'
      <3>1. entries[s] # None
        BY <2>1, <2>3 DEF PortraitInv, Targets
      <3>2. unit'[h] \in deferred'
        BY <1>2, <2>1, <2>3, <3>1
      <3> QED BY <3>2 DEF Refreshed
    <2>4. ASSUME ~texture[s].gpu, unit[h] \in Guids, handle(KeyOf[unit[h]]) = s
          PROVE  ~texture'[s].gpu /\ \E j : j = KeyOf[unit[h]] /\ handle(j)' = s
      <3>1. entries[s] = None
        BY <2>1, <2>4 DEF PortraitInv, EntriesRight
      <3>2. PICK j : j = KeyOf[unit[h]]
        OBVIOUS
      <3>3. handle(j)' = s
        BY <1>6, <2>4, <3>2
      <3> QED BY <1>3, <2>1, <2>4, <3>1, <3>2, <3>3
    <2> HIDE DEF s
    <2> QED BY <2>1, <2>2, <2>3, <2>4, ExplainedOn
  <1> QED BY <1>4, <1>6, <1>7, <1>9, <1>10, <1>11 DEF PortraitInv

LEMMA DeviceBackStep ==
  ASSUME PortraitInv, DeviceBack
  PROVE  PortraitInv'
  <1>1. /\ UNCHANGED <<record, texture, deferred, unit, shown, asking, blind, entries, resources, rendering>>
        /\ device' = "up" /\ rendering = None
    BY DEF DeviceBack, clientVars, PortraitInv, ReleasedRight
  <1>2. PortraitTypes'
    BY <1>1 DEF PortraitInv, PortraitTypes
  <1>3. HandlesRight' /\ EntriesRight' /\ Targets'
    BY <1>1 DEF PortraitInv, HandlesRight, EntriesRight, Targets, handle, dirty, Cached
  <1>4. ShownRight'
    BY <1>1 DEF PortraitInv, ShownRight, Explained, Refreshed, handle, Cached
  <1>5. RenderingRight' /\ ReleasedRight'
    BY <1>1 DEF RenderingRight, ReleasedRight
  <1> QED BY <1>2, <1>3, <1>4, <1>5 DEF PortraitInv

-----------------------------------------------------------------------------
(* The client                                                              *)

(* A texture changes, but neither what it shows nor whose it is.           *)
LEMMA TextureTouched ==
  ASSUME PortraitInv, NEW t \in Textures, NEW x \in TextureTypes, texture[t] # None,
         texture' = [texture EXCEPT ![t] = x], x.gpu = texture[t].gpu,
         x.slot = texture[t].slot \/ (texture[t].gpu /\ texture[t].slot = "none" /\ x.slot = "placeholder"),
         x.resolved \/ x.resolved = texture[t].resolved,
         UNCHANGED <<record, entries, deferred, device, resources, unit, shown, blind, asking, rendering>>
  PROVE  PortraitInv'
  <1>1. /\ texture' \in [Textures -> TextureTypes \cup {None}] /\ texture'[t] = x /\ x # None
        /\ \A s \in Textures \ {t} : texture'[s] = texture[s]
    BY NoneIsOther DEF PortraitInv, PortraitTypes
  <1>2. /\ \A s \in Textures : texture[s] # None => texture'[s] # None /\ texture'[s].gpu = texture[s].gpu
        /\ \A s \in Textures : texture'[s] # None => texture[s] # None
        /\ \A s \in Textures : texture[s] # None =>
             (texture'[s].slot = "target" <=> texture[s].slot = "target")
    BY <1>1
  <1>3. PortraitTypes'
    BY <1>1 DEF PortraitInv, PortraitTypes
  <1>4. HandlesRight' /\ \A k : handle(k)' = handle(k)
    BY <1>2, HandlesKept DEF PortraitInv
  <1>5. EntriesRight'
    <2> SUFFICES ASSUME NEW s \in Textures, entries'[s] # None
                 PROVE  /\ texture'[s] # None /\ texture'[s].gpu
                        /\ handle(entries[s].key)' = s
                        /\ entries'[s].fresh => texture'[s].slot = "target"
      BY DEF EntriesRight
    <2>1. /\ texture[s] # None /\ texture[s].gpu /\ handle(entries[s].key) = s
          /\ entries[s].fresh => texture[s].slot = "target"
      BY DEF PortraitInv, EntriesRight
    <2>2. handle(entries[s].key)' = handle(entries[s].key)
      BY DEF handle, Cached
    <2> QED BY <1>2, <2>1, <2>2
  <1>6. Targets'
    BY <1>1, <1>2 DEF PortraitInv, Targets
  <1>7. RenderingRight'
    <2> SUFFICES ASSUME rendering # None PROVE RenderingRight'
      BY DEF RenderingRight
    <2> DEFINE k == KeyOf[rendering.guid]
    <2>1. /\ device = "up"
          /\ unit[rendering.frame] = rendering.guid \/ unit[rendering.frame] \in deferred
          /\ handle(k) # None /\ ~texture[handle(k)].gpu => k \in Players
          /\ k \in Keys
      BY HandlesAre DEF PortraitInv, RenderingRight
    <2>2. handle(k)' = handle(k)
      BY DEF handle, Cached
    <2>3. handle(k) # None => texture'[handle(k)].gpu = texture[handle(k)].gpu
      BY <1>2, <2>1, HandlesAre DEF PortraitInv, HandlesRight
    <2> QED BY <2>1, <2>2, <2>3 DEF RenderingRight
  <1>8. ShownRight'
    <2> SUFFICES ASSUME NEW h \in Frames, shown'[h] # None
                 PROVE  Explained(h, shown[h])'
      BY DEF ShownRight
    <2> DEFINE s == shown[h]
    <2>1. /\ shown'[h] = s /\ unit'[h] = unit[h] /\ Explained(h, s) /\ s \in Textures
          /\ texture[s] # None /\ texture'[s] # None /\ texture'[s].gpu = texture[s].gpu
          /\ texture'[s].slot = "target" <=> texture[s].slot = "target"
      BY <1>2 DEF PortraitInv, ShownRight, PortraitTypes, Explained
    <2>2. Refreshed(h) => Refreshed(h)'
      BY DEF Refreshed
    <2>3. ASSUME handle(KeyOf[unit[h]]) = s
          PROVE  \E j : j = KeyOf[unit[h]] /\ handle(j)' = s
      <3>1. PICK j : j = KeyOf[unit[h]]
        OBVIOUS
      <3>2. handle(j)' = s
        BY <1>4, <2>3, <3>1
      <3> QED BY <3>1, <3>2
    <2> HIDE DEF s
    <2> QED BY <2>1, <2>2, <2>3, ExplainedOn
  <1>9. ReleasedRight'
    BY <1>2 DEF PortraitInv, ReleasedRight
  <1> QED BY <1>3, <1>4, <1>5, <1>6, <1>7, <1>8, <1>9 DEF PortraitInv

LEMMA TextureStep ==
  ASSUME PortraitInv, NEW t \in Textures, UpdateTexture(t) \/ Resolves(t)
  PROVE  PortraitInv'
  <1>1. texture[t] # None /\ texture[t] \in TextureTypes
        /\ UNCHANGED <<record, entries, deferred, device, resources, unit, shown, blind, asking, rendering>>
    BY HandlesAre DEF PortraitInv, UpdateTexture, Resolves
  <1>2. CASE UpdateTexture(t)
    <2> DEFINE x == [texture[t] EXCEPT !.slot = "placeholder"]
    <2>1. texture' = [texture EXCEPT ![t] = x] /\ texture[t].gpu /\ texture[t].slot = "none"
      BY <1>2 DEF UpdateTexture
    <2>2. /\ x \in TextureTypes /\ x.slot = "placeholder"
          /\ x.gpu = texture[t].gpu /\ x.resolved = texture[t].resolved
      BY <1>1 DEF TextureTypes
    <2> HIDE DEF x
    <2> QED BY <1>1, <2>1, <2>2, TextureTouched
  <1>3. CASE Resolves(t)
    <2> DEFINE x == [texture[t] EXCEPT !.resolved = TRUE]
    <2>1. texture' = [texture EXCEPT ![t] = x]
      BY <1>3 DEF Resolves
    <2>2. /\ x \in TextureTypes /\ x.slot = texture[t].slot
          /\ x.gpu = texture[t].gpu /\ x.resolved
      BY <1>1 DEF TextureTypes
    <2> HIDE DEF x
    <2> QED BY <1>1, <2>1, <2>2, TextureTouched
  <1> QED BY <1>2, <1>3

(* No frame shows the texture that goes.                                   *)
LEMMA DestroyStep ==
  ASSUME PortraitInv, NEW t \in Textures, DestroyTexture(t)
  PROVE  PortraitInv'
  <1>1. /\ PortraitTypes /\ HandlesRight /\ rendering = None /\ t # None
        /\ \A f \in Frames : shown[f] # t
        /\ texture' = [texture EXCEPT ![t] = None] /\ entries' = [entries EXCEPT ![t] = None]
        /\ record' = [k \in Keys |-> IF handle(k) = t THEN None ELSE record[k]]
        /\ UNCHANGED <<deferred, device, resources, unit, shown, blind, asking, rendering>>
    BY NoneIsOther DEF PortraitInv, DestroyTexture
  <1>2. /\ texture' \in [Textures -> TextureTypes \cup {None}] /\ texture'[t] = None
        /\ entries' \in [Textures -> EntryTypes \cup {None}] /\ entries'[t] = None
        /\ \A s \in Textures \ {t} : texture'[s] = texture[s] /\ entries'[s] = entries[s]
    BY <1>1 DEF PortraitTypes
  <1>3. record' \in [Keys -> RecordTypes \cup {None}]
    BY <1>1 DEF PortraitTypes
  <1>4. \A k \in Keys : \/ handle(k) = t /\ handle(k)' = None /\ dirty(k)' = FALSE
                        \/ handle(k) # t /\ handle(k)' = handle(k) /\ dirty(k)' = dirty(k)
    <2> TAKE k \in Keys
    <2>1. CASE handle(k) = t
      <3>1. record'[k] = None
        BY <1>1, <2>1
      <3> QED BY <2>1, <3>1 DEF handle, dirty, Cached
    <2>2. CASE handle(k) # t
      <3>1. record'[k] = record[k]
        BY <1>1, <2>2
      <3> QED BY <2>2, <3>1 DEF handle, dirty, Cached
    <2> QED BY <2>1, <2>2
  <1>5. PortraitTypes'
    BY <1>1, <1>2, <1>3 DEF PortraitTypes
  <1>6. HandlesRight'
    <2>1. \A k \in Keys : handle(k)' # None => texture'[handle(k)'] # None
      <3> SUFFICES ASSUME NEW k \in Keys, handle(k)' # None PROVE texture'[handle(k)'] # None
        OBVIOUS
      <3>1. handle(k) # t /\ handle(k)' = handle(k) /\ handle(k) \in Textures
        BY <1>1, <1>4, HandlesAre
      <3> QED BY <1>1, <1>2, <3>1 DEF HandlesRight
    <2>2. \A k, j \in Keys : handle(k)' # None /\ handle(k)' = handle(j)' => k = j
      BY <1>1, <1>4 DEF HandlesRight
    <2>3. \A k \in Keys : dirty(k)' => k \in Players
      BY <1>1, <1>4 DEF HandlesRight
    <2> QED BY <2>1, <2>2, <2>3 DEF HandlesRight
  <1>7. EntriesRight'
    <2> SUFFICES ASSUME NEW s \in Textures, entries'[s] # None
                 PROVE  /\ texture'[s] # None /\ texture'[s].gpu
                        /\ handle(entries[s].key)' = s
                        /\ entries'[s].fresh => texture'[s].slot = "target"
      BY DEF EntriesRight
    <2>1. s # t /\ entries'[s] = entries[s] /\ texture'[s] = texture[s] /\ entries[s] # None
      BY <1>2
    <2>2. /\ texture[s] # None /\ texture[s].gpu /\ handle(entries[s].key) = s
          /\ entries[s].fresh => texture[s].slot = "target"
          /\ entries[s].key \in Keys
      BY <1>1, <2>1, HandlesAre DEF PortraitInv, EntriesRight, EntryTypes
    <2>3. PICK k \in Keys : k = entries[s].key
      BY <2>2
    <2>4. handle(k)' = s
      BY <1>4, <2>1, <2>2, <2>3
    <2>5. handle(entries[s].key)' = s
      BY <2>1, <2>3, <2>4 DEF handle, Cached
    <2> QED BY <2>1, <2>2, <2>5
  <1>8. Targets'
    BY <1>2 DEF PortraitInv, Targets
  <1>9. RenderingRight' /\ ReleasedRight'
    BY <1>1, <1>2 DEF PortraitInv, RenderingRight, ReleasedRight
  <1>10. ShownRight'
    <2> SUFFICES ASSUME NEW h \in Frames, shown'[h] # None
                 PROVE  Explained(h, shown[h])'
      BY DEF ShownRight
    <2> DEFINE s == shown[h]
    <2>1. /\ shown'[h] = s /\ unit'[h] = unit[h] /\ Explained(h, s) /\ s \in Textures /\ s # t
          /\ texture[s] # None /\ texture'[s] = texture[s] /\ entries'[s] = entries[s]
      BY <1>1, <1>2 DEF PortraitInv, ShownRight, PortraitTypes, Explained
    <2>2. Refreshed(h) => Refreshed(h)'
      BY <1>1 DEF Refreshed
    <2>3. ASSUME unit[h] \in Guids, handle(KeyOf[unit[h]]) = s
          PROVE  \E j : j = KeyOf[unit[h]] /\ handle(j)' = s
      <3>1. PICK j \in Keys : j = KeyOf[unit[h]]
        BY <2>3, PortraitsAssumption
      <3>2. handle(j)' = s
        BY <1>4, <2>1, <2>3, <3>1
      <3> QED BY <3>1, <3>2
    <2> HIDE DEF s
    <2> QED BY <2>1, <2>2, <2>3, ExplainedOn
  <1> QED BY <1>5, <1>6, <1>7, <1>8, <1>9, <1>10 DEF PortraitInv

LEMMA AppearanceStep ==
  ASSUME PortraitInv, NEW k \in Keys, AppearanceChanges(k)
  PROVE  PortraitInv'
  <1> DEFINE r == [record[k] EXCEPT !.dirty = TRUE]
  <1>1. /\ PortraitTypes /\ HandlesRight /\ rendering = None /\ k \in Players /\ record[k] # None
        /\ record' = [record EXCEPT ![k] = r]
        /\ UNCHANGED <<texture, entries, deferred, device, resources, unit, shown, blind, asking, rendering>>
    BY DEF PortraitInv, AppearanceChanges, Cached
  <1>2. r \in RecordTypes /\ r.handle = record[k].handle /\ r # None
    <2>1. r \in RecordTypes /\ r.handle = record[k].handle
      BY <1>1, HandlesAre DEF RecordTypes
    <2> QED BY <2>1, NoneIsOther
  <1> HIDE DEF r
  <1>3. record' \in [Keys -> RecordTypes \cup {None}] /\ record'[k] = r
        /\ \A j \in Keys \ {k} : record'[j] = record[j]
    BY <1>1, <1>2 DEF PortraitTypes
  <1>4. \A j \in Keys : handle(j)' = handle(j)
    <2> TAKE j \in Keys
    <2>1. CASE j = k
      BY <1>1, <1>2, <1>3, <2>1 DEF handle, Cached
    <2>2. CASE j # k
      BY <1>3, <2>2 DEF handle, Cached
    <2> QED BY <2>1, <2>2
  <1>5. \A j \in Keys : dirty(j)' => j \in Players
    <2> TAKE j \in Keys
    <2>1. CASE j = k
      BY <1>1, <2>1
    <2>2. CASE j # k
      BY <1>1, <1>3, <2>2 DEF dirty, Cached, HandlesRight
    <2> QED BY <2>1, <2>2
  <1>6. PortraitTypes'
    BY <1>1, <1>3 DEF PortraitTypes
  <1>7. HandlesRight'
    BY <1>1, <1>4, <1>5 DEF HandlesRight
  <1>8. EntriesRight'
    <2> SUFFICES ASSUME NEW s \in Textures, entries'[s] # None
                 PROVE  /\ texture'[s] # None /\ texture'[s].gpu
                        /\ handle(entries[s].key)' = s
                        /\ entries'[s].fresh => texture'[s].slot = "target"
      BY DEF EntriesRight
    <2> QED BY <1>1, <1>4, EntriesStay
  <1>9. Targets' /\ RenderingRight' /\ ReleasedRight'
    BY <1>1 DEF PortraitInv, Targets, RenderingRight, ReleasedRight
  <1>10. ShownRight'
    <2> SUFFICES ASSUME NEW h \in Frames, shown'[h] # None
                 PROVE  Explained(h, shown[h])'
      BY DEF ShownRight
    <2> DEFINE s == shown[h]
    <2>1. /\ shown'[h] = s /\ unit'[h] = unit[h] /\ Explained(h, s)
          /\ texture[s] # None /\ texture'[s] = texture[s] /\ entries'[s] = entries[s]
      BY <1>1 DEF PortraitInv, ShownRight, Explained
    <2>2. Refreshed(h) => Refreshed(h)'
      BY <1>1 DEF Refreshed
    <2>3. ASSUME unit[h] \in Guids, handle(KeyOf[unit[h]]) = s
          PROVE  \E j : j = KeyOf[unit[h]] /\ handle(j)' = s
      <3>1. PICK j \in Keys : j = KeyOf[unit[h]]
        BY <2>3, PortraitsAssumption
      <3>2. handle(j)' = s
        BY <1>4, <2>3, <3>1
      <3> QED BY <3>1, <3>2
    <2> HIDE DEF s
    <2> QED BY <2>1, <2>2, <2>3, ExplainedOn
  <1> QED BY <1>6, <1>7, <1>8, <1>9, <1>10 DEF PortraitInv

(* A portrait the client makes gets a texture nobody has.                  *)
LEMMA StockStep ==
  ASSUME PortraitInv, NEW k \in Keys, NEW t \in Textures, StockPortrait(k, t)
  PROVE  PortraitInv'
  <1> DEFINE x == [gpu |-> FALSE, slot |-> "pixels", resolved |-> TRUE]
  <1>1. /\ PortraitTypes /\ HandlesRight /\ rendering = None /\ record[k] = None /\ texture[t] = None
        /\ texture' = [texture EXCEPT ![t] = x]
        /\ record' = [record EXCEPT ![k] = [handle |-> t, dirty |-> FALSE]]
        /\ UNCHANGED <<entries, deferred, device, resources, unit, shown, blind, asking, rendering>>
    BY DEF PortraitInv, StockPortrait, Cached
  <1>2. x \in TextureTypes /\ x # None /\ x.slot = "pixels" /\ x.resolved = TRUE
    <2>1. x \in TextureTypes /\ x.slot = "pixels" /\ x.resolved = TRUE
      BY DEF TextureTypes
    <2> QED BY <2>1, NoneIsOther
  <1> HIDE DEF x
  <1>3. /\ texture' \in [Textures -> TextureTypes \cup {None}] /\ texture'[t] = x
        /\ \A s \in Textures \ {t} : texture'[s] = texture[s]
        /\ \A s \in Textures : texture[s] # None => texture'[s] = texture[s]
    BY <1>1, <1>2 DEF PortraitTypes
  <1>4. /\ record' \in [Keys -> RecordTypes \cup {None}] /\ HandlesRight'
        /\ \A j \in Keys : handle(j) # None => handle(j)' = handle(j)
    <2>1. TargetHandle(k, t)
      BY <1>1, HandlesAre DEF TargetHandle
    <2>2. \A s \in Textures : texture[s] # None => texture'[s] # None
      BY <1>3
    <2>3. texture'[t] # None
      BY <1>2, <1>3
    <2> QED BY <1>1, <2>1, <2>2, <2>3, HandleGiven
  <1>5. PortraitTypes'
    BY <1>1, <1>3, <1>4 DEF PortraitTypes
  <1>6. EntriesRight'
    <2> SUFFICES ASSUME NEW s \in Textures, entries'[s] # None
                 PROVE  /\ texture'[s] # None /\ texture'[s].gpu
                        /\ handle(entries[s].key)' = s
                        /\ entries'[s].fresh => texture'[s].slot = "target"
      BY DEF EntriesRight
    <2>1. entries'[s] = entries[s] /\ entries[s] # None
      BY <1>1
    <2>2. texture'[s] = texture[s]
      BY <1>3, <2>1 DEF PortraitInv, EntriesRight
    <2> QED BY <1>4, <2>1, <2>2, EntriesStay
  <1>7. Targets'
    <2> SUFFICES ASSUME NEW s \in Textures, texture'[s] # None
                 PROVE  /\ texture'[s].slot = "target" => entries'[s] # None
                        /\ ~texture'[s].gpu => texture'[s].resolved
      BY DEF Targets
    <2>1. CASE s = t
      BY <1>2, <1>3, <2>1
    <2>2. CASE s # t
      BY <1>1, <1>3, <2>2 DEF PortraitInv, Targets
    <2> QED BY <2>1, <2>2
  <1>8. RenderingRight' /\ ReleasedRight'
    <2>1. ReleasedRight'
      <3> SUFFICES ASSUME device = "released", NEW s \in Textures, texture'[s] # None
                   PROVE  texture'[s].slot # "target" /\ resources # "depth"
        BY <1>1 DEF PortraitInv, ReleasedRight
      <3>1. CASE s = t
        BY <1>2, <1>3, <3>1 DEF PortraitInv, ReleasedRight
      <3>2. CASE s # t
        BY <1>3, <3>2 DEF PortraitInv, ReleasedRight
      <3> QED BY <3>1, <3>2
    <2> QED BY <1>1, <2>1 DEF RenderingRight
  <1>9. ShownRight'
    <2> SUFFICES ASSUME NEW h \in Frames, shown'[h] # None
                 PROVE  Explained(h, shown[h])'
      BY DEF ShownRight
    <2> DEFINE s == shown[h]
    <2>1. /\ shown'[h] = s /\ unit'[h] = unit[h] /\ Explained(h, s) /\ s \in Textures /\ s # None
          /\ texture[s] # None /\ texture'[s] = texture[s] /\ entries'[s] = entries[s]
      BY <1>1, <1>3 DEF PortraitInv, ShownRight, PortraitTypes, Explained
    <2>2. Refreshed(h) => Refreshed(h)'
      BY <1>1 DEF Refreshed
    <2>3. ASSUME unit[h] \in Guids, handle(KeyOf[unit[h]]) = s
          PROVE  \E j : j = KeyOf[unit[h]] /\ handle(j)' = s
      <3>1. PICK j \in Keys : j = KeyOf[unit[h]]
        BY <2>3, PortraitsAssumption
      <3>2. handle(j)' = s
        BY <1>4, <2>1, <2>3, <3>1
      <3> QED BY <3>1, <3>2
    <2> HIDE DEF s
    <2> QED BY <2>1, <2>2, <2>3, ExplainedOn
  <1> QED BY <1>4, <1>5, <1>6, <1>7, <1>8, <1>9 DEF PortraitInv

(* A unit leaves the deferred ones for the frames that want it.            *)
LEMMA DeferredStep ==
  ASSUME PortraitInv, NEW g \in Guids, DeferredFires(g)
  PROVE  PortraitInv'
  <1>1. /\ rendering = None /\ deferred' = deferred \ {g}
        /\ asking' = asking \cup {f \in Frames : unit[f] = g}
        /\ UNCHANGED <<record, texture, entries, device, resources, unit, shown, blind, rendering>>
    BY DEF DeferredFires
  <1>2. PortraitTypes'
    BY <1>1 DEF PortraitInv, PortraitTypes
  <1>3. HandlesRight' /\ EntriesRight' /\ Targets' /\ ReleasedRight' /\ RenderingRight'
    BY <1>1 DEF PortraitInv, HandlesRight, EntriesRight, Targets, ReleasedRight, RenderingRight,
                handle, dirty, Cached
  <1>4. ShownRight'
    <2> SUFFICES ASSUME NEW h \in Frames, shown'[h] # None
                 PROVE  Explained(h, shown[h])'
      BY DEF ShownRight
    <2>1. Refreshed(h) => Refreshed(h)'
      BY <1>1 DEF Refreshed
    <2> QED BY <1>1, <2>1 DEF PortraitInv, ShownRight, Explained, handle, Cached
  <1> QED BY <1>2, <1>3, <1>4 DEF PortraitInv

-----------------------------------------------------------------------------

LEMMA PortraitInvInit == Init => PortraitInv
  <1> SUFFICES ASSUME Init PROVE PortraitInv
    OBVIOUS
  <1>1. /\ \A k \in Keys : record[k] = None
        /\ record \in [Keys -> RecordTypes \cup {None}]
    BY DEF Init
  <1>2. \A k \in Keys : handle(k) = None /\ dirty(k) = FALSE
    BY <1>1 DEF handle, dirty, Cached
  <1>3. PortraitTypes
    BY <1>1 DEF Init, PortraitTypes
  <1>4. HandlesRight
    BY <1>2 DEF HandlesRight
  <1>5. EntriesRight /\ Targets /\ ShownRight
    BY DEF Init, EntriesRight, Targets, ShownRight
  <1>6. RenderingRight /\ ReleasedRight
    BY DEF Init, RenderingRight, ReleasedRight
  <1> QED BY <1>3, <1>4, <1>5, <1>6 DEF PortraitInv

LEMMA PortraitInvStep == PortraitInv /\ [Next]_vars => PortraitInv'
  <1> SUFFICES ASSUME PortraitInv, [Next]_vars PROVE PortraitInv'
    OBVIOUS
  <1>1. CASE UNCHANGED vars
    BY <1>1 DEF vars, clientVars, PortraitInv, PortraitTypes, HandlesRight, EntriesRight, Targets,
                ReleasedRight, RenderingRight, ShownRight, Explained, Refreshed, handle, dirty,
                   Cached
  <1>2. ASSUME NEW f \in Frames, NEW g \in Guids, SetPortrait(f, g) PROVE PortraitInv'
    BY <1>2, AskStep
  <1>3. CASE RenderEnds
    BY <1>3, RenderFailsStep, PublishUnresolvedStep, PublishStep DEF RenderEnds
  <1>4. CASE Device
    BY <1>4, ReleaseStep, DeviceBackStep DEF Device
  <1>5. CASE Client
    BY <1>5, TextureStep, DestroyStep, AppearanceStep, StockStep, DeferredStep DEF Client
  <1> QED BY <1>1, <1>2, <1>3, <1>4, <1>5 DEF Next

(* Once the hook has released, no texture owns a rendered target and the   *)
(* depth surface is gone, whatever the entries went through.               *)
THEOREM PoolIsEmpty == Spec => []DefaultPoolEmpty
  <1>1. PortraitInv => DefaultPoolEmpty
    BY DEF PortraitInv, ReleasedRight, DefaultPoolEmpty
  <1> QED BY PortraitInvInit, PortraitInvStep, <1>1, PTL DEF Spec

(* A frame whose portrait has lost its target is asked for again: the      *)
(* release defers every unit whose portrait is shown somewhere.            *)
THEOREM LostComesBack == Spec => []LostIsRefreshed
  <1>1. PortraitInv => LostIsRefreshed
    BY DEF PortraitInv, ShownRight, Explained, Refreshed, LostIsRefreshed
  <1> QED BY PortraitInvInit, PortraitInvStep, <1>1, PTL DEF Spec
=============================================================================
