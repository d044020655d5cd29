----------------------------- MODULE Portraits -----------------------------
(***************************************************************************)
(* Model portraits rendered into the client's cached texture handles: the  *)
(* registry of windows/turbo/src/portrait.rs, the hooks of                 *)
(* windows/turbo/src/win/portrait.rs and the ownership of textures in      *)
(* portrait/client.rs and portrait/d3d.rs.  All of it runs on the client's *)
(* main thread; a render calls into the client and may come back as        *)
(* another request.                                                        *)
(*                                                                         *)
(* External: the client's portrait records, its texture objects and their  *)
(* handles (one of each per texture here), its list of deferred units, the *)
(* UI that asks again when a deferred unit is ready, and the device.  What *)
(* a portrait looks like is left out: a texture's slot holds a rendered    *)
(* target it owns, the device's placeholder, nothing, or the pixels of a   *)
(* portrait the client made.  Every call of Direct3D and of the client may *)
(* fail; failures that end the same way are one.                           *)
(***************************************************************************)
EXTENDS Naturals, FiniteSets

CONSTANTS Guids,     \* units
          Keys,      \* Key::Player(guid), Key::Creature(display)
          Players,   \* the keys that are players
          KeyOf,     \* the key of each unit
          Textures,  \* addresses of textures
          Frames     \* UI textures that show portraits

None == [none |-> TRUE]

ASSUME PortraitsAssumption ==
  /\ Players \subseteq Keys /\ None \notin Textures
  /\ KeyOf \in [Guids -> Keys]
  /\ \A g, h \in Guids : KeyOf[g] = KeyOf[h] /\ KeyOf[g] \in Players => g = h

VARIABLES
  record,    \* the client's record of each key: its handle, and the dirty byte
  texture,   \* the texture at each address
  entries,   \* Registry::entries; fresh is generation = Some(self.generation)
  deferred,  \* the client's list of units whose portrait is still to come
  device,    \* "up", or "released" between the release and the reset
  resources, \* what d3d.rs keeps: "none", "mask", or "depth" (mask and depth)
  unit,      \* the unit each frame last asked for
  shown,     \* the texture each frame shows
  asking,    \* frames the UI is about to ask for again
  rendering, \* ENTERED: the frame and unit of a render that is running
  blind      \* history: frames given a handle that did not resolve, or answered
             \* by the client's own function

clientVars == <<record, texture, deferred, unit, shown, asking, blind>>
vars == <<clientVars, entries, device, resources, rendering>>

Init ==
  /\ record \in [Keys -> {None}]
  /\ texture = [t \in Textures |-> None]
  /\ entries = [t \in Textures |-> None]
  /\ deferred = {} /\ asking = {}
  /\ device = "up" /\ resources = "none"
  /\ unit = [f \in Frames |-> None] /\ shown = [f \in Frames |-> None]
  /\ rendering = None /\ blind = {}

-----------------------------------------------------------------------------
(* Portrait                                                                *)

Cached(k) == record[k] # None

handle(k) == IF Cached(k) THEN record[k].handle ELSE None

dirty(k) == Cached(k) /\ record[k].dirty

(* The texture a record's handle resolves to, if it does.                  *)
Resolved(k) ==
  IF handle(k) # None /\ texture[handle(k)].resolved THEN handle(k) ELSE None

Registered(t) == t # None /\ entries[t] # None

valid(t, k) == Registered(t) /\ entries[t].fresh /\ entries[t].key = k

gpu(t) == t # None /\ texture[t].gpu

Invalidated(t) == IF Registered(t) THEN [entries EXCEPT ![t].fresh = FALSE] ELSE entries

Observed(t, g) ==
  IF Registered(t) THEN [entries EXCEPT ![t].sources = @ \cup {g}] ELSE entries

(* Registry::publish                                                       *)
Published(t, k, g) ==
  LET kept == IF Registered(t) /\ entries[t].key = k THEN entries[t].sources ELSE {}
  IN [entries EXCEPT ![t] = [key |-> k, fresh |-> TRUE, sources |-> kept \cup {g}]]

-----------------------------------------------------------------------------
(* set_portrait                                                            *)

(* The UI asks for a portrait of g in frame f.                             *)
Asks(f, g) ==
  /\ unit' = [unit EXCEPT ![f] = g]
  /\ asking' = asking \ {f}

Defer(g) == deferred' = deferred \cup {g}

Show(f, t) ==
  /\ shown' = [shown EXCEPT ![f] = t]
  /\ blind' = blind \ {f}

(* A handle that does not resolve passes for one of the client's own.      *)
ShowCached(f, k) ==
  /\ shown' = [shown EXCEPT ![f] = handle(k)]
  /\ blind' = IF Resolved(k) = None THEN blind \cup {f} ELSE blind \ {f}

(* While the client has no graphics (a released device, at times) the      *)
(* request is left to its own function, which shows what is cached or      *)
(* nothing, or defers the unit.                                            *)
AskOriginal(f, g) ==
  /\ device = "released"
  /\ Asks(f, g)
  /\ \/ Defer(g) /\ UNCHANGED <<shown, blind>>
     \/ /\ \E t \in {None, handle(KeyOf[g])} : shown' = [shown EXCEPT ![f] = t]
        /\ blind' = blind \cup {f}
        /\ UNCHANGED deferred
  /\ UNCHANGED <<record, texture, entries, device, resources, rendering>>

(* Called from within a render: deferred.                                  *)
AskWithin(f, g) ==
  /\ rendering # None
  /\ Asks(f, g) /\ Defer(g)
  /\ UNCHANGED <<record, texture, entries, device, resources, shown, blind, rendering>>

AskPending(f, g) ==
  /\ rendering = None /\ g \in deferred
  /\ Asks(f, g)
  /\ UNCHANGED <<record, texture, entries, deferred, device, resources, shown, blind, rendering>>

(* What is cached can be shown: it is valid, or it is the client's own.    *)
Reusable(k) ==
  /\ handle(k) # None /\ ~dirty(k)
  /\ LET t == Resolved(k) IN valid(t, k) \/ (~Registered(t) /\ ~gpu(t))

AskHitUnobserved(f, g) ==
  /\ rendering = None /\ g \notin deferred /\ Reusable(KeyOf[g])
  /\ Asks(f, g)
  /\ ShowCached(f, KeyOf[g])
  /\ UNCHANGED <<record, texture, entries, deferred, device, resources, rendering>>

AskHit(f, g) ==
  /\ rendering = None /\ g \notin deferred /\ Reusable(KeyOf[g])
  /\ Asks(f, g)
  /\ entries' = Observed(Resolved(KeyOf[g]), g)
  /\ ShowCached(f, KeyOf[g])
  /\ UNCHANGED <<record, texture, deferred, device, resources, rendering>>

(* A portrait must be rendered; one of an old appearance is invalidated.   *)
MustRender(f, g) ==
  /\ rendering = None /\ g \notin deferred /\ ~Reusable(KeyOf[g])
  /\ Asks(f, g)
  /\ entries' = IF dirty(KeyOf[g]) THEN Invalidated(Resolved(KeyOf[g])) ELSE entries

(* The model or the device is not ready.                                   *)
AskNotReady(f, g) ==
  /\ MustRender(f, g)
  /\ Defer(g)
  /\ UNCHANGED <<record, texture, device, resources, shown, blind, rendering>>

(* The model has no portrait camera.                                       *)
AskNoCamera(f, g) ==
  /\ MustRender(f, g) /\ device = "up"
  /\ Show(f, None)
  /\ UNCHANGED <<record, texture, deferred, device, resources, rendering>>

(* Pass::begin makes the mask and the depth surface the first time.        *)
AskRender(f, g) ==
  /\ MustRender(f, g) /\ device = "up"
  /\ rendering' = [frame |-> f, guid |-> g]
  /\ resources' \in {"depth", resources}
  /\ UNCHANGED <<record, texture, deferred, device, shown, blind>>

-----------------------------------------------------------------------------
(* The end of a render                                                     *)

(* failed: what the record holds is shown, and the unit deferred.          *)
Failed(f, g, t) ==
  /\ IF t # None THEN Show(f, t) ELSE UNCHANGED <<shown, blind>>
  /\ Defer(g)
  /\ rendering' = None
  /\ UNCHANGED <<entries, device, resources, unit, asking>>

(* The render fails, and drops its target; or the client has no room for a *)
(* record; or a record but no texture for it.                              *)
RenderFails ==
  LET f == rendering.frame
      g == rendering.guid
      k == KeyOf[g]
  IN /\ rendering # None
     /\ \/ UNCHANGED record
        \/ ~Cached(k) /\ record' = [record EXCEPT ![k] =
                                      [handle |-> None, dirty |-> k \in Players]]
     /\ Failed(f, g, handle(k))
     /\ UNCHANGED texture

\* A texture as the client makes it for a GPU portrait.
Created(resolved) == [gpu |-> TRUE, slot |-> "none", resolved |-> resolved]

(* The handle the target goes to, and its texture before: the record's, or *)
(* a new one.                                                              *)
TargetHandle(k, t) ==
  IF handle(k) # None THEN t = handle(k) ELSE texture[t] = None

(* The client makes a handle that does not resolve to a texture yet.       *)
PublishUnresolved(t) ==
  LET f == rendering.frame
      g == rendering.guid
      k == KeyOf[g]
  IN /\ rendering # None
     /\ TargetHandle(k, t)
     /\ texture[t] # None => ~texture[t].resolved
     /\ texture' = IF texture[t] = None THEN [texture EXCEPT ![t] = Created(FALSE)] ELSE texture
     /\ record' = [record EXCEPT ![k] = [handle |-> t,
                                         dirty |-> IF Cached(k) THEN dirty(k) ELSE k \in Players]]
     /\ Failed(f, g, t)

(* publish: the target moves into the texture's slot, which owns it; what  *)
(* the slot owned before is released.                                      *)
Publish(t) ==
  LET f == rendering.frame
      g == rendering.guid
      k == KeyOf[g]
  IN /\ rendering # None
     /\ TargetHandle(k, t)
     /\ texture[t] # None => texture[t].resolved
     /\ texture' = [texture EXCEPT ![t] = [Created(TRUE) EXCEPT !.slot = "target"]]
     /\ record' = [record EXCEPT ![k] = [handle |-> t, dirty |-> FALSE]]
     /\ entries' = Published(t, k, g)
     /\ Show(f, t)
     /\ rendering' = None
     /\ UNCHANGED <<deferred, device, resources, unit, asking>>

-----------------------------------------------------------------------------
(* The device                                                              *)

ReleasedFreshOnly(t) ==
  IF Registered(t) /\ entries[t].fresh THEN [texture[t] EXCEPT !.slot = "placeholder"]
  ELSE texture[t]

(* release_texture, on every registered texture: the placeholder is lent   *)
(* to the slot and the target released.                                    *)
Released(t) ==
  IF Registered(t) THEN [texture[t] EXCEPT !.slot = "placeholder"] ELSE texture[t]

(* release_resources, before the client's own release; a teardown drops    *)
(* the mask too.  Registry::reset defers every unit that was observed.     *)
ReleaseResources(teardown) ==
  /\ rendering = None /\ device = "up"
  /\ device' = "released"
  /\ resources' = IF teardown \/ resources = "none" THEN "none" ELSE "mask"
  /\ texture' = [t \in Textures |-> Released(t)]
  /\ deferred' = deferred \cup UNION {entries[t].sources : t \in {u \in Textures : Registered(u)}}
  /\ entries' = [t \in Textures |-> IF Registered(t)
                   THEN [entries[t] EXCEPT !.fresh = FALSE, !.sources = {}] ELSE None]
  /\ UNCHANGED <<record, unit, shown, blind, asking, rendering>>

(* The device is reset, or another is created.                             *)
DeviceBack ==
  /\ device = "released"
  /\ device' = "up"
  /\ UNCHANGED <<clientVars, entries, resources, rendering>>

(* update_texture: an empty slot of a GPU portrait borrows the placeholder *)
UpdateTexture(t) ==
  /\ texture[t] # None /\ texture[t].gpu /\ texture[t].slot = "none"
  /\ texture' = [texture EXCEPT ![t].slot = "placeholder"]
  /\ UNCHANGED <<record, entries, deferred, device, resources, unit, shown, blind, asking, rendering>>

-----------------------------------------------------------------------------
(* The client                                                              *)

(* A handle's texture is there now.                                        *)
Resolves(t) ==
  /\ texture[t] # None /\ ~texture[t].resolved
  /\ texture' = [texture EXCEPT ![t].resolved = TRUE]
  /\ UNCHANGED <<record, entries, deferred, device, resources, unit, shown, blind, asking, rendering>>

(* A player's appearance changes.                                          *)
AppearanceChanges(k) ==
  /\ rendering = None /\ k \in Players /\ Cached(k) /\ ~dirty(k)
  /\ record' = [record EXCEPT ![k].dirty = TRUE]
  /\ UNCHANGED <<texture, entries, deferred, device, resources, unit, shown, blind, asking, rendering>>

(* The client makes a portrait of its own before the hooks are enabled.    *)
StockPortrait(k, t) ==
  /\ ~Cached(k) /\ texture[t] = None /\ rendering = None
  /\ \A u \in Textures : texture[u] = None
  /\ texture' = [texture EXCEPT ![t] = [gpu |-> FALSE, slot |-> "pixels", resolved |-> TRUE]]
  /\ record' = [record EXCEPT ![k] = [handle |-> t, dirty |-> FALSE]]
  /\ UNCHANGED <<entries, deferred, device, resources, unit, shown, blind, asking, rendering>>

(* The client destroys a texture nobody shows, its record's handle with    *)
(* it; destroy_texture forgets the entry.                                  *)
DestroyTexture(t) ==
  /\ rendering = None
  /\ texture[t] # None /\ \A f \in Frames : shown[f] # t
  /\ texture' = [texture EXCEPT ![t] = None]
  /\ record' = [k \in Keys |-> IF handle(k) = t THEN None ELSE record[k]]
  /\ entries' = [entries EXCEPT ![t] = None]
  /\ UNCHANGED <<deferred, device, resources, unit, shown, blind, asking, rendering>>

(* A deferred unit is ready: the UI asks again for the frames that want it *)
DeferredFires(g) ==
  /\ rendering = None /\ g \in deferred
  /\ deferred' = deferred \ {g}
  /\ asking' = asking \cup {f \in Frames : unit[f] = g}
  /\ UNCHANGED <<record, texture, entries, device, resources, unit, shown, blind, rendering>>

SetPortrait(f, g) ==
  \/ AskOriginal(f, g) \/ AskWithin(f, g) \/ AskPending(f, g) \/ AskHit(f, g)
  \/ AskNotReady(f, g) \/ AskNoCamera(f, g) \/ AskRender(f, g)

RenderEnds == RenderFails \/ \E t \in Textures : PublishUnresolved(t) \/ Publish(t)

Device == (\E teardown \in BOOLEAN : ReleaseResources(teardown)) \/ DeviceBack

Client ==
  \/ \E t \in Textures : UpdateTexture(t) \/ Resolves(t) \/ DestroyTexture(t)
  \/ \E k \in Keys : AppearanceChanges(k) \/ \E t \in Textures : StockPortrait(k, t)
  \/ \E g \in Guids : DeferredFires(g)

Next == (\E f \in Frames, g \in Guids : SetPortrait(f, g)) \/ RenderEnds \/ Device \/ Client

Spec == Init /\ [][Next]_vars

-----------------------------------------------------------------------------
(* Properties                                                              *)

(* Direct3D resets a device only when nothing of its default pool is left: *)
(* once the hook has released, no texture owns a rendered target, whatever *)
(* its entry went through - invalidated, forgotten, taken over by another  *)
(* key - and the depth surface is gone ("release the owned default-pool    *)
(* target before the native device-release routine").                      *)
DefaultPoolEmpty ==
  device = "released" =>
    /\ resources # "depth"
    /\ \A t \in Textures : texture[t] # None => texture[t].slot # "target"

(* A frame that shows a portrait whose target is gone is asked for again:  *)
(* its unit is deferred or the UI is about to ask ("all observed units     *)
(* receive a deferred refresh").  The exceptions are a frame that was      *)
(* given a handle while it did not resolve, and one whose request was left *)
(* to the client's own function.                                           *)
LostIsRefreshed ==
  \A f \in Frames :
    LET t == shown[f] IN
    t # None /\ texture[t].gpu /\ texture[t].slot # "target" =>
      \/ unit[f] \in deferred
      \/ f \in asking
      \/ rendering # None /\ rendering.frame = f
      \/ f \in blind
=============================================================================
