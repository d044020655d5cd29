----------------------------- MODULE ChatFrames -----------------------------
(***************************************************************************)
(* The chat frame hook of addon/WoWTranslate/WoWTranslate.lua: what becomes*)
(* of a chat line between the frame that would have printed it and the     *)
(* translation that arrives some frames later, in particular with          *)
(* replaceMode, where the original is held back.                           *)
(*                                                                         *)
(* WoW raises a message in every chat frame in turn, in one tick; the hook *)
(* of the first one that shows it asks the API, the others are turned away *)
(* as duplicates and rely on frameTranslationTargets.  The API is used as  *)
(* AddonApi describes it: Translate queues a request, skips it (returns    *)
(* false) or refuses it (the callback runs first, then it returns false),  *)
(* and the callback of a queued request runs once.                         *)
(*                                                                         *)
(* Hooks that return before Translate flush the original, or post a cached *)
(* or glossary result: one action each.  A line whose translation is there *)
(* goes through ResolveNamesAndPost: it may wait for its sender's name     *)
(* (NameResolver), when the safety net has already let go of it.           *)
(*                                                                         *)
(* A translation is posted once per frame that registered for the text, in *)
(* the name of the message that asked.  Another message that says the same *)
(* meanwhile gets no line of its own: the one that is posted stands for it,*)
(* and with replaceMode its original stays swallowed.                      *)
(***************************************************************************)
EXTENDS NameResolver, ChatLines

CONSTANTS
  TextOf,         \* what a line says
  SenderOf,       \* who says it
  replaceMode,    \* the player's setting
  MayFail         \* whether a queued translation may come back as an error

ASSUME ChatAssumption ==
  /\ Frames # {}
  /\ SenderOf \in [Messages -> Senders]
  /\ ApiOutcomes \subseteq {"queued", "skipped", "refused"}
  /\ replaceMode \in BOOLEAN /\ MayFail \in BOOLEAN

Texts == {TextOf[m] : m \in Messages}

VARIABLES
  raised,      \* messages raised so far
  event,       \* the message being raised and the frames it has still to visit
  targets,     \* frameTranslationTargets: text -> frames
  pendingMessages,  \* the safety net: <<frame, text>> -> message
  overdue,     \* the safety net entries older than 30 seconds
  inFlight,    \* text -> its request's closure: the frame and the message
  cache        \* texts whose translation is cached

lineVars == <<raised, event, line, targets, pendingMessages, overdue, inFlight, cache>>
vars == <<lineVars, nameVars>>

NoEvent == [message |-> {}, frames |-> {}]

Init ==
  /\ raised = {} /\ event = NoEvent
  /\ line = [m \in Messages |-> [f \in Frames |-> ""]]
  /\ targets = <<>> /\ pendingMessages = <<>> /\ overdue = {}
  /\ inFlight = <<>> /\ cache = {}
  /\ NamesInit

-----------------------------------------------------------------------------
(* The OnEvent hook                                                        *)

(* A message reaches the client: its event is about to visit the frames.   *)
Raise(m) ==
  /\ event = NoEvent /\ m \notin raised
  /\ raised' = raised \cup {m}
  /\ event' = [message |-> {m}, frames |-> Frames]
  /\ UNCHANGED <<line, targets, pendingMessages, overdue, inFlight, cache, nameVars>>

Visits(m, f) == m \in event.message /\ f \in event.frames

VisitDone(f) ==
  event' = IF event.frames = {f} THEN NoEvent ELSE [event EXCEPT !.frames = @ \ {f}]

Show(m, f, what) == line' = [line EXCEPT ![m][f] = what]

Become(lines, what) ==
  line' = [m \in Messages |-> [f \in Frames |->
             IF <<m, f>> \in lines THEN what ELSE line[m][f]]]

(* The lines are posted with their sender's display name, now or later.    *)
ResolveNamesAndPost(sender, lines) ==
  \/ NameAtOnce(sender) /\ Become(lines, "translated")
  \/ NameAwaited(sender, lines) /\ Become(lines, "resolving")

(* origScript filtered the message out of this frame.                      *)
Filtered(m, f) ==
  /\ Visits(m, f)
  /\ VisitDone(f)
  /\ UNCHANGED <<raised, line, targets, pendingMessages, overdue, inFlight, cache, nameVars>>

(* The frame shows the message and an early exit flushes the original: the *)
(* addon is off, the line needs no translation.                            *)
FlushOriginal(m, f) ==
  /\ Visits(m, f)
  /\ Show(m, f, "original")
  /\ VisitDone(f)
  /\ UNCHANGED <<raised, targets, pendingMessages, overdue, inFlight, cache, nameVars>>

(* The line as the hook leaves it while a translation is on its way.       *)
Held == IF replaceMode THEN "held" ELSE "original"

Register(m, f) ==
  targets' = With(targets, TextOf[m],
                  IF TextOf[m] \in DOMAIN targets THEN targets[TextOf[m]] \cup {f} ELSE {f})

(* The DLL is not there: the original is flushed, but the frame has been   *)
(* registered for the text and stays so.                                   *)
FlushUnavailable(m, f) ==
  /\ Visits(m, f) /\ TextOf[m] \notin cache
  /\ Show(m, f, "original")
  /\ Register(m, f)
  /\ VisitDone(f)
  /\ UNCHANGED <<raised, pendingMessages, overdue, inFlight, cache, nameVars>>

(* The cache or the glossary has the line: posted to this frame alone.     *)
PostCached(m, f) ==
  /\ Visits(m, f) /\ TextOf[m] \in cache
  /\ ResolveNamesAndPost(SenderOf[m], {<<m, f>>})
  /\ targets' = Without(targets, TextOf[m])
  /\ VisitDone(f)
  /\ UNCHANGED <<raised, pendingMessages, overdue, inFlight, cache>>

(* Translate queues the request: the closure keeps its frame, and with     *)
(* replaceMode the safety net gets an entry.                               *)
AskQueued(m, f) ==
  LET key == <<f, TextOf[m]>> IN
  /\ Visits(m, f) /\ TextOf[m] \notin cache \cup DOMAIN inFlight
  /\ "queued" \in ApiOutcomes
  /\ Show(m, f, Held)
  /\ Register(m, f)
  /\ inFlight' = With(inFlight, TextOf[m], [frame |-> f, message |-> m])
  /\ pendingMessages' = IF replaceMode THEN With(pendingMessages, key, m) ELSE pendingMessages
  /\ overdue' = overdue \ {key}
  /\ VisitDone(f)
  /\ UNCHANGED <<raised, cache, nameVars>>

(* Translate returns false and calls nothing: an identical request is in   *)
(* flight, or it is at its cap, or the pair is known to be unsupported.    *)
AskSkipped(m, f) ==
  /\ Visits(m, f) /\ TextOf[m] \notin cache
  /\ TextOf[m] \in DOMAIN inFlight \/ "skipped" \in ApiOutcomes
  /\ Show(m, f, Held)
  /\ Register(m, f)
  /\ VisitDone(f)
  /\ UNCHANGED <<raised, pendingMessages, overdue, inFlight, cache, nameVars>>

(* The DLL answers "error|...": the callback runs before Translate returns,*)
(* when replacePendingKey is not set yet.                                  *)
AskRefused(m, f) ==
  /\ Visits(m, f) /\ TextOf[m] \notin cache \cup DOMAIN inFlight
  /\ "refused" \in ApiOutcomes
  /\ Show(m, f, Held)
  /\ targets' = Without(targets, TextOf[m])
  /\ VisitDone(f)
  /\ UNCHANGED <<raised, pendingMessages, overdue, inFlight, cache, nameVars>>

-----------------------------------------------------------------------------
(* The callback of a queued request, between two events                    *)

(* The callback's frame, and its entry in the safety net.                  *)
Asker(text) == inFlight[text].frame

KeyOfNet(text) == <<Asker(text), text>>

(* What the callback posts: a line of its own message in every frame that  *)
(* is registered for the text, whichever message registered it.            *)
AskersLines(text) ==
  {inFlight[text].message} \X (IF text \in DOMAIN targets THEN targets[text] ELSE {})

TranslatedKeepingNet(text) ==
  /\ event = NoEvent /\ text \in DOMAIN inFlight
  /\ cache' = cache \cup {text}
  /\ inFlight' = Without(inFlight, text)
  /\ ResolveNamesAndPost(SenderOf[inFlight[text].message], AskersLines(text))
  /\ targets' = Without(targets, text)
  /\ UNCHANGED <<raised, event, pendingMessages, overdue>>

(* A translation: cached, the safety net entry removed, posted to every    *)
(* frame that registered.                                                  *)
Translated(text) ==
  /\ event = NoEvent /\ text \in DOMAIN inFlight
  /\ cache' = cache \cup {text}
  /\ inFlight' = Without(inFlight, text)
  /\ pendingMessages' = Without(pendingMessages, KeyOfNet(text))
  /\ overdue' = overdue \ {KeyOfNet(text)}
  /\ ResolveNamesAndPost(SenderOf[inFlight[text].message], AskersLines(text))
  /\ targets' = Without(targets, text)
  /\ UNCHANGED <<raised, event>>

(* An error: the original of the frame that asked, if the safety net still *)
(* has it, is shown at once.                                               *)
Failed(text) ==
  LET key == KeyOfNet(text) IN
  /\ event = NoEvent /\ MayFail /\ text \in DOMAIN inFlight
  /\ inFlight' = Without(inFlight, text)
  /\ targets' = Without(targets, text)
  /\ pendingMessages' = Without(pendingMessages, key)
  /\ overdue' = overdue \ {key}
  /\ IF key \in DOMAIN pendingMessages
     THEN Show(pendingMessages[key], Asker(text), "original")
     ELSE UNCHANGED line
  /\ UNCHANGED <<raised, event, cache, nameVars>>

(* A name is known, or given up: the lines that waited for it are posted.  *)
SenderAnswered(name) ==
  /\ event = NoEvent
  /\ NameAnswered(name)
  /\ Become(Waiting({name}), "translated")
  /\ UNCHANGED <<raised, event, targets, pendingMessages, overdue, inFlight, cache>>

SendersWatched(names) ==
  /\ event = NoEvent
  /\ NameRetryOnUpdate(names)
  /\ Become(Waiting(names), "translated")
  /\ UNCHANGED <<raised, event, targets, pendingMessages, overdue, inFlight, cache>>

-----------------------------------------------------------------------------
(* The safety net                                                          *)

(* An entry turns 30 seconds old.                                          *)
TimePasses ==
  /\ event = NoEvent
  /\ \E key \in DOMAIN pendingMessages \ overdue : overdue' = overdue \cup {key}
  /\ UNCHANGED <<raised, event, line, targets, pendingMessages, inFlight, cache, nameVars>>

(* CleanupPendingMessages: every overdue original is shown.                *)
CleanupPendingMessages ==
  /\ event = NoEvent /\ overdue # {}
  /\ line' = [m \in Messages |-> [f \in Frames |->
                IF \E key \in overdue : key[1] = f /\ pendingMessages[key] = m
                THEN "original" ELSE line[m][f]]]
  /\ pendingMessages' = Restrict(pendingMessages, DOMAIN pendingMessages \ overdue)
  /\ overdue' = {}
  /\ UNCHANGED <<raised, event, targets, inFlight, cache, nameVars>>

Visit == \E m \in Messages, f \in Frames :
  \/ Filtered(m, f) \/ FlushOriginal(m, f) \/ FlushUnavailable(m, f) \/ PostCached(m, f)
  \/ AskQueued(m, f) \/ AskSkipped(m, f) \/ AskRefused(m, f)

Answer(text) == Translated(text) \/ Failed(text)

Next ==
  \/ \E m \in Messages : Raise(m)
  \/ Visit
  \/ \E text \in Texts : Answer(text)
  \/ \E name \in Senders : SenderAnswered(name)
  \/ \E names \in SUBSET Senders : SendersWatched(names)
  \/ TimePasses \/ CleanupPendingMessages

(* The event loop finishes a message; a queued request is answered         *)
(* (AlwaysAnswered of AddonApi); the frame that watches names is shown     *)
(* while it watches any, and no watch is for ever.  Nothing is assumed of  *)
(* the safety net.                                                         *)
Fairness ==
  /\ WF_vars(Visit)
  /\ \A text \in Texts : SF_vars(Answer(text))
  /\ \A name \in Senders : SF_vars(SenderAnswered(name))
  /\ \A name \in Senders :
       SF_vars(\E names \in SUBSET Senders : name \in names /\ SendersWatched(names))

Spec == Init /\ [][Next]_vars /\ Fairness

-----------------------------------------------------------------------------
(* Properties                                                              *)

TypeOK ==
  /\ raised \subseteq Messages
  /\ event \in [message : SUBSET Messages, frames : SUBSET Frames]
  /\ line \in [Messages -> [Frames -> LineStates]]
  /\ DOMAIN targets \subseteq Texts /\ Range(targets) \subseteq SUBSET Frames
  /\ DOMAIN pendingMessages \subseteq Frames \X Texts /\ Range(pendingMessages) \subseteq Messages
  /\ overdue \subseteq DOMAIN pendingMessages
  /\ DOMAIN inFlight \subseteq Texts
  /\ Range(inFlight) \subseteq [frame : Frames, message : Messages]
  /\ cache \subseteq Texts
  /\ DOMAIN pendingNameTranslations \subseteq Senders
  /\ Range(pendingNameTranslations) \subseteq SUBSET (Messages \X Frames)

(* A chat line that replaceMode has held back is shown in the end, as its  *)
(* translation or as the original.                                         *)
HeldLineAppears ==
  \A m \in Messages, f \in Frames :
    line[m][f] = "held" ~> line[m][f] \in {"original", "translated"}

(* The addon still owes the line its translation: the message has asked for*)
(* it and the frame is registered for the text, by whichever message; or   *)
(* the translation is there and waits for the sender's name.               *)
Owed(m, f) ==
  \/ \E text \in DOMAIN inFlight \cap DOMAIN targets :
        inFlight[text].message = m /\ f \in targets[text]
  \/ line[m][f] = "resolving"

(* Such a line is posted, unless the request for it fails.  A line that    *)
(* waits for a name has no safety net any more, so every name somebody     *)
(* waits for must have a request or a watch that will call back, whatever  *)
(* older watches and late answers for the same name have called before.    *)
(* Lines of other messages that say the same are not posted (2854-2870):   *)
(* the asker's line in their frame is all they get.                        *)
OwedLineAppears ==
  \A m \in Messages, f \in Frames :
    Owed(m, f) ~> \/ line[m][f] = "translated"
                  \/ TextOf[m] \notin DOMAIN inFlight \cup cache
=============================================================================
