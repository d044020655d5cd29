----------------------------- MODULE ChatLines -----------------------------
(***************************************************************************)
(* What the player sees of the chat: the lines of each chat frame, and     *)
(* what the hook (ChatFrames) promises about them whatever it keeps behind *)
(* them.                                                                   *)
(***************************************************************************)
CONSTANTS
  Frames,         \* chat frames
  Messages        \* chat lines that are raised, each once

VARIABLE line     \* what each frame shows of each message

(* "" is a line the frame never got, "held" one whose AddMessage the hook  *)
(* has swallowed, "resolving" one whose translation waits for a name,      *)
(* "translated" one whose translation is posted.  Without replaceMode a    *)
(* translation joins an original that stays on the screen.                 *)
LineStates == {"", "held", "resolving", "original", "translated"}

(* The safety net never prints the original of a line whose translation is *)
(* there, on the screen or waiting for a name ("causes the original to     *)
(* reappear 30s later even when translation succeeded", the defect its     *)
(* comment warns of).                                                      *)
NoReappearance ==
  [][\A m \in Messages, f \in Frames :
       line[m][f] \in {"resolving", "translated"}
         => line'[m][f] \in {"resolving", "translated"}]_line
=============================================================================
