------------------------------- MODULE Screen -------------------------------
(***************************************************************************)
(* What the firmware promises about the e-paper panel, without tasks,      *)
(* locks or counters.  The state behind the screen has a version; tasks    *)
(* write new versions and ask for a repaint; a repaint shows the version   *)
(* that is current when it ends, never a torn or an older one; and a       *)
(* version that was asked for is eventually on the panel.                  *)
(***************************************************************************)
EXTENDS Naturals

CONSTANTS Clients,     \* the tasks that ask for a repaint
          MaxContent   \* bound: versions written in one behaviour

VARIABLES content,     \* newest version of the state render() draws
          painted,     \* version on the panel
          asked        \* per client, the version its newest request covers

screenVars == <<content, painted, asked>>

ScreenInit ==
  /\ content = 0
  /\ painted = 0
  /\ asked = [c \in Clients |-> 0]

Write ==
  /\ content < MaxContent
  /\ content' = content + 1
  /\ UNCHANGED <<painted, asked>>

Ask(c) ==
  /\ asked' = [asked EXCEPT ![c] = content]
  /\ UNCHANGED <<content, painted>>

Paint ==
  /\ painted' = content
  /\ UNCHANGED <<content, asked>>

Owed == \E c \in Clients : painted < asked[c]

ScreenNext == Write \/ (\E c \in Clients : Ask(c)) \/ Paint

ScreenSpec ==
  /\ ScreenInit
  /\ [][ScreenNext]_screenVars
  /\ WF_screenVars(Owed /\ Paint)

=============================================================================
