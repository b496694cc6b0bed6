--------------------------------- MODULE Link ---------------------------------
(***************************************************************************)
(* What the activity page may rely on from its event stream: while it is   *)
(* mounted for a workspace it may be connected, to the workspace some      *)
(* token named, and it is told of nothing else. TokenStream implements it, *)
(* CompileFeed is built on it.                                             *)
(***************************************************************************)
CONSTANTS Workspaces, None

VARIABLES
  page,  \* the activity page is mounted
  ws,    \* the workspace its effect subscribed for, None when it did not
  conn   \* the workspace whose events reach it, None when not connected

linkVars == <<page, ws, conn>>

LinkInit == page = FALSE /\ ws = None /\ conn = None

Enter == ~page /\ page' = TRUE /\ ws' \in Workspaces \cup {None} /\ conn' = None
Leave == page /\ page' = FALSE /\ ws' = None /\ conn' = None
ReKey == page /\ ws' \in Workspaces \cup {None} /\ conn' = None /\ UNCHANGED page
Up    == ws # None /\ conn = None /\ conn' \in Workspaces /\ UNCHANGED <<page, ws>>
Down  == conn # None /\ conn' = None /\ UNCHANGED <<page, ws>>

LinkNext == Enter \/ Leave \/ ReKey \/ Up \/ Down

LinkSpec == LinkInit /\ [][LinkNext]_linkVars

=============================================================================
