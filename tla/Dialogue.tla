----------------------------- MODULE Dialogue -----------------------------
(***************************************************************************)
(* Model checking of what passes between the model and its agent: the      *)
(* conversation, the windows a reader of a file follows, the home.* calls  *)
(* of the turns that share a home, the search of the workspace, and the    *)
(* calls of the tools of a stdio server (their liveness: McpServers).  A   *)
(* behaviour is one of the five; the others do not begin.                  *)
(***************************************************************************)
EXTENDS Conversation, ReadWindow, HomeTools, LocalSearch, McpActor

VARIABLE topic

dialogueVars == <<conversationVars, windowVars, homeVars, searchVars, clientVars, topic>>

\* One initial state of the parts that do not run is enough.
DialogueInit ==
    /\ topic \in {"conversation", "window", "home", "search", "server"}
    /\ ConversationInit
    /\ topic # "window" => content = <<>> /\ start = 0
    /\ ActorInit
    /\ topic # "home" => readable = Legacy
    /\ topic # "search" => scope = Legacy
    /\ WindowInit
    /\ HomeInit
    /\ topic # "home" => tree[Link].to = Note
    /\ SearchInit
    /\ topic # "search" => files[Alias].to = Main /\ files[Main] = Text /\ files[Guide] = Text

DialogueNext ==
    \/ topic = "conversation" /\ ConversationNext /\ UNCHANGED <<windowVars, homeVars, searchVars, clientVars, topic>>
    \/ topic = "window" /\ WindowNext /\ UNCHANGED <<conversationVars, homeVars, searchVars, clientVars, topic>>
    \/ topic = "home" /\ HomeNext /\ UNCHANGED <<conversationVars, windowVars, searchVars, clientVars, topic>>
    \/ topic = "search" /\ SearchNext /\ UNCHANGED <<conversationVars, windowVars, homeVars, clientVars, topic>>
    \/ topic = "server" /\ ActorNext /\ UNCHANGED <<conversationVars, windowVars, homeVars, searchVars, topic>>

DialogueSpec == DialogueInit /\ [][DialogueNext]_dialogueVars

\* What the file tools show of a file: the windows of a reader that follows next_offset make
\* up the text, and the search shows what read_file opens (read_window.rs, local_tools.rs).
FilesShown == ReaderServed /\ HitsAreReadable
=============================================================================
