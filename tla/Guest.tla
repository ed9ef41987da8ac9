------------------------------- MODULE Guest -------------------------------
(***************************************************************************)
(* What the agent does inside a VM: the projects, the login of gh and the  *)
(* editor.  They share the threads of the agent, the guest agent that runs *)
(* their scripts, and the VM, which stops under all of them.               *)
(***************************************************************************)
EXTENDS Projects

CONSTANTS
    Accounts, DeviceCodes,   \* of GhAuth
    Configs,                 \* of Editor
    Parts,                   \* bound: a behaviour has the requests of one part
    ToolThreads              \* bound: threads that serve login and editor

VARIABLES
    codes, holds, auth,    \* of GhAuth
    bin, conf, server,    \* of Editor
    part                  \* the part whose requests this behaviour has

A == INSTANCE GhAuth
E == INSTANCE Editor

ASSUME GuestAssumption ==
    /\ None \notin Accounts \cup Configs \cup A!Scripts \cup E!Scripts
    /\ None \notin [token : Configs, unit : Configs]
    /\ "torn" \notin Configs
    /\ Parts \subseteq {"projects", "login", "editor"}
    /\ ToolThreads \subseteq Threads

tools == <<codes, holds, auth, bin, conf, server>>
all == <<vars, tools, part>>

-----------------------------------------------------------------------------
GuestInit ==
    /\ part \in Parts
    /\ Init
    /\ part # "projects" => tree = None
    /\ A!InitLogin
    /\ E!InitEditor

\* A thread that has a token uses it before it serves anything else.
AskProject(t, s) ==
    /\ part = "projects"
    /\ holds[t] = None
    /\ Ask(t, s)
    /\ UNCHANGED <<tools, part>>

AskLogin(t, s) ==
    /\ part = "login"
    /\ t \in ToolThreads
    /\ A!Save(t, s) \/ A!Logout(t, s)
    /\ UNCHANGED <<files, bin, conf, server, part>>

AskEditor(t, s) ==
    /\ part = "editor"
    /\ t \in ToolThreads
    /\ E!Install(t, s) \/ E!Configure(t, s) \/ E!StopEditor(t, s)
    /\ UNCHANGED <<files, codes, holds, auth, part>>

AtGithub ==
    /\ part = "login"
    /\ \/ \E t \in ToolThreads : A!AuthStart(t) \/ A!SaveFails(t)
       \/ \E t \in ToolThreads, c \in DeviceCodes : A!Poll(t, c)
       \/ \E c \in DeviceCodes : A!Expires(c)
    /\ UNCHANGED <<files, bin, conf, server, part>>

AnyAnswer(t) == Answer(t) /\ UNCHANGED <<tools, part>>

AnyLost(t) == NoAnswer(t) /\ UNCHANGED <<tools, part>>

Runs(s) ==
    \/ part = "projects" /\ ScriptStep(s) /\ UNCHANGED <<tools, part>>
    \/ part = "login" /\ A!LoginStep(s) /\ UNCHANGED <<files, bin, conf, server, part>>
    \/ part = "editor" /\ E!EditorStep(s) /\ UNCHANGED <<files, codes, holds, auth, part>>

Systemd == E!Respawn /\ UNCHANGED <<files, codes, holds, auth, part>>

GuestStops == VmStops /\ E!EditorDown /\ UNCHANGED <<codes, holds, auth, part>>

GuestCrash == AgentCrash /\ A!Forgotten /\ UNCHANGED <<bin, conf, server, part>>

GuestNext ==
    \/ \E t \in Threads, s \in Slots : AskProject(t, s) \/ AskLogin(t, s) \/ AskEditor(t, s)
    \/ \E t \in Threads : AnyAnswer(t) \/ AnyLost(t)
    \/ \E s \in Slots : Runs(s)
    \/ AtGithub
    \/ Systemd
    \/ GuestStops
    \/ GuestCrash

GuestSpec == GuestInit /\ [][GuestNext]_all

-----------------------------------------------------------------------------
(* Properties, with EnvWhole, CloneKeepsProject and OkMeansDone            *)

\* Every variable of the three parts has its type.
GuestTypeOK ==
    /\ waits \in [Threads -> Slots \cup {None}]
    /\ script \in [Slots -> Scripts \cup A!Scripts \cup E!Scripts \cup {None}]
    /\ FilesTypeOK
    /\ A!LoginTypeOK
    /\ E!EditorTypeOK

\* A completed poll has logged in the account that approved it.
CompletedLogsIn == A!CompletedLogsIn

\* An install that answers installed has left the whole of the server, unless
\* it has found BIN there.
InstalledWhole == E!InstalledWhole

\* A configure that answers ok leaves no server with another port or token.
ConfiguredRuns == E!ConfiguredRuns
=============================================================================
