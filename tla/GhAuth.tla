------------------------------- MODULE GhAuth -------------------------------
(***************************************************************************)
(* The device login of gh in a VM: the panel starts it, a user approves it *)
(* at GitHub, the panel polls, and a poll that gets the token has a script *)
(* save it in the VM (GuestExec).  Logout is a script of its own.          *)
(***************************************************************************)
EXTENDS GuestExec

CONSTANTS
    Accounts,
    DeviceCodes   \* bound: device codes that are not used up

VARIABLES
    codes,    \* the device codes that a poll may still use
    holds,    \* the account of the token that a poll has got
    auth      \* what gh and git have stored in the VM

login == <<codes, holds, auth>>

-----------------------------------------------------------------------------
NoAuth == [token |-> None, name |-> None, email |-> None]

\* The script of a poll reads LOGIN, NAME and EMAIL from GitHub.
Scripts == [kind : {"login", "logout"}, arg : Accounts \cup {None},
            at : {"login", "setup", "ask", "name", "email",
                  "out", "unname", "unmail", "ok", "bad"},
            saw : UNION {[1..n -> Accounts] : n \in 0..3},
            alone : BOOLEAN]

InitLogin ==
    /\ codes = {}
    /\ holds = [t \in Threads |-> None]
    /\ auth = NoAuth

Idle(t) == waits[t] = None /\ holds[t] = None

-----------------------------------------------------------------------------
(* GitHub and the handlers *)

\* vm_gh_auth_start gets a new code; its own script only looks for gh.
AuthStart(t) ==
    /\ Idle(t)
    /\ \E c \in DeviceCodes \ codes : codes' = codes \cup {c}
    /\ UNCHANGED <<exec, holds, auth>>

\* GitHub answers a poll with the token of the user who has approved the code,
\* once; the answer may be lost.  authorization_pending changes nothing.
Poll(t, c) ==
    /\ Idle(t)
    /\ c \in codes
    /\ codes' = codes \ {c}
    /\ \E a \in Accounts \cup {None} : holds' = [holds EXCEPT ![t] = a]
    /\ UNCHANGED <<exec, auth>>

\* expired_token or access_denied, whether a poll learns of it or not.
Expires(c) ==
    /\ c \in codes
    /\ codes' = codes \ {c}
    /\ UNCHANGED <<exec, holds, auth>>

Save(t, s) ==
    /\ holds[t] # None
    /\ Launch(t, s, "login", holds[t], "login")
    /\ holds' = [holds EXCEPT ![t] = None]
    /\ UNCHANGED <<codes, auth>>

\* qm fails before the script is started: the token is lost.
SaveFails(t) ==
    /\ holds[t] # None
    /\ holds' = [holds EXCEPT ![t] = None]
    /\ UNCHANGED <<exec, codes, auth>>

Logout(t, s) ==
    /\ Idle(t)
    /\ Launch(t, s, "logout", None, "out")
    /\ UNCHANGED login

\* The agent is killed with the tokens it holds.
Forgotten ==
    /\ holds' = [t \in Threads |-> None]
    /\ UNCHANGED <<codes, auth>>

-----------------------------------------------------------------------------
(* save_script *)

\* Mutant of LoginFails: without set -e the script goes on when gh auth login
\* has failed.
LoginFailsOn(s) ==
    /\ At(s, "login", "login")
    /\ Go(s, "setup")
    /\ UNCHANGED login

\* set -e
LoginFails(s) ==
    /\ script[s] # None /\ script[s].kind = "login"
    /\ Breaks(s)
    /\ UNCHANGED login

\* gh auth login --with-token checks the token and stores it.
GhLogin(s) ==
    /\ At(s, "login", "login")
    /\ auth' = [auth EXCEPT !.token = script[s].arg]
    /\ Go(s, "setup")
    /\ UNCHANGED <<codes, holds>>

\* gh auth setup-git wants a login, and makes gh the credential helper of git.
SetupGit(s) ==
    /\ At(s, "login", "setup")
    /\ auth.token # None
    /\ Go(s, "ask")
    /\ UNCHANGED login

\* gh api user, three times, each of whoever is logged in.
AskUser(s) ==
    /\ At(s, "login", "ask")
    /\ auth.token # None
    /\ Reads(s, auth.token, IF Len(script[s].saw) < 2 THEN "ask" ELSE "name")
    /\ UNCHANGED login

SetName(s) ==
    /\ At(s, "login", "name")
    /\ auth' = [auth EXCEPT !.name = script[s].saw[2]]
    /\ Go(s, "email")
    /\ UNCHANGED <<codes, holds>>

\* EMAIL, or LOGIN@users.noreply.github.com where there is none.
SetEmail(s) ==
    /\ At(s, "login", "email")
    /\ \E i \in {1, 3} : auth' = [auth EXCEPT !.email = script[s].saw[i]]
    /\ EndAt(s, "ok")
    /\ UNCHANGED <<codes, holds>>

-----------------------------------------------------------------------------
(* The script of logout: || true passes over what fails *)

Out(s) ==
    /\ At(s, "logout", "out")
    /\ auth' \in {auth, [auth EXCEPT !.token = None]}
    /\ Go(s, "unname")
    /\ UNCHANGED <<codes, holds>>

Unname(s) ==
    /\ At(s, "logout", "unname")
    /\ auth' \in {auth, [auth EXCEPT !.name = None]}
    /\ Go(s, "unmail")
    /\ UNCHANGED <<codes, holds>>

Unmail(s) ==
    /\ At(s, "logout", "unmail")
    /\ auth' \in {auth, [auth EXCEPT !.email = None]}
    /\ EndAt(s, "ok")
    /\ UNCHANGED <<codes, holds>>

LoginStep(s) ==
    \/ GhLogin(s) \/ SetupGit(s) \/ AskUser(s) \/ SetName(s) \/ SetEmail(s)
    \/ LoginFails(s)
    \/ Out(s) \/ Unname(s) \/ Unmail(s)

-----------------------------------------------------------------------------
(* Properties *)

\* Every variable of the login has its type.
LoginTypeOK ==
    /\ codes \subseteq DeviceCodes
    /\ holds \in [Threads -> Accounts \cup {None}]
    /\ auth \in [token : Accounts \cup {None}, name : Accounts \cup {None},
                 email : Accounts \cup {None}]

\* A poll that answers completed has logged in whoever approved the device
\* code, has told so, and has given git that name and email, unless another
\* login or logout was asked for meanwhile; whoever was logged in before, and
\* whichever command of save_script fails.
CompletedLogsIn ==
    [][\A t \in Threads : Reply(t, TRUE) =>
         LET s == script[waits[t]] IN
         s.kind = "login" /\ s.alone =>
             /\ auth = [token |-> s.arg, name |-> s.arg, email |-> s.arg]
             /\ s.saw = <<s.arg, s.arg, s.arg>>]_<<exec, login>>
=============================================================================
