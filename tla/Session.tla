------------------------------ MODULE Session ------------------------------
(***************************************************************************)
(* The login of the service: auth.State, the wrapper that imports a        *)
(* session file when a login is needed (cmd/miner-server/session_auto.go), *)
(* the cookie file and the session file, the start of the service, and     *)
(* those who act beside it: Twitch, which may revoke a token, the owner of *)
(* the account and the exporter that write session files.  Android client, *)
(* the only one the program builds.                                        *)
(***************************************************************************)
EXTENDS Integers

CONSTANTS
    Users, Tokens,
    Owner,        \* [Tokens -> Users]
    Callers,      \* goroutines that call Validate, and read the token after it
    Main,         \* the goroutine that starts the service
    Nobody,       \* no token, user, goroutine, or content of a file
    Garbled,      \* a session file ReadSession refuses
    MaxUploads,   \* bound: session files written, or tried to
    MaxFaults     \* bound: failing requests and calls, crashes

ASSUME SessionAssumption ==
    /\ Owner \in [Tokens -> Users]
    /\ Main \notin Callers /\ Garbled \notin Tokens /\ Garbled # Nobody
    /\ Nobody \notin Users \cup Tokens \cup Callers \cup {Main}
    /\ MaxUploads \in Nat /\ MaxFaults \in Nat

VARIABLES
    valid,        \* tokens Twitch takes, from this client
    cookies,      \* the auth-token in the cookie file
    jar,          \* the one in memory
    file,         \* the session file, and the number of the write it is of
    uploads,      \* session files written, or tried to, so far
    fileLock,     \* who holds the lock of the session file
    phase,        \* of the service
    held,         \* accessToken
    user, bound,  \* userID, boundUserID
    fresh,        \* now is before lastValidatedAt + revalidateInterval
    device,       \* deviceID is known
    job,          \* the Validate or ImportSession under way
    stage,        \* by caller
    given,        \* history: the credential the owner counts on
    faults

twitch == <<valid>>
files == <<cookies, file, uploads, given>>
account == <<held, user, bound, fresh, device>>
vars == <<valid, cookies, jar, file, uploads, fileLock, phase, held, user, bound, fresh,
          device, job, stage, given, faults>>

\* Where a Validate or an ImportSession is: it asks Twitch about a token and,
\* if it is accepted, adopts it; the token is from the state or its jar, from
\* the session file, or from the browser.
Adopting == {"cookies", "save", "token", "user"}
Importing == {"open", "lock", "read", "compare", "remove"}
Steps == {"none", "begin", "ask", "login", "device", "end"} \cup Adopting \cup Importing

Jobs == [by : Callers \cup {Main, Nobody}, at : Steps,
         token : Tokens \cup {Nobody, Garbled}, from : {"state", "file", "browser"},
         mark : 0 .. MaxUploads, again : BOOLEAN, dead : SUBSET Tokens]

NoJob == [by |-> Nobody, at |-> "none", token |-> Nobody, from |-> "state",
          mark |-> 0, again |-> FALSE, dead |-> {}]

\* The steps of an import during which the lock of the session file is held.
UnderFileLock(j) == j.from = "file" /\ j.at \notin {"open", "lock"}

TypeOK ==
    /\ valid \subseteq Tokens
    /\ {cookies, jar, held, given} \subseteq Tokens \cup {Nobody}
    /\ uploads \in 0 .. MaxUploads
    /\ file \in [content : Tokens \cup {Nobody, Garbled}, serial : 0 .. uploads]
    /\ phase \in {"down", "greeting", "binding", "running"}
    /\ {user, bound} \subseteq Users \cup {Nobody}
    /\ {fresh, device} \subseteq BOOLEAN
    /\ job \in Jobs /\ stage \in [Callers -> {"idle", "wants", "inside"}]
    /\ fileLock \in {"free", "service", "exporter"}
    /\ fileLock = "service" <=> UnderFileLock(job)
    /\ \A c \in Callers : job.by = c <=> stage[c] = "inside"
    /\ faults \in 0 .. MaxFaults

Forgotten ==
    /\ jar = Nobody /\ held = Nobody /\ user = Nobody /\ bound = Nobody
    /\ fresh = FALSE /\ device = FALSE /\ job = NoJob
    /\ stage = [c \in Callers |-> "idle"]

Init ==
    /\ valid = Tokens
    /\ cookies = Nobody
    /\ file = [content |-> Nobody, serial |-> 0] /\ uploads = 0
    /\ fileLock = "free" /\ phase = "down" /\ Forgotten
    /\ given = Nobody /\ faults = 0

Fault == faults < MaxFaults /\ faults' = faults + 1

-----------------------------------------------------------------------------
(* Twitch, the clock, and the writers of session files *)

Revoke ==
    /\ \E t \in valid : valid' = valid \ {t}
    /\ UNCHANGED <<files, jar, fileLock, phase, account, job, stage, faults>>

IntervalPasses ==
    /\ fresh /\ fresh' = FALSE
    /\ UNCHANGED <<twitch, files, jar, fileLock, phase, held, user, bound, device, job,
                   stage, faults>>

\* The exporter keeps to the lock of the file, and WriteSession puts the new
\* file in place in one rename.
ExportStarts ==
    /\ uploads < MaxUploads /\ fileLock = "free" /\ fileLock' = "exporter"
    /\ UNCHANGED <<twitch, files, jar, phase, account, job, stage, faults>>

WriteSession(content) ==
    /\ uploads < MaxUploads
    /\ file' = [content |-> content, serial |-> uploads + 1]
    /\ uploads' = uploads + 1

ExportEnds ==
    /\ fileLock = "exporter" /\ fileLock' = "free"
    /\ \/ \E t \in Tokens : WriteSession(t) /\ given' = t
       \/ /\ uploads' = IF uploads < MaxUploads THEN uploads + 1 ELSE uploads
          /\ UNCHANGED <<file, given>>
    /\ UNCHANGED <<twitch, cookies, jar, phase, account, job, stage, faults>>

\* Someone copies a file there without the lock.  One that lands between the
\* service's last look at the file and its removal is lost; the code cannot
\* see it, and it is not counted on here.
Upload ==
    /\ \E content \in Tokens \cup {Garbled} :
         /\ WriteSession(content)
         /\ given' = IF content = Garbled \/ job.at = "remove" THEN Nobody ELSE content
    /\ UNCHANGED <<twitch, cookies, jar, fileLock, phase, account, job, stage, faults>>

-----------------------------------------------------------------------------
(* The start of the service, and its end *)

\* miner-server -login and -import-session, which the instance lock keeps out
\* while the service runs.  They import a token as the service does, in a
\* process of their own.
LoginOffline ==
    /\ phase = "down"
    /\ \E t \in valid : cookies' = t
    /\ given' = Nobody
    /\ UNCHANGED <<twitch, jar, file, uploads, fileLock, phase, account, job, stage,
                   faults>>

\* A call keeps, as history, which of the tokens it may start from were
\* revoked before it, if the interval had passed.
Starting(c) ==
    [by |-> c, at |-> "begin", token |-> Nobody, from |-> "state", mark |-> 0,
     again |-> FALSE,
     dead |-> IF fresh THEN {} ELSE {held, jar, cookies} \ (valid \cup {Nobody})]

\* With a terminal main first calls ensureStartupLogin, without one it goes
\* straight to initializeAccountProgress.
Start ==
    /\ phase = "down" /\ phase' \in {"greeting", "binding"}
    /\ jar' = cookies /\ job' = Starting(Main)
    /\ UNCHANGED <<twitch, files, fileLock, account, stage, faults>>

Release == fileLock' = IF UnderFileLock(job) THEN "free" ELSE fileLock

GoesDown ==
    /\ phase' = "down" /\ Release
    /\ jar' = Nobody /\ held' = Nobody /\ user' = Nobody /\ bound' = Nobody
    /\ fresh' = FALSE /\ device' = FALSE /\ job' = NoJob
    /\ stage' = [c \in Callers |-> "idle"]

\* A save of the jar that may fail; then it leaves the old file, or, when only
\* the removal of its backup fails, the new one.
SavedOrNot ==
    \/ UNCHANGED <<cookies, given>>
    \/ cookies' = jar /\ given' = IF job.from = "browser" THEN Nobody ELSE given

\* On its way out main closes the HTTP client, which saves the jar.
Closes ==
    /\ IF phase' = "down" THEN SavedOrNot ELSE UNCHANGED <<cookies, given>>
    /\ UNCHANGED <<file, uploads>>

\* It is stopped, after ten seconds even with calls under way, or killed.
Stops ==
    /\ phase # "down" /\ Fault /\ GoesDown /\ Closes
    /\ UNCHANGED twitch

-----------------------------------------------------------------------------
(* How a call ends: "ok", "error", or "login" for ErrLoginRequired *)

\* BindUser follows the Validate of initializeAccountProgress; nobody else
\* runs yet.
BindUser ==
    /\ phase' = "running" /\ bound' = user /\ job' = NoJob /\ Release
    /\ UNCHANGED <<jar, held, user, fresh, device, stage>>

MainReturns(result) ==
    IF phase = "binding"
    THEN IF result = "ok" THEN BindUser ELSE GoesDown
    ELSE /\ phase' = "binding"
         /\ job' = Starting(Main) /\ Release
         /\ UNCHANGED <<jar, account, stage>>

Returns(result) ==
    IF job.by = Main THEN MainReturns(result)
    ELSE /\ stage' = [stage EXCEPT ![job.by] = "idle"]
         /\ job' = NoJob /\ Release
         /\ UNCHANGED <<phase, jar, account>>

Fails ==
    IF phase = "greeting" /\ job.from = "browser"
    THEN GoesDown
    ELSE Returns("error")

Advance(at) ==
    /\ job' = [job EXCEPT !.at = at]
    /\ UNCHANGED <<fileLock, phase, stage>>

\* A login is needed: portableAuthState looks for a session file, once.
LoginRequired ==
    IF job.again
    THEN job' = [job EXCEPT !.at = "login"]
    ELSE job' = [job EXCEPT !.at = "open", !.from = "file"]

\* interactiveLogin imports what the browser brings; without a terminal, and
\* in a running service, the call fails.
NoLogin ==
    /\ job.at = "login"
    /\ \/ /\ phase = "greeting"
          /\ \E t \in Tokens \cup {Garbled} :
               job' = [job EXCEPT !.at = "ask", !.from = "browser", !.token = t]
          /\ UNCHANGED <<fileLock, phase, jar, account, stage>>
       \/ phase # "greeting" /\ Returns("login")
    /\ Closes
    /\ UNCHANGED <<twitch, faults>>

-----------------------------------------------------------------------------
(* Validate *)

Wants(c) ==
    /\ phase = "running" /\ stage[c] = "idle"
    /\ stage' = [stage EXCEPT ![c] = "wants"]
    /\ UNCHANGED <<twitch, files, jar, fileLock, phase, account, job, faults>>

Enters(c) ==
    /\ stage[c] = "wants" /\ job = NoJob
    /\ stage' = [stage EXCEPT ![c] = "inside"]
    /\ job' = Starting(c)
    /\ UNCHANGED <<twitch, files, jar, fileLock, phase, account, faults>>

\* Mutant of Authenticated: the interval is not looked at.
AuthenticatedForever == held # Nobody /\ user # Nobody

Authenticated == held # Nobody /\ user # Nobody /\ fresh

Begin ==
    /\ job.at = "begin"
    /\ IF Authenticated THEN Advance("device") /\ UNCHANGED <<jar, account>>
       ELSE LET token == IF held # Nobody THEN held ELSE jar IN
            /\ IF token = Nobody THEN LoginRequired
               ELSE job' = [job EXCEPT !.at = "ask", !.token = token]
            /\ UNCHANGED <<fileLock, phase, jar, account, stage>>
    /\ UNCHANGED <<twitch, files, faults>>

\* Mutant of MayUse: any account may take over.
MayUseAny(t) == TRUE

\* checkBoundUser
MayUse(t) == bound \in {Nobody, Owner[t]}

\* Twitch takes the token, and it is this user's.
Accepted ==
    /\ job.at = "ask"
    /\ job.token \in valid /\ MayUse(job.token)
    /\ Advance("cookies")
    /\ UNCHANGED <<twitch, files, jar, account, faults>>

\* Mutant of Refused: a 401 is an error like another.
RefusedError ==
    /\ job.at = "ask" /\ job.token \notin valid
    /\ Fails /\ Closes
    /\ UNCHANGED <<twitch, faults>>

\* It does not take it (401), or names another client: the state forgets it,
\* and the jar keeps it; an import changes nothing.
Refused ==
    /\ job.at = "ask" /\ job.token \notin valid
    /\ IF job.from = "state"
       THEN /\ held' = Nobody /\ user' = Nobody
            /\ LoginRequired
            /\ UNCHANGED <<bound, fresh, device, fileLock, phase, jar, stage>>
       ELSE Fails
    /\ Closes
    /\ UNCHANGED <<twitch, faults>>

\* It is of another user than the one this run of the service is bound to.
OtherUser ==
    /\ job.at = "ask" /\ job.token \in valid /\ ~ MayUse(job.token)
    /\ Fails /\ Closes
    /\ UNCHANGED <<twitch, faults>>

\* The request fails, or the answer is neither 200 nor 401.
AskFails ==
    /\ job.at = "ask" /\ Fault /\ Fails /\ Closes
    /\ UNCHANGED twitch

\* Mutant of SetCookies: the jar is not saved.
SetCookiesUnsaved ==
    /\ job.at = "cookies" /\ jar' = job.token
    /\ Advance("token")
    /\ UNCHANGED <<twitch, files, account, faults>>

\* A token that was accepted goes to the jar, to the cookie file, and only
\* then into the state, its user after it.
SetCookies ==
    /\ job.at = "cookies" /\ jar' = job.token
    /\ Advance("save")
    /\ UNCHANGED <<twitch, files, account, faults>>

SaveCookies ==
    /\ job.at = "save" /\ cookies' = jar
    /\ given' = IF job.from = "browser" THEN Nobody ELSE given
    /\ Advance("token")
    /\ UNCHANGED <<twitch, file, uploads, jar, account, faults>>

SaveFails ==
    /\ job.at = "save" /\ Fault
    /\ Fails /\ SavedOrNot
    /\ UNCHANGED <<twitch, file, uploads>>

SetAccessToken ==
    /\ job.at = "token" /\ held' = job.token
    /\ Advance("user")
    /\ UNCHANGED <<twitch, files, jar, user, bound, fresh, device, faults>>

SetValidatedAccessState ==
    /\ job.at = "user" /\ user' = Owner[job.token] /\ fresh' = TRUE
    /\ Advance(CASE job.from = "state" -> "device"
                 [] job.from = "file" -> "compare"
                 [] job.from = "browser" -> "end")
    /\ UNCHANGED <<twitch, files, jar, held, bound, device, faults>>

\* ensureDeviceID needs no login.
DeviceKnown ==
    /\ job.at = "device" /\ device' = TRUE
    /\ Advance("end")
    /\ UNCHANGED <<twitch, files, jar, held, user, bound, fresh, faults>>

DeviceFails ==
    /\ job.at = "device" /\ ~ device /\ Fault /\ Returns("error") /\ Closes
    /\ UNCHANGED twitch

Succeeds ==
    /\ job.at = "end" /\ Returns("ok")
    /\ UNCHANGED <<twitch, files, faults>>

-----------------------------------------------------------------------------
(* importDefaultSession *)

\* The first look at the file is before the lock.
Looks ==
    /\ job.at = "open"
    /\ job' = IF file.content = Nobody THEN [job EXCEPT !.at = "login", !.from = "state"]
              ELSE [job EXCEPT !.at = "lock"]
    /\ UNCHANGED <<twitch, files, jar, fileLock, phase, account, stage, faults>>

Locks ==
    /\ job.at = "lock"
    /\ \/ /\ fileLock = "free" /\ fileLock' = "service"
          /\ job' = [job EXCEPT !.at = "read"]
          /\ UNCHANGED <<phase, jar, account, stage, faults>>
       \/ Fault /\ Returns("error")
    /\ Closes
    /\ UNCHANGED twitch

ReadSession ==
    /\ job.at = "read"
    /\ \/ /\ file.content = Nobody
          /\ job' = [job EXCEPT !.at = "login", !.from = "state"] /\ Release
          /\ UNCHANGED <<phase, jar, account, stage>>
       \/ file.content = Garbled /\ Returns("error")
       \/ /\ file.content \in Tokens
          /\ job' = [job EXCEPT !.at = "ask", !.token = file.content, !.mark = file.serial]
          /\ UNCHANGED <<fileLock, phase, jar, account, stage>>
    /\ Closes
    /\ UNCHANGED <<twitch, faults>>

Again ==
    /\ job' = [job EXCEPT !.at = "begin", !.again = TRUE, !.from = "state"] /\ Release
    /\ UNCHANGED <<phase, jar, account, stage>>

\* Mutant of Compares: the file is removed whatever it is by now.
ComparesNot ==
    /\ job.at = "compare"
    /\ IF file.content # Nobody
       THEN Advance("remove") /\ UNCHANGED <<jar, account>>
       ELSE Again
    /\ UNCHANGED <<twitch, files, faults>>

\* Is it still the file that was read?
Compares ==
    /\ job.at = "compare"
    /\ IF file.content # Nobody /\ file.serial = job.mark
       THEN Advance("remove") /\ UNCHANGED <<jar, account>>
       ELSE Again
    /\ UNCHANGED <<twitch, files, faults>>

Removes ==
    /\ job.at = "remove"
    /\ \/ /\ file' = [content |-> Nobody, serial |-> 0] /\ Again
          /\ UNCHANGED <<cookies, uploads, given, faults>>
       \/ Fault /\ Returns("error") /\ Closes
    /\ UNCHANGED twitch

-----------------------------------------------------------------------------
Calls ==
    \/ Begin \/ Accepted \/ Refused \/ OtherUser \/ AskFails
    \/ SetCookies \/ SaveCookies \/ SaveFails \/ SetAccessToken
    \/ SetValidatedAccessState \/ DeviceKnown \/ DeviceFails \/ Succeeds
    \/ Looks \/ Locks \/ ReadSession \/ Compares \/ Removes \/ NoLogin

Next ==
    \/ Revoke \/ IntervalPasses \/ ExportStarts \/ ExportEnds \/ Upload
    \/ LoginOffline \/ Start \/ Stops
    \/ \E c \in Callers : Wants(c) \/ Enters(c)
    \/ Calls

Spec == Init /\ [][Next]_vars

\* A request ends (the HTTP client has a deadline) and so does a call of the
\* operating system; time passes; the loops of the service call Validate again
\* and again; the exporter holds the lock for one write; the operator starts
\* the service when it is down.  A caller that waits for the mutex gets it
\* (Go's mutex does not starve).  Nothing is assumed of Twitch, of the owner,
\* or of failures.
FairSpec ==
    /\ Spec
    /\ WF_vars(Calls) /\ WF_vars(IntervalPasses) /\ WF_vars(ExportEnds) /\ WF_vars(Start)
    /\ \A c \in Callers : WF_vars(Wants(c)) /\ SF_vars(Enters(c))

-----------------------------------------------------------------------------
(* Properties *)

\* Once the service is bound to a user, every credential it holds or keeps, in
\* the jar or on disk, is that user's; and the user and the token that Headers and
\* Snapshot may read at any moment are never of two users (identity.go).
OneUser ==
    /\ bound # Nobody =>
         \A t \in {held, jar, cookies} \ {Nobody} : Owner[t] = bound
    /\ held # Nobody /\ user # Nobody => Owner[held] = user

\* A token in use is in the cookie file: whenever the service stops, it finds
\* on its next start the login it worked with (ImportSession and
\* ensureBrowserAuthenticated save before they set the token).
LoginSaved == held # Nobody => cookies = held

\* A session file written for the service is not lost before its token is in
\* the cookie file, whatever fails and whenever the service stops, and a newer
\* file is not removed for an older one (session_auto.go).
CredentialKept ==
    given \in valid => given \in {file.content, cookies}

\* A Validate that began after the interval had passed does not succeed with a
\* token Twitch had revoked by then.
DeadRefused ==
    [][Succeeds => held \notin job.dead]_vars

\* A session file that holds a token Twitch takes, of the right client and
\* user, gets the service logged in, unless something becomes of the file or
\* the token: no state of the jar, of the locks or of an earlier failure keeps
\* it out.
Usable ==
    /\ file.content \in valid
    /\ bound \in {Nobody, Owner[file.content]}

LoginRecovers == Usable ~> (~ Usable \/ held \in valid)
=============================================================================
