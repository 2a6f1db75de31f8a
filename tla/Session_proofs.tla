--------------------------- MODULE Session_proofs ---------------------------
(***************************************************************************)
(* Proofs about Session: for any accounts, tokens, callers and bounds.     *)
(* LoginInv strengthens OneUser and LoginSaved by what a call under way    *)
(* knows; KeptInv adds what it takes to keep the credential of a session   *)
(* file.  A call ends in one of three ways (it returns, main goes on to    *)
(* its next call, the service goes down), so the lemmas on those come      *)
(* first and the steps cite them.                                          *)
(***************************************************************************)
EXTENDS Session, TLAPS

(* Who is at work, and for which phase of the service. *)
AtWork ==
    /\ phase = "running" <=> bound # Nobody
    /\ phase = "running" => job.by # Main
    /\ phase \in {"greeting", "binding"} => job.by = Main
    /\ phase = "down" => held = Nobody /\ user = Nobody /\ job = NoJob
    /\ job.at = "none" <=> job.by = Nobody
    /\ job.from = "browser" => phase = "greeting"
    /\ phase # "running" => stage = [c \in Callers |-> "idle"]

(* Where the token under way has got to; a login is only looked for by a   *)
(* state that holds none.                                                  *)
Underway ==
    /\ job.at \in Adopting => job.token \in Tokens /\ MayUse(job.token)
    /\ job.at \in {"ask", "cookies", "save", "token"} => held \in {Nobody, job.token}
    /\ job.at \in {"save", "token", "user"} => jar = job.token
    /\ job.at \in {"token", "user"} => cookies = job.token
    /\ job.at \in {"user", "compare", "remove"} => held = job.token /\ held # Nobody
    /\ job.at \in {"compare", "remove", "device", "end"} => user # Nobody /\ held # Nobody
    /\ job.at \in Importing => job.from = "file"
    /\ job.at \in {"begin", "login"} => job.from = "state"
    /\ job.at \in {"open", "lock", "read", "login"} => held = Nobody
    /\ job.from # "state" /\ job.at \in {"ask", "cookies", "save", "token"} => held = Nobody

(* A state that holds a token holds it in the jar and in the cookie file,  *)
(* and knows a user only with a token.                                     *)
Settled ==
    /\ held # Nobody => cookies = held /\ jar = held
    /\ held = Nobody => user = Nobody

LoginInv == TypeOK /\ AtWork /\ Underway /\ Settled /\ OneUser

(* What the import knows of the file it has read. *)
FileRead ==
    /\ job.mark <= uploads
    /\ job.from = "file" /\ job.at \in {"ask", "compare"} \cup Adopting
         => (file.serial = job.mark /\ file.content # Nobody => file.content = job.token)
    /\ job.at = "remove" /\ given \in valid => given = cookies

(* A credential that is only in the cookie file is what the service works  *)
(* with, so that nothing can take its place while Twitch takes it.         *)
OnlyInCookies ==
    given \in valid /\ given # file.content =>
        /\ cookies = given
        /\ phase # "down" => jar = given
        /\ job.from = "state" /\ job.at # "login"
        /\ job.at \in {"ask"} \cup Adopting => job.token = given

KeptInv == LoginInv /\ FileRead /\ OnlyInCookies

-----------------------------------------------------------------------------
(* How calls start and end *)

LEMMA StartingIsJob ==
  ASSUME TypeOK, NEW c \in Callers \cup {Main}
  PROVE  /\ Starting(c) \in Jobs
         /\ Starting(c).by = c /\ Starting(c).at = "begin" /\ Starting(c).from = "state"
         /\ Starting(c).mark = 0
<1>1. (IF fresh THEN {} ELSE {held, jar, cookies} \ (valid \cup {Nobody})) \in SUBSET Tokens
  BY DEF TypeOK
<1> QED
  BY <1>1, SessionAssumption DEF Starting, Jobs, Steps

LEMMA NoJobIsJob ==
  /\ NoJob \in Jobs /\ NoJob.by = Nobody /\ NoJob.at = "none" /\ NoJob.from = "state"
  /\ NoJob.mark = 0
BY SessionAssumption DEF NoJob, Jobs, Steps

\* What the ends of calls leave of the files and of Twitch's tokens: a failing
\* save, and the one on the way out, may have replaced the cookie file.
Outside ==
    /\ valid' = valid /\ UNCHANGED <<uploads>> /\ faults' \in 0 .. MaxFaults
    /\ file' \in [content : Tokens \cup {Nobody, Garbled}, serial : 0 .. uploads']
    /\ given' \in Tokens \cup {Nobody}
    /\ cookies' = cookies \/ ((job.at = "save" \/ phase' = "down") /\ cookies' = jar)

LEMMA UnderWay ==
  ASSUME LoginInv, job.at # "none"
  PROVE  phase # "down"
BY NoJobIsJob DEF LoginInv, AtWork

LEMMA ClosesSaves ==
  ASSUME Closes
  PROVE  SavedOrNot /\ UNCHANGED <<file, uploads>>
BY DEF Closes, SavedOrNot

LEMMA ClosesNot ==
  ASSUME Closes, phase' # "down"
  PROVE  UNCHANGED files
BY DEF Closes, files

LEMMA GoesDownKeeps ==
  ASSUME LoginInv, GoesDown, Outside
  PROVE  LoginInv'
<1> USE DEF GoesDown, Outside
<1>1. TypeOK'
  <2>1. /\ valid' \subseteq Tokens /\ {cookies, jar, held, given}' \subseteq Tokens \cup {Nobody}
        /\ {user, bound}' \subseteq Users \cup {Nobody}
        /\ phase' \in {"down", "greeting", "binding", "running"}
        /\ uploads' \in 0 .. MaxUploads /\ faults' \in 0 .. MaxFaults
    BY DEF LoginInv, TypeOK
  <2>2. {fresh, device}' \subseteq BOOLEAN
    OBVIOUS
  <2>3. /\ fileLock' \in {"free", "service", "exporter"}
        /\ (fileLock' = "service" <=> UnderFileLock(job'))
    BY NoJobIsJob DEF LoginInv, TypeOK, UnderFileLock, Release
  <2>4. /\ job' \in Jobs /\ stage' \in [Callers -> {"idle", "wants", "inside"}]
        /\ \A c \in Callers : job'.by = c <=> stage'[c] = "inside"
    BY NoJobIsJob, SessionAssumption
  <2> QED
    BY <2>1, <2>2, <2>3, <2>4 DEF TypeOK
<1>2. AtWork' /\ Settled' /\ OneUser'
  BY NoJobIsJob, SessionAssumption DEF LoginInv, AtWork, Settled, OneUser
<1>3. Underway'
  BY NoJobIsJob, SessionAssumption DEF Underway, Adopting, Importing
<1> QED
  BY <1>1, <1>2, <1>3 DEF LoginInv

LEMMA StartingKeeps ==
  ASSUME LoginInv, Outside, NEW c \in Callers \cup {Main}, job' = Starting(c), Release,
         phase' \in {"greeting", "binding", "running"}, phase' = "running" <=> c # Main,
         phase' = "running" <=> phase = "running",
         phase = "down" => jar' = cookies, phase # "down" => jar' = jar,
         stage' = IF c = Main THEN stage ELSE [stage EXCEPT ![c] = "inside"],
         job.by \in {Nobody, Main},
         UNCHANGED account
  PROVE  LoginInv'
<1> USE DEF Outside, account
<1>1. TypeOK'
  BY StartingIsJob, SessionAssumption DEF LoginInv, TypeOK, UnderFileLock, Release
<1>2. AtWork' /\ Settled' /\ OneUser'
  BY StartingIsJob, SessionAssumption
    DEF LoginInv, AtWork, Settled, OneUser, Underway, TypeOK
<1>3. Underway'
  BY StartingIsJob DEF LoginInv, Underway, Adopting, Importing
<1> QED
  BY <1>1, <1>2, <1>3 DEF LoginInv

LEMMA IdleKeeps ==
  ASSUME LoginInv, Outside, job.by \in Callers, job' = NoJob, Release,
         stage' = [stage EXCEPT ![job.by] = "idle"], UNCHANGED <<phase, jar, account>>
  PROVE  LoginInv'
<1> USE DEF Outside, account
<1>1. TypeOK'
  BY NoJobIsJob, SessionAssumption DEF LoginInv, TypeOK, UnderFileLock, Release
<1>2. AtWork' /\ Settled' /\ OneUser'
  BY NoJobIsJob, SessionAssumption DEF LoginInv, AtWork, Settled, OneUser, Underway, TypeOK,
                                       Adopting, MayUse
<1>3. Underway'
  BY NoJobIsJob DEF LoginInv, Underway, Adopting, Importing
<1> QED
  BY <1>1, <1>2, <1>3 DEF LoginInv

\* A user is bound to what the state, the jar and the file hold.
LEMMA BindUserKeeps ==
  ASSUME LoginInv, Outside, cookies' = cookies, job.by = Main, job.at = "end", BindUser
  PROVE  LoginInv'
<1> USE DEF Outside, BindUser
<1>1. TypeOK'
  BY NoJobIsJob, SessionAssumption DEF LoginInv, TypeOK, UnderFileLock, Release
<1>2. AtWork' /\ Settled' /\ OneUser'
  BY NoJobIsJob, SessionAssumption DEF LoginInv, AtWork, Settled, OneUser, Underway, TypeOK
<1>3. Underway'
  BY NoJobIsJob DEF LoginInv, Underway, Adopting, Importing
<1> QED
  BY <1>1, <1>2, <1>3 DEF LoginInv

LEMMA ReturnsKeeps ==
  ASSUME LoginInv, Outside, NEW result, Returns(result), job.at # "none",
         result = "ok" => job.at = "end" /\ cookies' = cookies
  PROVE  LoginInv'
<1>1. job.by \in Callers \cup {Main}
  BY DEF LoginInv, TypeOK, Jobs, AtWork
<1>2. CASE job.by \in Callers
  BY <1>2, IdleKeeps, SessionAssumption DEF Returns
<1>3. CASE job.by = Main
  <2>1. phase \in {"greeting", "binding"} /\ MainReturns(result)
    BY <1>3, NoJobIsJob, SessionAssumption DEF LoginInv, AtWork, TypeOK, Returns
  <2>2. CASE phase = "binding" /\ result = "ok"
    BY <1>3, <2>1, <2>2, BindUserKeeps DEF MainReturns
  <2>3. CASE phase = "binding" /\ result # "ok"
    BY <2>1, <2>3, GoesDownKeeps DEF MainReturns
  <2>4. CASE phase = "greeting"
    BY <1>3, <2>1, <2>4, StartingKeeps, SessionAssumption DEF MainReturns
  <2> QED
    BY <2>1, <2>2, <2>3, <2>4
<1> QED
  BY <1>1, <1>2, <1>3

LEMMA FailsKeeps ==
  ASSUME LoginInv, Outside, Fails, job.at # "none"
  PROVE  LoginInv'
BY GoesDownKeeps, ReturnsKeeps DEF Fails

-----------------------------------------------------------------------------
(* The invariant of the login *)

LEMMA LoginInit == Init => LoginInv
<1> SUFFICES ASSUME Init PROVE LoginInv
  OBVIOUS
<1> USE NoJobIsJob, SessionAssumption DEF Init, Forgotten
<1>1. TypeOK
  <2>1. {fresh, device} \subseteq BOOLEAN
    OBVIOUS
  <2>2. file \in [content : Tokens \cup {Nobody, Garbled}, serial : 0 .. uploads]
    OBVIOUS
  <2> QED
    BY <2>1, <2>2 DEF TypeOK, UnderFileLock
<1>2. AtWork /\ Underway /\ Settled /\ OneUser
  BY DEF AtWork, Underway, Settled, OneUser, Adopting, Importing
<1> QED
  BY <1>1, <1>2 DEF LoginInv

\* What others do beside the service.
LEMMA WorldKeeps ==
  ASSUME LoginInv,
         \/ Revoke
         \/ ExportStarts
         \/ ExportEnds
         \/ Upload
         \/ \E c \in Callers : Wants(c)
         \/ IntervalPasses
         \/ LoginOffline
  PROVE  LoginInv'
<1> USE SessionAssumption DEF twitch, files, account
<1>1. CASE Revoke
  <2>1. TypeOK'
    BY <1>1 DEF Revoke, LoginInv, TypeOK, UnderFileLock
  <2>2. AtWork' /\ Underway' /\ Settled' /\ OneUser'
    BY <1>1 DEF Revoke, LoginInv, AtWork, Settled, OneUser, Underway, MayUse
  <2> QED
    BY <2>1, <2>2 DEF LoginInv
<1>2. CASE ExportStarts
  <2>1. TypeOK'
    BY <1>2 DEF ExportStarts, LoginInv, TypeOK, UnderFileLock
  <2>2. AtWork' /\ Underway' /\ Settled' /\ OneUser'
    BY <1>2 DEF ExportStarts, LoginInv, AtWork, Settled, OneUser, Underway, MayUse
  <2> QED
    BY <2>1, <2>2 DEF LoginInv
<1>3. CASE ExportEnds
  <2>1. TypeOK'
    BY <1>3 DEF ExportEnds, WriteSession, LoginInv, TypeOK, UnderFileLock
  <2>2. AtWork' /\ Underway' /\ Settled' /\ OneUser'
    BY <1>3
      DEF ExportEnds, WriteSession, LoginInv, AtWork, Settled, OneUser, Underway, MayUse
  <2> QED
    BY <2>1, <2>2 DEF LoginInv
<1>4. CASE Upload
  <2>1. TypeOK'
    BY <1>4 DEF Upload, WriteSession, LoginInv, TypeOK, UnderFileLock
  <2>2. AtWork' /\ Underway' /\ Settled' /\ OneUser'
    BY <1>4 DEF Upload, WriteSession, LoginInv, AtWork, Settled, OneUser, Underway, MayUse
  <2> QED
    BY <2>1, <2>2 DEF LoginInv
<1>5. CASE \E c \in Callers : Wants(c)
  <2>1. TypeOK'
    BY <1>5 DEF Wants, LoginInv, TypeOK, UnderFileLock
  <2>2. AtWork' /\ Underway' /\ Settled' /\ OneUser'
    BY <1>5 DEF Wants, LoginInv, AtWork, Settled, OneUser, Underway, MayUse
  <2> QED
    BY <2>1, <2>2 DEF LoginInv
<1>6. CASE IntervalPasses
  <2>1. {fresh, device}' \subseteq BOOLEAN
    BY <1>6 DEF IntervalPasses, LoginInv, TypeOK
  <2>2. TypeOK'
    BY <1>6, <2>1 DEF IntervalPasses, LoginInv, TypeOK, UnderFileLock
  <2>3. AtWork' /\ Underway' /\ Settled' /\ OneUser'
    BY <1>6 DEF IntervalPasses, LoginInv, AtWork, Settled, OneUser, Underway, MayUse
  <2> QED
    BY <2>2, <2>3 DEF LoginInv
<1>7. CASE LoginOffline
  <2>1. TypeOK'
    BY <1>7 DEF LoginOffline, LoginInv, TypeOK, UnderFileLock
  <2>2. AtWork' /\ Settled' /\ OneUser'
    BY <1>7 DEF LoginOffline, LoginInv, AtWork, Settled, OneUser
  <2>3. Underway'
    BY <1>7, NoJobIsJob DEF LoginOffline, LoginInv, AtWork, Underway, Adopting, Importing
  <2> QED
    BY <2>1, <2>2, <2>3 DEF LoginInv
<1> QED
  BY <1>1, <1>2, <1>3, <1>4, <1>5, <1>6, <1>7

\* A step that moves a call on, and changes nothing else but the file lock.
LEMMA JobKeeps ==
  ASSUME LoginInv, job' \in Jobs, job'.by = job.by, job.at # "none", job'.at # "none",
         job'.from = "browser" => job.from = "browser" \/ phase = "greeting",
         fileLock' \in {"free", "service", "exporter"},
         fileLock' = "service" <=> UnderFileLock(job'),
         Underway',
         file' \in [content : Tokens \cup {Nobody, Garbled}, serial : 0 .. uploads],
         UNCHANGED <<valid, cookies, jar, uploads, phase, account, stage, given>>,
         faults' \in 0 .. MaxFaults
  PROVE  LoginInv'
<1> USE DEF account
<1>1. TypeOK'
  BY DEF LoginInv, TypeOK
<1>2. AtWork'
  BY NoJobIsJob DEF LoginInv, AtWork
<1>3. Settled' /\ OneUser'
  BY DEF LoginInv, Settled, OneUser
<1> QED
  BY <1>1, <1>2, <1>3 DEF LoginInv

\* A login is needed.
LEMMA LoginRequiredKeeps ==
  ASSUME LoginInv, LoginRequired, job.at \in {"begin", "ask"}, job.from = "state",
         held' = Nobody, user' = Nobody,
         UNCHANGED <<twitch, files, jar, fileLock, phase, bound, fresh, device, stage, faults>>
  PROVE  LoginInv'
<1> USE DEF twitch, files
<1>1. /\ job' \in Jobs /\ job'.by = job.by /\ job'.at # "none" /\ job'.from # "browser"
      /\ ~ UnderFileLock(job') /\ job'.at \in {"login", "open"}
      /\ job'.at = "login" => job'.from = "state"
      /\ job'.at = "open" => job'.from = "file"
  <2>1. CASE job.again
    BY <2>1 DEF LoginRequired, LoginInv, TypeOK, Jobs, Steps, UnderFileLock
  <2>2. CASE ~ job.again
    <3>1. job' = [[job EXCEPT !.at = "open"] EXCEPT !.from = "file"]
      BY <2>2 DEF LoginRequired
    <3> QED
      BY <3>1 DEF LoginInv, TypeOK, Jobs, Steps, Importing, UnderFileLock
  <2> QED
    BY <2>1, <2>2
<1>2. TypeOK'
  <2>1. {fresh, device}' \subseteq BOOLEAN
    BY DEF LoginInv, TypeOK
  <2> QED
    BY <1>1, <2>1 DEF LoginInv, TypeOK, UnderFileLock
<1>3. AtWork'
  BY <1>1, NoJobIsJob DEF LoginInv, AtWork
<1>4. Underway'
  BY <1>1 DEF Underway, Adopting, Importing
<1>5. Settled' /\ OneUser'
  BY DEF LoginInv, Settled, OneUser
<1> QED
  BY <1>1, <1>2, <1>3, <1>4, <1>5 DEF LoginInv

\* The steps on the way of a call.
LEMMA AdvanceKeeps ==
  ASSUME LoginInv,
         \/ Accepted
         \/ SetCookies
         \/ SaveCookies
         \/ SetAccessToken
         \/ SetValidatedAccessState
         \/ DeviceKnown
         \/ Looks
         \/ Compares
         \/ Begin
  PROVE  LoginInv'
<1> USE SessionAssumption DEF twitch, files, account
<1>1. CASE Accepted
  <2>1. /\ job'.by = job.by /\ job'.at = "cookies"
        /\ job'.from = job.from /\ job'.token = job.token
    BY <1>1 DEF Accepted, Advance, LoginInv, TypeOK, Jobs
  <2>2. TypeOK'
    BY <1>1
      DEF Accepted, Advance, LoginInv, TypeOK, Underway, Jobs, Steps, Adopting,
          Importing, UnderFileLock
  <2>3. AtWork'
    BY <1>1, <2>1, NoJobIsJob
      DEF Accepted, Advance, LoginInv, TypeOK, AtWork, Settled, OneUser, Underway,
          Adopting, Importing, MayUse, Authenticated
  <2>4. Settled' /\ OneUser'
    BY <1>1, <2>1
      DEF Accepted, Advance, LoginInv, TypeOK, AtWork, Settled, OneUser, Underway,
          Adopting, Importing, MayUse, Authenticated
  <2>5. Underway'
    BY <1>1, <2>1
      DEF Accepted, Advance, LoginInv, TypeOK, AtWork, Settled, OneUser, Underway,
          Adopting, Importing, MayUse, Authenticated
  <2> QED
    BY <2>2, <2>3, <2>4, <2>5 DEF LoginInv
<1>2. CASE SetCookies
  <2>1. /\ job'.by = job.by /\ job'.at = "save"
        /\ job'.from = job.from /\ job'.token = job.token
    BY <1>2 DEF SetCookies, Advance, LoginInv, TypeOK, Jobs
  <2>2. TypeOK'
    BY <1>2
      DEF SetCookies, Advance, LoginInv, TypeOK, Underway, Jobs, Steps, Adopting,
          Importing, UnderFileLock
  <2>3. AtWork'
    BY <1>2, <2>1, NoJobIsJob
      DEF SetCookies, Advance, LoginInv, TypeOK, AtWork, Settled, OneUser, Underway,
          Adopting, Importing, MayUse, Authenticated
  <2>4. Settled' /\ OneUser'
    BY <1>2, <2>1
      DEF SetCookies, Advance, LoginInv, TypeOK, AtWork, Settled, OneUser, Underway,
          Adopting, Importing, MayUse, Authenticated
  <2>5. Underway'
    BY <1>2, <2>1
      DEF SetCookies, Advance, LoginInv, TypeOK, AtWork, Settled, OneUser, Underway,
          Adopting, Importing, MayUse, Authenticated
  <2> QED
    BY <2>2, <2>3, <2>4, <2>5 DEF LoginInv
<1>3. CASE SaveCookies
  <2>1. /\ job'.by = job.by /\ job'.at = "token"
        /\ job'.from = job.from /\ job'.token = job.token
    BY <1>3 DEF SaveCookies, Advance, LoginInv, TypeOK, Jobs
  <2>2. TypeOK'
    BY <1>3
      DEF SaveCookies, Advance, LoginInv, TypeOK, Underway, Jobs, Steps, Adopting,
          Importing, UnderFileLock
  <2>3. AtWork'
    BY <1>3, <2>1, NoJobIsJob
      DEF SaveCookies, Advance, LoginInv, TypeOK, AtWork, Settled, OneUser, Underway,
          Adopting, Importing, MayUse, Authenticated
  <2>4. Settled' /\ OneUser'
    BY <1>3, <2>1
      DEF SaveCookies, Advance, LoginInv, TypeOK, AtWork, Settled, OneUser, Underway,
          Adopting, Importing, MayUse, Authenticated
  <2>5. Underway'
    BY <1>3, <2>1
      DEF SaveCookies, Advance, LoginInv, TypeOK, AtWork, Settled, OneUser, Underway,
          Adopting, Importing, MayUse, Authenticated
  <2> QED
    BY <2>2, <2>3, <2>4, <2>5 DEF LoginInv
<1>4. CASE SetAccessToken
  <2>1. /\ job'.by = job.by /\ job'.at = "user"
        /\ job'.from = job.from /\ job'.token = job.token
    BY <1>4 DEF SetAccessToken, Advance, LoginInv, TypeOK, Jobs
  <2>2. TypeOK'
    BY <1>4
      DEF SetAccessToken, Advance, LoginInv, TypeOK, Underway, Jobs, Steps, Adopting,
          Importing, UnderFileLock
  <2>3. AtWork'
    BY <1>4, <2>1, NoJobIsJob
      DEF SetAccessToken, Advance, LoginInv, TypeOK, AtWork, Settled, OneUser, Underway,
          Adopting, Importing, MayUse, Authenticated
  <2>4. Settled' /\ OneUser'
    BY <1>4, <2>1
      DEF SetAccessToken, Advance, LoginInv, TypeOK, AtWork, Settled, OneUser, Underway,
          Adopting, Importing, MayUse, Authenticated
  <2>5. Underway'
    BY <1>4, <2>1
      DEF SetAccessToken, Advance, LoginInv, TypeOK, AtWork, Settled, OneUser, Underway,
          Adopting, Importing, MayUse, Authenticated
  <2> QED
    BY <2>2, <2>3, <2>4, <2>5 DEF LoginInv
<1>5. CASE SetValidatedAccessState
  <2>1. /\ job'.by = job.by /\ job'.at \in {"device", "compare", "end"}
        /\ job'.at = "compare" => job.from = "file"
        /\ job'.from = job.from /\ job'.token = job.token
    BY <1>5 DEF SetValidatedAccessState, Advance, LoginInv, TypeOK, Jobs
  <2>2. TypeOK'
    BY <1>5
      DEF SetValidatedAccessState, Advance, LoginInv, TypeOK, Underway, Jobs, Steps,
          Adopting, Importing, UnderFileLock
  <2>3. AtWork'
    BY <1>5, <2>1, NoJobIsJob
      DEF SetValidatedAccessState, Advance, LoginInv, TypeOK, AtWork, Settled, OneUser,
          Underway, Adopting, Importing, MayUse, Authenticated
  <2>4. Settled' /\ OneUser'
    BY <1>5, <2>1
      DEF SetValidatedAccessState, Advance, LoginInv, TypeOK, AtWork, Settled, OneUser,
          Underway, Adopting, Importing, MayUse, Authenticated
  <2>5. Underway'
    <3>1. Owner[job.token] \in Users /\ held # Nobody
      BY <1>5 DEF SetValidatedAccessState, LoginInv, Underway, TypeOK
    <3> QED
      BY <1>5, <2>1, <3>1
        DEF SetValidatedAccessState, Advance, LoginInv, Underway, Adopting, Importing
  <2> QED
    BY <2>2, <2>3, <2>4, <2>5 DEF LoginInv
<1>6. CASE DeviceKnown
  <2>1. /\ job'.by = job.by /\ job'.at = "end"
        /\ job'.from = job.from /\ job'.token = job.token
    BY <1>6 DEF DeviceKnown, Advance, LoginInv, TypeOK, Jobs
  <2>2. TypeOK'
    BY <1>6
      DEF DeviceKnown, Advance, LoginInv, TypeOK, Underway, Jobs, Steps, Adopting,
          Importing, UnderFileLock
  <2>3. AtWork'
    BY <1>6, <2>1, NoJobIsJob
      DEF DeviceKnown, Advance, LoginInv, TypeOK, AtWork, Settled, OneUser, Underway,
          Adopting, Importing, MayUse, Authenticated
  <2>4. Settled' /\ OneUser'
    BY <1>6, <2>1
      DEF DeviceKnown, Advance, LoginInv, TypeOK, AtWork, Settled, OneUser, Underway,
          Adopting, Importing, MayUse, Authenticated
  <2>5. Underway'
    BY <1>6, <2>1
      DEF DeviceKnown, Advance, LoginInv, TypeOK, AtWork, Settled, OneUser, Underway,
          Adopting, Importing, MayUse, Authenticated
  <2> QED
    BY <2>2, <2>3, <2>4, <2>5 DEF LoginInv
<1>7. CASE Looks
  <2>1. CASE file.content = Nobody
    <3>1. job' = [[job EXCEPT !.at = "login"] EXCEPT !.from = "state"]
      BY <1>7, <2>1 DEF Looks
    <3>2. /\ job' \in Jobs /\ job'.by = job.by /\ job'.at = "login" /\ job'.from = "state"
          /\ job'.mark = job.mark
      BY <3>1 DEF LoginInv, TypeOK, Jobs, Steps
    <3>9. Underway'
      BY <1>7, <3>2 DEF Looks, account, LoginInv, Underway, Adopting, Importing
    <3> QED
      BY <1>7, <3>2, <3>9, JobKeeps
        DEF Looks, LoginInv, TypeOK, Underway, UnderFileLock, Importing
  <2>2. CASE file.content # Nobody
    <3>1. job' = [job EXCEPT !.at = "lock"]
      BY <1>7, <2>2 DEF Looks
    <3>2. /\ job' \in Jobs /\ job'.by = job.by /\ job'.at = "lock" /\ job'.from = job.from
          /\ job'.mark = job.mark
      BY <3>1 DEF LoginInv, TypeOK, Jobs, Steps, Importing
    <3>9. Underway'
      BY <1>7, <3>2 DEF Looks, account, LoginInv, Underway, Adopting, Importing
    <3> QED
      BY <1>7, <3>2, <3>9, JobKeeps
        DEF Looks, LoginInv, TypeOK, Underway, UnderFileLock, Importing
  <2> QED
    BY <2>1, <2>2
<1>8. CASE Compares
  <2>1. CASE Advance("remove") /\ UNCHANGED <<jar, account>>
    <3>1. /\ job' \in Jobs /\ job'.by = job.by /\ job'.at = "remove" /\ job'.from = job.from
          /\ job'.token = job.token
      BY <2>1 DEF Advance, LoginInv, TypeOK, Jobs, Steps, Importing
    <3>9. Underway'
      BY <1>8, <2>1, <3>1
        DEF Compares, Advance, account, LoginInv, Underway, Adopting, Importing
    <3> QED
      BY <1>8, <2>1, <3>1, <3>9, JobKeeps
         DEF Compares, Advance, LoginInv, TypeOK, Underway, UnderFileLock, Importing
  <2>2. CASE Again
    <3>1. job' = [[[job EXCEPT !.at = "begin"] EXCEPT !.again = TRUE] EXCEPT !.from = "state"]
      BY <2>2 DEF Again
    <3>2. /\ job' \in Jobs /\ job'.by = job.by /\ job'.at = "begin" /\ job'.from = "state"
      BY <3>1 DEF LoginInv, TypeOK, Jobs, Steps
    <3>9. Underway'
      BY <1>8, <2>2, <3>2
        DEF Compares, Again, account, LoginInv, Underway, Adopting, Importing
    <3> QED
      BY <1>8, <2>2, <3>2, <3>9, JobKeeps
         DEF Compares, Again, Release, LoginInv, TypeOK, UnderFileLock
  <2> QED
    BY <1>8, <2>1, <2>2 DEF Compares
<1>9. CASE Begin
  <2> DEFINE token == IF held # Nobody THEN held ELSE jar
  <2>1. CASE Authenticated
    <3>1. job' \in Jobs /\ job'.by = job.by /\ job'.at = "device" /\ job'.from = job.from
      BY <1>9, <2>1 DEF Begin, Advance, LoginInv, TypeOK, Jobs, Steps
    <3>9. Underway'
      BY <1>9, <2>1, <3>1
        DEF Begin, Advance, Authenticated, account, LoginInv, Underway, Adopting,
            Importing
    <3> QED
      BY <1>9, <2>1, <3>1, <3>9, JobKeeps
         DEF Begin, Advance, Authenticated, LoginInv, TypeOK, Underway, UnderFileLock
  <2>2. CASE ~ Authenticated /\ token = Nobody
    <3>1. held = Nobody /\ user = Nobody /\ job.from = "state"
      BY <1>9, <2>2 DEF Begin, LoginInv, Settled, Underway
    <3>2. held' = Nobody /\ user' = Nobody /\ LoginRequired
      BY <1>9, <2>2, <3>1 DEF Begin
    <3> QED
      BY <1>9, <2>2, <3>1, <3>2, LoginRequiredKeeps DEF Begin
  <2>3. CASE ~ Authenticated /\ token # Nobody
    <3>1. job' = [[job EXCEPT !.at = "ask"] EXCEPT !.token = token]
      BY <1>9, <2>3 DEF Begin
    <3>2. /\ job' \in Jobs /\ job'.by = job.by /\ job'.at = "ask" /\ job'.from = job.from
          /\ job'.token = token
      BY <3>1 DEF LoginInv, TypeOK, Jobs, Steps
    <3>9. Underway'
      BY <1>9, <2>3, <3>2
        DEF Begin, Settled, account, LoginInv, Underway, Adopting, Importing
    <3> QED
      BY <1>9, <2>3, <3>2, <3>9, JobKeeps
        DEF Begin, LoginInv, TypeOK, Underway, UnderFileLock
  <2> QED
    BY <2>1, <2>2, <2>3
<1> QED
  BY <1>1, <1>2, <1>3, <1>4, <1>5, <1>6, <1>7, <1>8, <1>9


\* The steps that may end a call, or start one.
LEMMA ReturnKeeps ==
  ASSUME LoginInv,
         \/ Refused \/ OtherUser \/ AskFails \/ SaveFails
         \/ DeviceFails \/ Succeeds \/ NoLogin
  PROVE  LoginInv'
<1> USE SessionAssumption DEF twitch, files, Fault, Outside, Closes, SavedOrNot
<1>1. CASE Refused
  <2>1. CASE job.from = "state"
    <3>1. UNCHANGED <<files, phase>>
      BY <1>1, <2>1, UnderWay, ClosesNot DEF Refused
    <3> QED
      BY <1>1, <2>1, <3>1, LoginRequiredKeeps DEF Refused
  <2>2. CASE job.from # "state"
    BY <1>1, <2>2, FailsKeeps DEF Refused, LoginInv, TypeOK
  <2> QED
    BY <2>1, <2>2
<1>2. CASE OtherUser
  BY <1>2, FailsKeeps DEF OtherUser, LoginInv, TypeOK
<1>3. CASE AskFails
  BY <1>3, FailsKeeps DEF AskFails, LoginInv, TypeOK
<1>4. CASE SaveFails
  BY <1>4, FailsKeeps DEF SaveFails, LoginInv, TypeOK
<1>5. CASE DeviceFails
  BY <1>5, ReturnsKeeps DEF DeviceFails, LoginInv, TypeOK
<1>6. CASE Succeeds
  BY <1>6, ReturnsKeeps DEF Succeeds, LoginInv, TypeOK
<1>7. CASE NoLogin
  <2>1. CASE phase # "greeting" /\ Returns("login")
    BY <1>7, <2>1, ReturnsKeeps DEF NoLogin, LoginInv, TypeOK
  <2>2. ASSUME NEW t \in Tokens \cup {Garbled}, phase = "greeting",
               job' = [job EXCEPT !.at = "ask", !.from = "browser", !.token = t],
               UNCHANGED <<fileLock, phase, jar, account, stage>>
        PROVE  LoginInv'
    <3>1. job' = [[[job EXCEPT !.at = "ask"] EXCEPT !.from = "browser"] EXCEPT !.token = t]
      BY <2>2
    <3>2. /\ job' \in Jobs /\ job'.by = job.by /\ job'.at = "ask" /\ job'.from = "browser"
          /\ job'.token = t
      BY <3>1 DEF LoginInv, TypeOK, Jobs, Steps
    <3>3. held = Nobody /\ job.from = "state"
      BY <1>7 DEF NoLogin, LoginInv, Underway
    <3>4. Underway'
      BY <2>2, <3>2, <3>3 DEF Underway, Adopting, Importing, account
    <3> QED
      BY <1>7, <2>2, <3>2, <3>3, <3>4, JobKeeps DEF NoLogin, LoginInv, TypeOK, UnderFileLock
  <2> QED
    BY <1>7, <2>1, <2>2 DEF NoLogin
<1> QED
  BY <1>1, <1>2, <1>3, <1>4, <1>5, <1>6, <1>7

\* The steps that take or give back the lock of the session file.
LEMMA ImportKeeps ==
  ASSUME LoginInv, Locks \/ ReadSession \/ Removes
  PROVE  LoginInv'
<1> USE SessionAssumption DEF twitch, files, Fault, Outside, Closes, SavedOrNot
<1>1. CASE Locks
  <2>1. CASE Fault /\ Returns("error")
    BY <1>1, <2>1, ReturnsKeeps DEF Locks, LoginInv, TypeOK
  <2>2. CASE /\ fileLock = "free" /\ fileLock' = "service"
             /\ job' = [job EXCEPT !.at = "read"]
             /\ UNCHANGED <<phase, jar, account, stage, faults>>
    <3>1. /\ job' \in Jobs /\ job'.by = job.by /\ job'.at = "read" /\ job'.from = job.from
      BY <2>2 DEF LoginInv, TypeOK, Jobs, Steps, Importing
    <3>2. job.from = "file" /\ held = Nobody
      BY <1>1 DEF Locks, LoginInv, Underway, Importing
    <3>3. Underway'
      BY <2>2, <3>1, <3>2 DEF Underway, Adopting, Importing, account
    <3>4. UNCHANGED files
      BY <1>1, <2>2, UnderWay, ClosesNot DEF Locks
    <3> QED
      BY <1>1, <2>2, <3>1, <3>2, <3>3, <3>4, JobKeeps
        DEF Locks, LoginInv, TypeOK, UnderFileLock
  <2> QED
    BY <1>1, <2>1, <2>2 DEF Locks
<1>2. CASE ReadSession
  <2>0. held = Nobody /\ job.from = "file" /\ fileLock = "service"
    BY <1>2 DEF ReadSession, LoginInv, Underway, Importing, TypeOK, UnderFileLock
  <2>1. CASE file.content = Garbled /\ Returns("error")
    BY <1>2, <2>1, ReturnsKeeps DEF ReadSession, LoginInv, TypeOK
  <2>2. CASE /\ file.content = Nobody
             /\ job' = [job EXCEPT !.at = "login", !.from = "state"] /\ Release
             /\ UNCHANGED <<phase, jar, account, stage>>
    <3>1. job' = [[job EXCEPT !.at = "login"] EXCEPT !.from = "state"]
      BY <2>2
    <3>2. /\ job' \in Jobs /\ job'.by = job.by /\ job'.at = "login" /\ job'.from = "state"
      BY <3>1 DEF LoginInv, TypeOK, Jobs, Steps
    <3>3. Underway'
      BY <2>0, <2>2, <3>2 DEF Underway, Adopting, Importing, account
    <3>4. UNCHANGED files
      BY <1>2, <2>2, UnderWay, ClosesNot DEF ReadSession
    <3> QED
      BY <1>2, <2>0, <2>2, <3>2, <3>3, <3>4, JobKeeps
         DEF ReadSession, Release, LoginInv, TypeOK, UnderFileLock
  <2>3. CASE /\ file.content \in Tokens
             /\ job' = [job EXCEPT !.at = "ask", !.token = file.content, !.mark = file.serial]
             /\ UNCHANGED <<fileLock, phase, jar, account, stage>>
    <3>1. job' = [[[job EXCEPT !.at = "ask"] EXCEPT !.token = file.content]
                    EXCEPT !.mark = file.serial]
      BY <2>3
    <3>2. file.serial \in 0 .. MaxUploads
      BY DEF LoginInv, TypeOK
    <3>3. /\ job' \in Jobs /\ job'.by = job.by /\ job'.at = "ask" /\ job'.from = job.from
      BY <2>3, <3>1, <3>2 DEF LoginInv, TypeOK, Jobs, Steps
    <3>4. Underway'
      BY <2>0, <2>3, <3>3 DEF Underway, Adopting, Importing, account
    <3>5. UNCHANGED files
      BY <1>2, <2>3, UnderWay, ClosesNot DEF ReadSession
    <3> QED
      BY <1>2, <2>0, <2>3, <3>3, <3>4, <3>5, JobKeeps
         DEF ReadSession, LoginInv, TypeOK, UnderFileLock
  <2> QED
    BY <1>2, <2>1, <2>2, <2>3 DEF ReadSession
<1>3. CASE Removes
  <2>1. CASE Fault /\ Returns("error") /\ Closes
    BY <1>3, <2>1, ReturnsKeeps DEF Removes, LoginInv, TypeOK
  <2>2. CASE /\ file' = [content |-> Nobody, serial |-> 0] /\ Again
             /\ UNCHANGED <<cookies, uploads, given, faults>>
    <3>1. job' = [[[job EXCEPT !.at = "begin"] EXCEPT !.again = TRUE] EXCEPT !.from = "state"]
      BY <2>2 DEF Again
    <3>2. /\ job' \in Jobs /\ job'.by = job.by /\ job'.at = "begin" /\ job'.from = "state"
      BY <3>1 DEF LoginInv, TypeOK, Jobs, Steps
    <3>3. Underway'
      BY <3>2 DEF Underway, Adopting, Importing
    <3>4. file' \in [content : Tokens \cup {Nobody, Garbled}, serial : 0 .. uploads]
      BY <2>2 DEF LoginInv, TypeOK
    <3>5. /\ fileLock' \in {"free", "service", "exporter"}
          /\ (fileLock' = "service" <=> UnderFileLock(job'))
      BY <2>2, <3>2 DEF Again, Release, LoginInv, TypeOK, UnderFileLock
    <3> QED
      BY <1>3, <2>2, <3>2, <3>3, <3>4, <3>5, JobKeeps DEF Removes, Again, LoginInv, TypeOK
  <2> QED
    BY <1>3, <2>1, <2>2 DEF Removes
<1> QED
  BY <1>1, <1>2, <1>3

\* The steps of the service's start and end, and a caller that gets the mutex.
LEMMA StartKeeps ==
  ASSUME LoginInv, Start \/ Stops \/ \E c \in Callers : Enters(c)
  PROVE  LoginInv'
<1> USE SessionAssumption DEF twitch, files, Fault, Outside, Closes, SavedOrNot
<1>1. CASE Start
  <2>1. job = NoJob /\ Release
    BY <1>1, NoJobIsJob DEF Start, LoginInv, AtWork, Release, UnderFileLock
  <2> QED
    BY <1>1, <2>1, StartingKeeps, NoJobIsJob DEF Start, LoginInv, TypeOK
<1>2. CASE Stops
  BY <1>2, GoesDownKeeps DEF Stops, LoginInv, TypeOK
<1>3. ASSUME NEW c \in Callers, Enters(c)
      PROVE  LoginInv'
  <2>1. phase = "running" /\ Release
    <3>1. phase \notin {"greeting", "binding"}
      BY <1>3, NoJobIsJob DEF Enters, LoginInv, AtWork
    <3>2. phase # "down" \/ stage[c] # "wants"
      BY <1>3 DEF Enters, LoginInv, AtWork
    <3> QED
      BY <1>3, <3>1, <3>2, NoJobIsJob DEF Enters, LoginInv, TypeOK, Release, UnderFileLock
  <2> QED
    BY <1>3, <2>1, StartingKeeps, NoJobIsJob DEF Enters, LoginInv, TypeOK
<1> QED
  BY <1>1, <1>2, <1>3

LEMMA LoginStep == LoginInv /\ [Next]_vars => LoginInv'
<1> SUFFICES ASSUME LoginInv, [Next]_vars PROVE LoginInv'
  OBVIOUS
<1>1. CASE Next
  BY <1>1, WorldKeeps, AdvanceKeeps, ReturnKeeps, ImportKeeps, StartKeeps DEF Next, Calls
<1>2. CASE UNCHANGED vars
  <2>1. TypeOK'
    BY <1>2 DEF vars, account, files, LoginInv, TypeOK, UnderFileLock
  <2>2. AtWork' /\ Underway' /\ Settled' /\ OneUser'
    BY <1>2 DEF vars, LoginInv, AtWork, Settled, OneUser, Underway, MayUse
  <2> QED
    BY <2>1, <2>2 DEF LoginInv
<1> QED
  BY <1>1, <1>2

LEMMA LoginAlways == Spec => []LoginInv
BY LoginInit, LoginStep, PTL DEF Spec

\* The state keeps its types; the file lock is held by the service exactly in
\* the steps importDefaultSession holds it (session_auto.go), and one caller at
\* a time is inside Validate.
THEOREM LoginTypeCorrect == Spec => []TypeOK
<1>1. LoginInv => TypeOK
  BY DEF LoginInv
<1> QED
  BY LoginAlways, <1>1, PTL

\* A service bound to a user never holds, in the state, in the jar or on disk, a
\* token of another one, whatever files are uploaded and however often it
\* starts again (identity.go).
THEOREM OneUserAlways == Spec => []OneUser
<1>1. LoginInv => OneUser
  BY DEF LoginInv
<1> QED
  BY LoginAlways, <1>1, PTL

\* The token in use is always the one in the cookie file, at every step between
\* the jar, the file and the state (session.go, browser_login.go).
THEOREM LoginSavedAlways == Spec => []LoginSaved
<1>1. LoginInv => LoginSaved
  BY DEF LoginInv, Settled, LoginSaved
<1> QED
  BY LoginAlways, <1>1, PTL

-----------------------------------------------------------------------------
(* The credential of a session file *)

\* A call that ends leaves a credential that is only in the cookies in the jar.
LEMMA ReturnsForget ==
  ASSUME LoginInv, NEW result, Returns(result), job.at # "none"
  PROVE  /\ job'.from = "state" /\ job'.mark = 0 /\ job'.at \in {"none", "begin"}
         /\ phase' = "down" \/ jar' = jar
         /\ phase' # "down" => phase # "down"
<1>1. job.by \in Callers \cup {Main}
  BY DEF LoginInv, TypeOK, Jobs, AtWork
<1>2. phase # "down"
  BY NoJobIsJob DEF LoginInv, AtWork
<1>3. Starting(Main).from = "state" /\ Starting(Main).mark = 0 /\ Starting(Main).at = "begin"
  BY DEF Starting
<1> QED
  BY <1>1, <1>2, <1>3, NoJobIsJob, SessionAssumption
     DEF Returns, MainReturns, BindUser, GoesDown, account

LEMMA FailsForget ==
  ASSUME LoginInv, Fails, job.at # "none"
  PROVE  /\ job'.from = "state" /\ job'.mark = 0 /\ job'.at \in {"none", "begin"}
         /\ phase' = "down" \/ jar' = jar
         /\ phase' # "down" => phase # "down"
BY ReturnsForget, NoJobIsJob DEF Fails, GoesDown

\* What the end of a call leaves of the files.
LEMMA EndKept ==
  ASSUME KeptInv, valid' = valid, file' = file, uploads' = uploads,
         SavedOrNot, (cookies' = cookies /\ given' = given) \/ phase # "down",
         job'.from = "state", job'.mark = 0, job'.at \in {"none", "begin"},
         phase' = "down" \/ jar' = jar, phase' # "down" => phase # "down"
  PROVE  FileRead' /\ OnlyInCookies'
<1>1. FileRead'
  BY SessionAssumption DEF KeptInv, FileRead, LoginInv, TypeOK, Adopting, SavedOrNot
<1>2. OnlyInCookies'
  BY SessionAssumption
    DEF KeptInv, OnlyInCookies, LoginInv, TypeOK, Underway, Adopting, SavedOrNot
<1> QED
  BY <1>1, <1>2

LEMMA WorldKept ==
  ASSUME KeptInv,
         \/ Revoke
         \/ ExportStarts
         \/ ExportEnds
         \/ Upload
         \/ \E c \in Callers : Wants(c)
         \/ IntervalPasses
         \/ LoginOffline
  PROVE  FileRead' /\ OnlyInCookies'
<1> USE SessionAssumption DEF twitch, files, account
<1>1. CASE Revoke
  BY <1>1 DEF Revoke, KeptInv, FileRead, OnlyInCookies
<1>2. CASE ExportStarts
  BY <1>2 DEF ExportStarts, KeptInv, FileRead, OnlyInCookies
<1>3. CASE ExportEnds
  <2>1. fileLock = "exporter" /\ ~ UnderFileLock(job)
    BY <1>3 DEF ExportEnds, KeptInv, LoginInv, TypeOK
  <2>2. job.at # "remove" /\ ~ (job.from = "file" /\ job.at \in {"ask", "compare"} \cup Adopting)
    BY <2>1 DEF KeptInv, LoginInv, Underway, UnderFileLock, Importing, Adopting
  <2>3. CASE \E t \in Tokens : WriteSession(t) /\ given' = t
    <3>1. PICK t \in Tokens : WriteSession(t) /\ given' = t
      BY <2>3
    <3>2. /\ job.mark \in Nat /\ uploads \in Nat /\ job.mark <= uploads
          /\ job' = job /\ valid' = valid
      BY <1>3 DEF ExportEnds, KeptInv, LoginInv, TypeOK, Jobs, FileRead
    <3>3. file'.content = t /\ uploads' = uploads + 1
      BY <3>1 DEF WriteSession
    <3>4. FileRead'
      BY <2>2, <3>2, <3>3 DEF FileRead
    <3>5. OnlyInCookies'
      BY <3>1, <3>3 DEF OnlyInCookies
    <3> QED
      BY <3>4, <3>5
  <2>4. CASE /\ uploads' = IF uploads < MaxUploads THEN uploads + 1 ELSE uploads
             /\ UNCHANGED <<file, given>>
    <3>1. uploads' >= uploads /\ job.mark \in Nat /\ uploads \in Nat
      BY <2>4 DEF KeptInv, LoginInv, TypeOK, Jobs
    <3> QED
      BY <1>3, <2>4, <3>1 DEF ExportEnds, KeptInv, FileRead, OnlyInCookies
  <2> QED
    BY <1>3, <2>3, <2>4 DEF ExportEnds
<1>4. CASE Upload
  <2>1. PICK content \in Tokens \cup {Garbled} :
          /\ WriteSession(content)
          /\ given' = IF content = Garbled \/ job.at = "remove" THEN Nobody ELSE content
    BY <1>4 DEF Upload
  <2>2. /\ job.mark \in Nat /\ uploads \in Nat /\ job.mark <= uploads
        /\ valid \subseteq Tokens /\ job' = job /\ valid' = valid
    BY <1>4 DEF Upload, KeptInv, LoginInv, TypeOK, Jobs, FileRead
  <2>3. file'.serial # job'.mark /\ file'.content = content /\ uploads' = uploads + 1
    BY <2>1, <2>2 DEF WriteSession
  <2>4. FileRead'
    BY <2>1, <2>2, <2>3 DEF FileRead
  <2>5. OnlyInCookies'
    BY <2>1, <2>2, <2>3 DEF OnlyInCookies
  <2> QED
    BY <2>4, <2>5
<1>5. CASE \E c \in Callers : Wants(c)
  BY <1>5 DEF Wants, KeptInv, FileRead, OnlyInCookies
<1>6. CASE IntervalPasses
  BY <1>6 DEF IntervalPasses, KeptInv, FileRead, OnlyInCookies
<1>7. CASE LoginOffline
  BY <1>7, NoJobIsJob
     DEF LoginOffline, KeptInv, LoginInv, TypeOK, AtWork, FileRead, OnlyInCookies, Adopting
<1> QED
  BY <1>1, <1>2, <1>3, <1>4, <1>5, <1>6, <1>7

LEMMA AskKept ==
  ASSUME KeptInv, Accepted \/ SetCookies \/ SaveCookies \/ SetAccessToken
  PROVE  FileRead' /\ OnlyInCookies'
<1> USE SessionAssumption DEF twitch, files, account
<1>1. CASE Accepted
  <2>1. /\ job'.from = job.from /\ job'.token = job.token /\ job'.mark = job.mark
        /\ job'.at = "cookies"
    BY <1>1 DEF Accepted, Advance, KeptInv, LoginInv, TypeOK, Jobs
  <2>2. FileRead'
    BY <1>1, <2>1 DEF Accepted, Advance, KeptInv, FileRead, Adopting
  <2>3. OnlyInCookies'
    BY <1>1, <2>1
      DEF Accepted, Advance, KeptInv, LoginInv, TypeOK, Underway, OnlyInCookies,
          Adopting
  <2> QED
    BY <2>2, <2>3
<1>2. CASE SetCookies
  <2>1. /\ job'.from = job.from /\ job'.token = job.token /\ job'.mark = job.mark
        /\ job'.at = "save"
    BY <1>2 DEF SetCookies, Advance, KeptInv, LoginInv, TypeOK, Jobs
  <2>2. FileRead'
    BY <1>2, <2>1 DEF SetCookies, Advance, KeptInv, FileRead, Adopting
  <2>3. OnlyInCookies'
    BY <1>2, <2>1
      DEF SetCookies, Advance, KeptInv, LoginInv, TypeOK, Underway, OnlyInCookies,
          Adopting
  <2> QED
    BY <2>2, <2>3
<1>3. CASE SaveCookies
  <2>1. /\ job'.from = job.from /\ job'.token = job.token /\ job'.mark = job.mark
        /\ job'.at = "token"
    BY <1>3 DEF SaveCookies, Advance, KeptInv, LoginInv, TypeOK, Jobs
  <2>2. FileRead'
    BY <1>3, <2>1 DEF SaveCookies, Advance, KeptInv, FileRead, Adopting
  <2>3. OnlyInCookies'
    BY <1>3, <2>1
      DEF SaveCookies, Advance, KeptInv, LoginInv, TypeOK, Underway, OnlyInCookies,
          Adopting
  <2> QED
    BY <2>2, <2>3
<1>4. CASE SetAccessToken
  <2>1. /\ job'.from = job.from /\ job'.token = job.token /\ job'.mark = job.mark
        /\ job'.at = "user"
    BY <1>4 DEF SetAccessToken, Advance, KeptInv, LoginInv, TypeOK, Jobs
  <2>2. FileRead'
    BY <1>4, <2>1 DEF SetAccessToken, Advance, KeptInv, FileRead, Adopting
  <2>3. OnlyInCookies'
    BY <1>4, <2>1
      DEF SetAccessToken, Advance, KeptInv, LoginInv, TypeOK, Underway, OnlyInCookies,
          Adopting
  <2> QED
    BY <2>2, <2>3
<1> QED
  BY <1>1, <1>2, <1>3, <1>4

LEMMA UserKept ==
  ASSUME KeptInv, SetValidatedAccessState \/ DeviceKnown
  PROVE  FileRead' /\ OnlyInCookies'
<1> USE SessionAssumption DEF twitch, files, account
<1>1. CASE SetValidatedAccessState
  <2>1. /\ job'.from = job.from /\ job'.token = job.token /\ job'.mark = job.mark
        /\ job'.at \in {"device", "compare", "end"}
    BY <1>1 DEF SetValidatedAccessState, Advance, KeptInv, LoginInv, TypeOK, Jobs
  <2> QED
    BY <1>1, <2>1
      DEF SetValidatedAccessState, Advance, KeptInv, FileRead, OnlyInCookies, Adopting
<1>2. CASE DeviceKnown
  <2>1. /\ job'.from = job.from /\ job'.token = job.token /\ job'.mark = job.mark
        /\ job'.at = "end"
    BY <1>2 DEF DeviceKnown, Advance, KeptInv, LoginInv, TypeOK, Jobs
  <2> QED
    BY <1>2, <2>1 DEF DeviceKnown, Advance, KeptInv, FileRead, OnlyInCookies, Adopting
<1> QED
  BY <1>1, <1>2

\* A login is looked for only when the credential is in the session file, or
\* is none that Twitch takes.
LEMMA LoginRequiredKept ==
  ASSUME KeptInv, LoginRequired, job.from = "state",
         given \in valid => given = file.content,
         UNCHANGED <<valid, files>>
  PROVE  FileRead' /\ OnlyInCookies'
<1>1. job'.mark = job.mark /\ job'.at \in {"login", "open"}
  <2>1. CASE job.again
    BY <2>1 DEF LoginRequired, KeptInv, LoginInv, TypeOK, Jobs
  <2>2. CASE ~ job.again
    <3>1. job' = [[job EXCEPT !.at = "open"] EXCEPT !.from = "file"]
      BY <2>2 DEF LoginRequired
    <3> QED
      BY <3>1 DEF KeptInv, LoginInv, TypeOK, Jobs
  <2> QED
    BY <2>1, <2>2
<1>2. FileRead'
  BY <1>1 DEF KeptInv, FileRead, files, Adopting
<1>3. OnlyInCookies'
  BY DEF OnlyInCookies, files
<1> QED
  BY <1>2, <1>3

LEMMA BeginKept ==
  ASSUME KeptInv, Begin
  PROVE  FileRead' /\ OnlyInCookies'
<1> DEFINE token == IF held # Nobody THEN held ELSE jar
<1> USE SessionAssumption DEF twitch, files, account
<1>1. job.from = "state" /\ phase # "down" /\ valid \subseteq Tokens
  BY NoJobIsJob DEF Begin, KeptInv, LoginInv, TypeOK, AtWork, Underway
<1>2. given \in valid /\ given # file.content => token = given /\ given # Nobody
  BY <1>1 DEF KeptInv, OnlyInCookies, LoginInv, Settled
<1>3. CASE Authenticated
  <2>1. /\ job'.from = job.from /\ job'.mark = job.mark /\ job'.at = "device"
    BY <1>3 DEF Begin, Advance, KeptInv, LoginInv, TypeOK, Jobs
  <2> QED
    BY <1>1, <1>3, <2>1
      DEF Begin, Advance, Authenticated, KeptInv, FileRead, OnlyInCookies, Adopting
<1>4. CASE ~ Authenticated /\ token = Nobody
  <2>1. LoginRequired
    BY <1>4 DEF Begin
  <2> QED
    BY <1>1, <1>2, <1>4, <2>1, LoginRequiredKept DEF Begin
<1>5. CASE ~ Authenticated /\ token # Nobody
  <2>1. job' = [[job EXCEPT !.at = "ask"] EXCEPT !.token = token]
    BY <1>5 DEF Begin
  <2>2. /\ job'.from = job.from /\ job'.mark = job.mark /\ job'.at = "ask" /\ job'.token = token
    BY <2>1 DEF KeptInv, LoginInv, TypeOK, Jobs
  <2>3. FileRead'
    BY <1>1, <1>5, <2>2 DEF Begin, KeptInv, FileRead
  <2>4. OnlyInCookies'
    BY <1>1, <1>2, <1>5, <2>2 DEF Begin, KeptInv, OnlyInCookies
  <2> QED
    BY <2>3, <2>4
<1> QED
  BY <1>3, <1>4, <1>5

LEMMA ReturnKept ==
  ASSUME KeptInv,
         \/ Refused \/ OtherUser \/ AskFails \/ SaveFails
         \/ DeviceFails \/ Succeeds \/ NoLogin
  PROVE  FileRead' /\ OnlyInCookies'
<1> USE SessionAssumption DEF twitch, files
<1>1. CASE Refused
  <2>1. CASE job.from = "state"
    <3>1. given \in valid => given = file.content
      BY <1>1 DEF Refused, KeptInv, OnlyInCookies
    <3>2. UNCHANGED files
      BY <1>1, <2>1, UnderWay, ClosesNot DEF Refused, KeptInv
    <3> QED
      BY <1>1, <2>1, <3>1, <3>2, LoginRequiredKept DEF Refused
  <2>2. CASE job.from # "state"
    <3>1. Fails /\ job.at # "none"
      BY <1>1, <2>2 DEF Refused
    <3> QED
      BY <1>1, <3>1, FailsForget, UnderWay, ClosesSaves, EndKept DEF Refused, KeptInv
  <2> QED
    BY <2>1, <2>2
<1>2. CASE OtherUser
  BY <1>2, FailsForget, UnderWay, ClosesSaves, EndKept DEF OtherUser, KeptInv
<1>3. CASE AskFails
  BY <1>3, FailsForget, UnderWay, ClosesSaves, EndKept DEF AskFails, KeptInv
<1>4. CASE SaveFails
  BY <1>4, FailsForget, UnderWay, EndKept DEF SaveFails, KeptInv
<1>5. CASE DeviceFails
  BY <1>5, ReturnsForget, UnderWay, ClosesSaves, EndKept DEF DeviceFails, KeptInv
<1>6. CASE Succeeds
  BY <1>6, ReturnsForget, UnderWay, EndKept DEF Succeeds, KeptInv, SavedOrNot
<1>7. CASE NoLogin
  <2>1. CASE phase # "greeting" /\ Returns("login")
    BY <1>7, <2>1, ReturnsForget, UnderWay, ClosesSaves, EndKept DEF NoLogin, KeptInv
  <2>2. ASSUME NEW t \in Tokens \cup {Garbled}, phase = "greeting",
               job' = [job EXCEPT !.at = "ask", !.from = "browser", !.token = t],
               UNCHANGED <<fileLock, phase, jar, account, stage>>
        PROVE  FileRead' /\ OnlyInCookies'
    <3>1. job' = [[[job EXCEPT !.at = "ask"] EXCEPT !.from = "browser"] EXCEPT !.token = t]
      BY <2>2
    <3>2. job'.mark = job.mark /\ job'.at = "ask" /\ job'.from = "browser"
      BY <3>1 DEF KeptInv, LoginInv, TypeOK, Jobs
    <3>3. UNCHANGED files
      BY <1>7, <2>2, UnderWay, ClosesNot DEF NoLogin, KeptInv
    <3> QED
      BY <1>7, <3>2, <3>3 DEF NoLogin, KeptInv, FileRead, OnlyInCookies
  <2> QED
    BY <1>7, <2>1, <2>2 DEF NoLogin
<1> QED
  BY <1>1, <1>2, <1>3, <1>4, <1>5, <1>6, <1>7

LEMMA LooksKept ==
  ASSUME KeptInv, Looks
  PROVE  FileRead' /\ OnlyInCookies'
<1> USE SessionAssumption DEF twitch, files, account
<1>0. job.from = "file" /\ valid \subseteq Tokens
  BY DEF Looks, KeptInv, LoginInv, TypeOK, Underway, Importing
<1>1. CASE file.content = Nobody
  <2>1. job' = [[job EXCEPT !.at = "login"] EXCEPT !.from = "state"]
    BY <1>1 DEF Looks
  <2>2. job'.mark = job.mark /\ job'.at = "login" /\ job'.from = "state"
    BY <2>1 DEF KeptInv, LoginInv, TypeOK, Jobs
  <2> QED
    BY <1>0, <1>1, <2>2 DEF Looks, KeptInv, FileRead, OnlyInCookies
<1>2. CASE file.content # Nobody
  <2>1. job'.mark = job.mark /\ job'.at = "lock" /\ job'.from = job.from
    BY <1>2 DEF Looks, KeptInv, LoginInv, TypeOK, Jobs
  <2> QED
    BY <1>0, <2>1 DEF Looks, KeptInv, FileRead, OnlyInCookies, Adopting
<1> QED
  BY <1>1, <1>2

LEMMA LocksKept ==
  ASSUME KeptInv, Locks
  PROVE  FileRead' /\ OnlyInCookies'
<1> USE SessionAssumption DEF twitch, files, account
<1>1. CASE Fault /\ Returns("error")
  BY <1>1, ReturnsForget, UnderWay, ClosesSaves, EndKept DEF Locks, KeptInv
<1>2. CASE job' = [job EXCEPT !.at = "read"] /\ UNCHANGED <<phase, jar>>
  <2>1. job'.mark = job.mark /\ job'.at = "read" /\ job'.from = job.from
    BY <1>2 DEF KeptInv, LoginInv, TypeOK, Jobs
  <2>2. job.from = "file"
    BY DEF Locks, KeptInv, LoginInv, Underway, Importing
  <2>3. UNCHANGED files
    BY <1>2, UnderWay, ClosesNot DEF Locks, KeptInv
  <2> QED
    BY <1>2, <2>1, <2>2, <2>3 DEF Locks, KeptInv, FileRead, OnlyInCookies, Adopting
<1> QED
  BY <1>1, <1>2 DEF Locks

LEMMA ReadKept ==
  ASSUME KeptInv, ReadSession
  PROVE  FileRead' /\ OnlyInCookies'
<1> USE SessionAssumption DEF twitch, files, account
<1>0. /\ job.from = "file" /\ valid \subseteq Tokens
      /\ given \in valid => given = file.content
  BY DEF ReadSession, KeptInv, LoginInv, TypeOK, Underway, Importing, OnlyInCookies
<1>1. CASE file.content = Garbled /\ Returns("error")
  BY <1>1, ReturnsForget, UnderWay, ClosesSaves, EndKept DEF ReadSession, KeptInv
<1>2. CASE /\ file.content = Nobody
           /\ job' = [job EXCEPT !.at = "login", !.from = "state"]
           /\ UNCHANGED <<phase, jar>>
  <2>1. job' = [[job EXCEPT !.at = "login"] EXCEPT !.from = "state"]
    BY <1>2
  <2>2. job'.mark = job.mark /\ job'.at = "login" /\ job'.from = "state"
    BY <2>1 DEF KeptInv, LoginInv, TypeOK, Jobs
  <2>3. UNCHANGED files
    BY <1>2, UnderWay, ClosesNot DEF ReadSession, KeptInv
  <2> QED
    BY <1>0, <1>2, <2>2, <2>3 DEF ReadSession, KeptInv, FileRead, OnlyInCookies
<1>3. CASE /\ file.content \in Tokens
           /\ job' = [job EXCEPT !.at = "ask", !.token = file.content, !.mark = file.serial]
           /\ UNCHANGED <<phase, jar>>
  <2>1. job' = [[[job EXCEPT !.at = "ask"] EXCEPT !.token = file.content]
                  EXCEPT !.mark = file.serial]
    BY <1>3
  <2>2. job'.mark = file.serial /\ job'.at = "ask" /\ job'.token = file.content
    BY <2>1 DEF KeptInv, LoginInv, TypeOK, Jobs
  <2>3. file.serial <= uploads
    BY DEF KeptInv, LoginInv, TypeOK
  <2>4. UNCHANGED files
    BY <1>3, UnderWay, ClosesNot DEF ReadSession, KeptInv
  <2> QED
    BY <1>0, <1>3, <2>2, <2>3, <2>4 DEF ReadSession, FileRead, OnlyInCookies
<1> QED
  BY <1>1, <1>2, <1>3 DEF ReadSession

\* A file that is still the one that was read holds the token that is by now in
\* the cookie file: it may go.
LEMMA ComparesKept ==
  ASSUME KeptInv, Compares
  PROVE  FileRead' /\ OnlyInCookies'
<1> USE SessionAssumption DEF twitch, files, account
<1>0. /\ job.from = "file" /\ valid \subseteq Tokens
      /\ given \in valid => given = file.content
  BY DEF Compares, KeptInv, LoginInv, TypeOK, Underway, Importing, OnlyInCookies
<1>1. CASE Again
  <2>1. job' = [[[job EXCEPT !.at = "begin"] EXCEPT !.again = TRUE] EXCEPT !.from = "state"]
    BY <1>1 DEF Again
  <2>2. job'.mark = job.mark /\ job'.at = "begin" /\ job'.from = "state"
    BY <2>1 DEF KeptInv, LoginInv, TypeOK, Jobs
  <2> QED
    BY <1>0, <1>1, <2>2 DEF Compares, KeptInv, FileRead, OnlyInCookies
<1>2. CASE file.content # Nobody /\ file.serial = job.mark /\ Advance("remove")
  <2>1. job'.mark = job.mark /\ job'.at = "remove" /\ job'.from = job.from
    BY <1>2 DEF Advance, KeptInv, LoginInv, TypeOK, Jobs
  <2>2. file.content = job.token
    BY <1>0, <1>2 DEF Compares, KeptInv, FileRead
  <2>3. cookies = job.token
    BY DEF Compares, KeptInv, LoginInv, Underway, Settled
  <2> QED
    BY <1>0, <1>2, <2>1, <2>2, <2>3 DEF Compares, KeptInv, FileRead, OnlyInCookies, Adopting
<1> QED
  BY <1>1, <1>2 DEF Compares

LEMMA RemovesKept ==
  ASSUME KeptInv, Removes
  PROVE  FileRead' /\ OnlyInCookies'
<1> USE SessionAssumption DEF twitch, files, account
<1>1. CASE Returns("error") /\ Closes
  BY <1>1, ReturnsForget, UnderWay, ClosesSaves, EndKept DEF Removes, KeptInv
<1>2. CASE /\ file' = [content |-> Nobody, serial |-> 0] /\ Again
           /\ UNCHANGED <<cookies, uploads, given>>
  <2>1. job' = [[[job EXCEPT !.at = "begin"] EXCEPT !.again = TRUE] EXCEPT !.from = "state"]
    BY <1>2 DEF Again
  <2>2. job'.mark = job.mark /\ job'.at = "begin" /\ job'.from = "state"
    BY <2>1 DEF KeptInv, LoginInv, TypeOK, Jobs
  <2>3. given \in valid => given = cookies /\ given = jar
    BY DEF Removes, KeptInv, FileRead, LoginInv, Underway, Settled
  <2> QED
    BY <1>2, <2>2, <2>3 DEF Removes, Again, KeptInv, FileRead, OnlyInCookies, Adopting
<1> QED
  BY <1>1, <1>2 DEF Removes

LEMMA StartKept ==
  ASSUME KeptInv, Start \/ Stops \/ \E c \in Callers : Enters(c)
  PROVE  FileRead' /\ OnlyInCookies'
<1> USE SessionAssumption DEF twitch, files
<1>0. ASSUME NEW c PROVE /\ Starting(c).from = "state" /\ Starting(c).mark = 0
                         /\ Starting(c).at = "begin"
  BY DEF Starting
<1>1. CASE Start
  <2>1. job'.from = "state" /\ job'.mark = 0 /\ job'.at = "begin"
    BY <1>0, <1>1 DEF Start
  <2> QED
    BY <1>1, <2>1 DEF Start, KeptInv, LoginInv, TypeOK, FileRead, OnlyInCookies, Adopting
<1>2. CASE Stops
  BY <1>2, NoJobIsJob, EndKept DEF Stops, GoesDown, Closes, SavedOrNot
<1>3. ASSUME NEW c \in Callers, Enters(c)
      PROVE  FileRead' /\ OnlyInCookies'
  <2>1. job'.from = "state" /\ job'.mark = 0 /\ job'.at = "begin"
    BY <1>0, <1>3 DEF Enters
  <2> QED
    BY <1>3, <2>1, EndKept DEF Enters, SavedOrNot
<1> QED
  BY <1>1, <1>2, <1>3

LEMMA KeptStep == KeptInv /\ [Next]_vars => KeptInv'
<1> SUFFICES ASSUME KeptInv, [Next]_vars PROVE KeptInv'
  OBVIOUS
<1>1. LoginInv'
  BY LoginStep DEF KeptInv
<1>2. CASE Next
  <2>1. FileRead' /\ OnlyInCookies'
    BY <1>2, WorldKept, AskKept, UserKept, BeginKept, ReturnKept, LooksKept, LocksKept,
       ReadKept,
       ComparesKept, RemovesKept, StartKept DEF Next, Calls
  <2> QED
    BY <1>1, <2>1 DEF KeptInv
<1>3. CASE UNCHANGED vars
  BY <1>1, <1>3 DEF vars, KeptInv, FileRead, OnlyInCookies
<1> QED
  BY <1>2, <1>3

LEMMA KeptInit == Init => KeptInv
BY LoginInit, NoJobIsJob, SessionAssumption
   DEF Init, Forgotten, KeptInv, FileRead, OnlyInCookies, Adopting

\* A credential handed over in a session file is in that file or in the cookie
\* file until Twitch revokes it, through crashes, failing saves, refused tokens
\* and newer files (session_auto.go).
THEOREM CredentialAlwaysKept == Spec => []CredentialKept
<1>1. KeptInv => CredentialKept
  BY DEF KeptInv, OnlyInCookies, CredentialKept
<1> QED
  BY KeptInit, KeptStep, <1>1, PTL DEF Spec

-----------------------------------------------------------------------------
(* No success with a dead token *)

(* The tokens that were dead when the call began stay so; one that Twitch  *)
(* accepted since is none of them, and within the interval the state holds *)
(* no other.                                                               *)
DeadKnown ==
    /\ job.dead \cap valid = {}
    /\ fresh => held \notin job.dead
    /\ job.at \in Adopting => job.token \notin job.dead
    /\ job.at \in {"device", "end"} => held \notin job.dead

DeadInv == LoginInv /\ DeadKnown

\* A call that starts: within the interval it takes nothing for dead.
LEMMA StartingKnows ==
  ASSUME NEW c, job' = Starting(c), held' = held, fresh' = fresh, valid' \subseteq valid
  PROVE  DeadKnown'
<1>1. /\ job'.at = "begin" /\ job'.dead \cap valid = {}
      /\ fresh => job'.dead = {}
  BY DEF Starting
<1> QED
  BY <1>1 DEF DeadKnown, Adopting

\* A call that is over.
LEMMA NoJobKnows ==
  ASSUME job' = NoJob
  PROVE  DeadKnown'
BY DEF NoJob, DeadKnown, Adopting

LEMMA ReturnsKnows ==
  ASSUME LoginInv, DeadKnown, NEW result, Returns(result) \/ Fails, valid' = valid
  PROVE  DeadKnown'
<1>1. job' = NoJob \/ (job' = Starting(Main) /\ UNCHANGED account)
  BY DEF Returns, Fails, MainReturns, BindUser, GoesDown
<1> QED
  BY <1>1, NoJobKnows, StartingKnows DEF account

\* A step that leaves the call where it needs to know nothing new.
LEMMA OnTheWayKnows ==
  ASSUME DeadKnown, valid' \subseteq valid, job'.dead = job.dead,
         fresh' => fresh, held' = held \/ (held' = Nobody /\ Nobody \notin job.dead),
         job'.at \notin Adopting \cup {"device", "end"}
            \/ (job'.at = job.at /\ job'.token = job.token)
  PROVE  DeadKnown'
BY DEF DeadKnown

LEMMA WorldKnows ==
  ASSUME LoginInv, DeadKnown,
         \/ Revoke \/ IntervalPasses \/ ExportStarts \/ ExportEnds \/ Upload
         \/ LoginOffline \/ Start \/ Stops
         \/ \E c \in Callers : Wants(c) \/ Enters(c)
  PROVE  DeadKnown'
<1>1. CASE Revoke
  BY <1>1, OnTheWayKnows DEF Revoke, account
<1>2. CASE IntervalPasses
  BY <1>2, OnTheWayKnows DEF IntervalPasses, twitch
<1>3. CASE ExportStarts \/ ExportEnds \/ Upload \/ LoginOffline
  BY <1>3, OnTheWayKnows
     DEF ExportStarts, ExportEnds, WriteSession, Upload, LoginOffline, twitch, account
<1>4. CASE Start
  BY <1>4, StartingKnows DEF Start, twitch, account
<1>5. CASE Stops
  BY <1>5, NoJobKnows DEF Stops, GoesDown
<1>6. CASE \E c \in Callers : Wants(c)
  BY <1>6, OnTheWayKnows DEF Wants, twitch, account
<1>7. CASE \E c \in Callers : Enters(c)
  BY <1>7, StartingKnows DEF Enters, twitch, account
<1> QED
  BY <1>1, <1>2, <1>3, <1>4, <1>5, <1>6, <1>7

\* The calls on Twitch and what follows an accepted token.
LEMMA AdoptingKnows ==
  ASSUME LoginInv, DeadKnown,
         \/ Accepted \/ SetCookies \/ SaveCookies \/ SetAccessToken
         \/ SetValidatedAccessState \/ DeviceKnown
  PROVE  DeadKnown'
<1> USE DEF DeadKnown, Adopting
<1>0. job \in Jobs
  BY DEF LoginInv, TypeOK
<1>a. ASSUME NEW at, Advance(at)
      PROVE  job'.at = at /\ job'.token = job.token /\ job'.dead = job.dead
  BY <1>0, <1>a DEF Advance, Jobs
<1>1. CASE Accepted
  <2>1. /\ job'.at = "cookies" /\ job'.token = job.token /\ job'.dead = job.dead
        /\ job.token \in valid
    BY <1>1, <1>a DEF Accepted
  <2> QED
    BY <1>1, <2>1 DEF Accepted, twitch, account
<1>2. CASE SetCookies
  BY <1>2, <1>a DEF SetCookies, twitch, account
<1>3. CASE SaveCookies
  BY <1>3, <1>a DEF SaveCookies, twitch, account
<1>4. CASE SetAccessToken
  BY <1>4, <1>a DEF SetAccessToken, twitch
<1>5. CASE SetValidatedAccessState
  <2>1. job'.token = job.token /\ job'.dead = job.dead /\ job'.at \notin Adopting
    BY <1>0, <1>5 DEF SetValidatedAccessState, Advance, Jobs
  <2>2. held = job.token
    BY <1>5 DEF SetValidatedAccessState, LoginInv, Underway
  <2> QED
    BY <1>5, <2>1, <2>2 DEF SetValidatedAccessState, twitch
<1>6. CASE DeviceKnown
  BY <1>6, <1>a DEF DeviceKnown, twitch
<1> QED
  BY <1>1, <1>2, <1>3, <1>4, <1>5, <1>6

\* The other steps of a call that do not end it.
LEMMA LoginRequiredKnows ==
  ASSUME LoginInv, DeadKnown, LoginRequired, valid' = valid, fresh' = fresh,
         held' \in {held, Nobody}
  PROVE  DeadKnown'
<1>1. job \in Jobs /\ Nobody \notin job.dead
  BY SessionAssumption DEF LoginInv, TypeOK, Jobs
<1>2. job'.dead = job.dead /\ job'.at \in {"login", "open"}
  <2>1. CASE job.again
    BY <1>1, <2>1 DEF LoginRequired, Jobs
  <2>2. CASE ~ job.again
    <3>1. job' = [[job EXCEPT !.at = "open"] EXCEPT !.from = "file"]
      BY <2>2 DEF LoginRequired
    <3> QED
      BY <1>1, <3>1 DEF Jobs
  <2> QED
    BY <2>1, <2>2
<1> QED
  BY <1>1, <1>2, OnTheWayKnows DEF Adopting

LEMMA AgainKnows ==
  ASSUME LoginInv, DeadKnown, Again, valid' = valid
  PROVE  DeadKnown'
<1>1. job'.dead = job.dead /\ job'.at = "begin"
  <2>1. job' = [[[job EXCEPT !.at = "begin"] EXCEPT !.again = TRUE] EXCEPT !.from = "state"]
    BY DEF Again
  <2> QED
    BY <2>1 DEF LoginInv, TypeOK, Jobs
<1> QED
  BY <1>1, OnTheWayKnows DEF Again, account, Adopting

LEMMA OtherStepsKnow ==
  ASSUME LoginInv, DeadKnown,
         \/ Begin \/ Refused \/ OtherUser \/ AskFails \/ SaveFails \/ DeviceFails \/ Succeeds
         \/ Looks \/ Locks \/ ReadSession \/ Compares \/ Removes \/ NoLogin
  PROVE  DeadKnown'
<1> USE DEF twitch
<1>0. job \in Jobs
  BY DEF LoginInv, TypeOK
<1>1. CASE Begin
  <2>1. CASE Authenticated
    <3>1. job'.at = "device" /\ job'.dead = job.dead /\ job'.token = job.token
      BY <1>0, <1>1, <2>1 DEF Begin, Advance, Jobs
    <3> QED
      BY <1>1, <2>1, <3>1 DEF Begin, Authenticated, account, DeadKnown, Adopting
  <2>2. CASE ~ Authenticated /\ LoginRequired
    BY <1>1, <2>2, LoginRequiredKnows DEF Begin, account
  <2>3. CASE ~ Authenticated /\ ~ LoginRequired
    <3>1. job'.at = "ask" /\ job'.dead = job.dead
      BY <1>0, <1>1, <2>3 DEF Begin, Jobs
    <3> QED
      BY <1>1, <2>3, <3>1, OnTheWayKnows DEF Begin, account, Adopting
  <2> QED
    BY <2>1, <2>2, <2>3
<1>2. CASE Refused
  <2>1. CASE job.from = "state"
    BY <1>2, <2>1, LoginRequiredKnows DEF Refused
  <2>2. CASE job.from # "state"
    BY <1>2, <2>2, ReturnsKnows DEF Refused
  <2> QED
    BY <2>1, <2>2
<1>3. CASE OtherUser \/ AskFails \/ SaveFails \/ DeviceFails \/ Succeeds
  BY <1>3, ReturnsKnows DEF OtherUser, AskFails, SaveFails, DeviceFails, Succeeds
<1>4. CASE Looks
  <2>1. job'.dead = job.dead /\ job'.at \in {"login", "lock"}
    BY <1>0, <1>4 DEF Looks, Jobs
  <2> QED
    BY <1>4, <2>1, OnTheWayKnows DEF Looks, account, Adopting
<1>5. CASE Locks
  <2>1. CASE job' = [job EXCEPT !.at = "read"] /\ UNCHANGED account
    <3>1. job'.dead = job.dead /\ job'.at = "read"
      BY <1>0, <2>1 DEF Jobs
    <3> QED
      BY <1>5, <2>1, <3>1, OnTheWayKnows DEF Locks, account, Adopting
  <2>2. CASE Returns("error")
    BY <1>5, <2>2, ReturnsKnows DEF Locks
  <2> QED
    BY <1>5, <2>1, <2>2 DEF Locks
<1>6. CASE ReadSession
  <2>1. CASE Returns("error")
    BY <1>6, <2>1, ReturnsKnows DEF ReadSession
  <2>2. CASE ~ Returns("error")
    <3>1. job'.dead = job.dead /\ job'.at \in {"login", "ask"} /\ UNCHANGED account
      BY <1>0, <1>6, <2>2 DEF ReadSession, Jobs
    <3> QED
      BY <1>6, <3>1, OnTheWayKnows DEF ReadSession, account, Adopting
  <2> QED
    BY <2>1, <2>2
<1>7. CASE Compares
  <2>1. CASE Advance("remove") /\ UNCHANGED account
    <3>1. job'.dead = job.dead /\ job'.at = "remove"
      BY <1>0, <2>1 DEF Advance, Jobs
    <3> QED
      BY <1>7, <2>1, <3>1, OnTheWayKnows DEF Compares, account, Adopting
  <2>2. CASE Again
    BY <1>7, <2>2, AgainKnows DEF Compares
  <2> QED
    BY <1>7, <2>1, <2>2 DEF Compares
<1>8. CASE Removes
  BY <1>8, AgainKnows, ReturnsKnows DEF Removes
<1>9. CASE NoLogin
  <2>1. CASE Returns("login")
    BY <1>9, <2>1, ReturnsKnows DEF NoLogin
  <2>2. CASE ~ Returns("login")
    <3>1. job'.dead = job.dead /\ job'.at = "ask" /\ UNCHANGED account
      BY <1>0, <1>9, <2>2 DEF NoLogin, Jobs
    <3> QED
      BY <1>9, <3>1, OnTheWayKnows DEF NoLogin, account, Adopting
  <2> QED
    BY <2>1, <2>2
<1> QED
  BY <1>1, <1>2, <1>3, <1>4, <1>5, <1>6, <1>7, <1>8, <1>9

LEMMA DeadStep == DeadInv /\ [Next]_vars => DeadInv'
<1> SUFFICES ASSUME DeadInv, [Next]_vars PROVE DeadInv'
  OBVIOUS
<1>1. LoginInv'
  BY LoginStep DEF DeadInv
<1>2. CASE Next
  <2>1. DeadKnown'
    BY <1>2, WorldKnows, AdoptingKnows, OtherStepsKnow DEF Next, Calls, DeadInv
  <2> QED
    BY <1>1, <2>1 DEF DeadInv
<1>3. CASE UNCHANGED vars
  BY <1>1, <1>3 DEF vars, DeadInv, DeadKnown
<1> QED
  BY <1>2, <1>3

\* A Validate that began after the interval never succeeds with a token that
\* was revoked before it: what it ends with, Twitch has accepted since, from
\* the state, from the session file or after a second look (identity.go,
\* session_auto.go).
THEOREM DeadAlwaysRefused == Spec => DeadRefused
<1>1. Init => DeadInv
  BY LoginInit DEF Init, Forgotten, NoJob, DeadInv, DeadKnown, Adopting
<1>2. DeadInv => [Succeeds => held \notin job.dead]_vars
  BY DEF DeadInv, DeadKnown, Succeeds
<1> QED
  BY <1>1, <1>2, DeadStep, PTL DEF Spec, DeadRefused

=============================================================================
