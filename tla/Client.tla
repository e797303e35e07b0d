-------------------------------- MODULE Client --------------------------------
(***************************************************************************)
(* One client and the server's side of its connection.  The client is      *)
(* client/client.c: it takes one option of the command line after the      *)
(* other, and for each file of an option calls the API (client/api/api.c), *)
(* which sends a request field by field and reads the answer field by      *)
(* field.  On the other side some worker (server/server.c) does the        *)
(* opposite; what the file-system makes of the request is left open.       *)
(*                                                                         *)
(* Either side may go away between any two fields: the client is killed,   *)
(* the server is told to stop or exits at once (SIGTERM).  What is at      *)
(* stake is that the two stay in step, that the client believes about each *)
(* request what the server did, and that neither waits for ever.           *)
(***************************************************************************)
EXTENDS Protocol

CONSTANTS
  Plans,     \* the command lines: sequences of options
  MaxFiles,  \* how many files an answer carries at most
  Capacity   \* how many fields a direction of the socket holds

ASSUME BoundsAssumption == MaxFiles \in Nat /\ Capacity \in Nat \ {0}

\* An option: its letter, how many files it names or how many a directory
\* holds, and the directory of -D or -d for the files that come back.
Letters   == {"w", "W", "a", "r", "R", "l", "u", "c", "s", "o", "e", "n"}
Options   == [letter : Letters, files : Nat, dir : BOOLEAN]

ASSUME PlansAssumption == Plans \subseteq Seq(Options)

VARIABLES
  \* the client
  home,        \* was -O given, a directory for what openFile makes evicted?
  options,     \* what is left of the command line, the current option first
  todo,        \* the files of the current option that are left
  cpc,         \* where the client is
  connected,
  call,        \* the request of the API call it is in
  toSend,      \* the fields it has still to send
  next,        \* the field it reads next
  more,        \* the files it has still to read
  errno, error,
  \* the wire
  toServer, toClient,
  reset,       \* did the server close with a request unread?
  \* the server
  server,      \* "starting", "up" or "down"
  signal,
  spc,         \* where its side of the connection is
  sop, args,   \* the request that is read, and the kinds of fields it lacks
  number,      \* the number in it
  out, list,   \* the fields of the answer that are left to send, and then
               \* those of the list of files
  closeConnection,
  evicting,    \* did the request evict files?
  \* what happened since the call began
  outcome,     \* what the server did: "none" yet, "ok" or "refused"; or it was
               \* "notAsked", since the call failed before it sent anything
  sent,        \* how many files it sent
  got, saved,  \* how many the client read whole, and how many it saved
  justCreated  \* was the last request done an openFile(O_CREATE|O_LOCK)?

planVars   == <<home, options, todo, error>>
apiVars    == <<cpc, call, toSend, next, more, errno>>
serverVars == <<server, signal, spc, sop, args, number, out, list, closeConnection,
                evicting>>
pastVars   == <<outcome, sent, got, saved, justCreated>>
wireVars   == <<toServer, toClient, reset>>
vars == <<planVars, apiVars, connected, serverVars, wireVars, pastVars>>

NoCall == 0
None   == "none"   \* errno 0

Init ==
  /\ home \in BOOLEAN
  /\ options \in Plans
  /\ todo = 0
  /\ cpc = "connect"
  /\ connected = FALSE
  /\ call = NoCall
  /\ toSend = <<>>
  /\ next = "none"
  /\ more = 0
  /\ errno = None /\ error = None
  /\ toServer = <<>> /\ toClient = <<>>
  /\ reset = FALSE
  /\ server \in {"starting", "up"}
  /\ signal = "none"
  /\ spc = "none"
  /\ sop = NoCall
  /\ args = <<>>
  /\ number = 0
  /\ out = <<>> /\ list = <<>>
  /\ closeConnection = FALSE /\ evicting = FALSE
  /\ outcome = "none"
  /\ sent = 0 /\ got = 0 /\ saved = 0
  /\ justCreated = FALSE

Option == Head(options)

-----------------------------------------------------------------------------
(* The client connects.                                                    *)

\* A signal that came before leaves the connection in the backlog of the
\* listening socket.
Connect ==
  /\ cpc = "connect" /\ server = "up"
  /\ cpc' = "option"
  /\ connected' = TRUE
  /\ spc' = IF signal = "none" THEN "idle" ELSE "backlog"
  /\ UNCHANGED <<planVars, call, toSend, next, more, errno, server, signal, sop, args,
                 number, out, list, closeConnection, evicting, wireVars, pastVars>>

\* openConnection tries again until the time is over, or fails at once if
\* there is a socket and nobody listens.  main goes on all the same.
GiveUp ==
  /\ cpc = "connect" /\ server # "up"
  /\ cpc' = "option"
  /\ UNCHANGED <<planVars, call, toSend, next, more, errno, connected, serverVars,
                 wireVars, pastVars>>

-----------------------------------------------------------------------------
(* The client takes an option.                                             *)

OnlyTheOption ==
  UNCHANGED <<home, call, toSend, next, more, errno, connected, serverVars,
              wireVars, pastVars>>

\* The option has n files to handle, if any; List_create has reset error.
Begin(n) ==
  /\ cpc' = IF n = 0 THEN "option" ELSE "call"
  /\ options' = IF n = 0 THEN Tail(options) ELSE options
  /\ todo' = n
  /\ error' = None
  /\ OnlyTheOption

\* error = 1 is EPERM, which does not stop the loop over the options.
SkipOption ==
  /\ options' = Tail(options)
  /\ error' = "EPERM"
  /\ UNCHANGED <<cpc, todo>>
  /\ OnlyTheOption

\* An option without its argument stops the client.
WrongUsage ==
  /\ Option.files = 0
  /\ cpc' = "exited"
  /\ error' = "EPERM"
  /\ UNCHANGED <<options, todo>>
  /\ OnlyTheOption

Takes(letters) == cpc = "option" /\ options # <<>> /\ Option.letter \in letters

\* How many regular files may be found in a directory that is asked for n.
ReadNFilesFromDir(n) == 0 .. n

OptionDir ==
  /\ Takes({"w"})
  /\ (\E n \in ReadNFilesFromDir(Option.files) : Begin(n)) \/ SkipOption \/ WrongUsage

ListOption(letter) ==
  /\ Takes({letter})
  /\ WrongUsage \/ (Option.files > 0 /\ Begin(Option.files))

OptionWrite  == ListOption("W")
OptionRead   == ListOption("r")
OptionLock   == ListOption("l")
OptionUnlock == ListOption("u")
OptionRemove == ListOption("c")
OptionClose  == ListOption("s")
OptionOpen   == ListOption("o") \/ ListOption("e") \/ ListOption("n")

\* The first file of -a is the local one the content comes from.
OptionAppend == /\ Takes({"a"})
                /\ (Option.files > 0 /\ Begin(Option.files)) \/ SkipOption \/ WrongUsage

OptionReadN ==
  /\ Takes({"R"})
  /\ cpc' = "call"
  /\ todo' = 1
  /\ UNCHANGED <<options, error>>
  /\ OnlyTheOption

Exit ==
  /\ cpc = "option" /\ options = <<>>
  /\ cpc' = "exited"
  /\ UNCHANGED <<options, todo, error>>
  /\ OnlyTheOption

TakeOption ==
  \/ OptionDir \/ OptionWrite \/ OptionRead \/ OptionLock \/ OptionUnlock
  \/ OptionRemove \/ OptionClose \/ OptionOpen \/ OptionAppend \/ OptionReadN
  \/ Exit

-----------------------------------------------------------------------------
(* A call of the API sends its request.                                    *)

\* The flags of openFile: O_CREATE is 1, O_LOCK is 2.
Flags == CASE Option.letter \in {"w", "W"} -> 3
           [] Option.letter = "e" -> 1
           [] Option.letter = "n" -> 2
           [] OTHER -> 0

FirstCall == CASE Option.letter \in {"w", "W", "o", "e", "n"} -> OPEN_FILE
               [] Option.letter = "a" -> APPEND_TO_FILE
               [] Option.letter = "r" -> READ_FILE
               [] Option.letter = "R" -> READ_N_FILES
               [] Option.letter = "l" -> LOCK_FILE
               [] Option.letter = "u" -> UNLOCK_FILE
               [] Option.letter = "c" -> REMOVE_FILE
               [] Option.letter = "s" -> CLOSE_FILE

\* The call returns with the error e.
ReturnWith(e) == cpc' = "return" /\ errno' = e

\* A new call of the API.
NewCall(op) ==
  /\ call' = op
  /\ sent' = 0 /\ got' = 0 /\ saved' = 0
  /\ UNCHANGED <<planVars, next, more, connected, serverVars, wireVars, justCreated>>

\* It sends its request.
CallApi(op) ==
  /\ NewCall(op)
  /\ cpc' = "send" /\ errno' = None
  /\ toSend' = Request(op, Flags)
  /\ outcome' = "none"

\* It returns at once, and has sent nothing.
CallFails(op, e) ==
  /\ NewCall(op)
  /\ ReturnWith(e)
  /\ toSend' = <<>>
  /\ outcome' = "notAsked"

\* The callback of an option is called for the next file.  readNFiles wants a
\* directory.
Call ==
  /\ cpc = "call"
  /\ IF Option.letter = "R" /\ ~ Option.dir
     THEN CallFails(READ_N_FILES, "EINVAL")
     ELSE CallApi(FirstCall)

\* A field is sent, or has to wait for room.
SendField ==
  /\ cpc = "send" /\ connected /\ spc # "closed" /\ Len(toServer) < Capacity
  /\ toServer' = Append(toServer, Head(toSend))
  /\ toSend' = Tail(toSend)
  /\ IF Len(toSend) = 1
     THEN cpc' = "receive" /\ next' = "result" /\ errno' = None
     ELSE UNCHANGED <<cpc, next, errno>>
  /\ UNCHANGED <<planVars, call, more, connected, serverVars, toClient, reset, pastVars>>

\* Without a connection the request fails.
SendUnconnected ==
  /\ cpc = "send" /\ ~ connected
  /\ ReturnWith("ENOTCONN")
  /\ toSend' = <<>>
  /\ UNCHANGED <<planVars, call, next, more, connected, serverVars, wireVars, pastVars>>

\* The client does not ignore SIGPIPE.
BrokenPipe ==
  /\ cpc = "send" /\ connected /\ spc = "closed"
  /\ cpc' = "killed"
  /\ toClient' = <<>>
  /\ UNCHANGED <<planVars, call, toSend, next, more, errno, connected, serverVars,
                 toServer, reset, pastVars>>

-----------------------------------------------------------------------------
(* It reads the answer.                                                    *)

KindOf(field) == IF field \in {"message", "path", "data"} THEN "bytes" ELSE "number"

\* The next field of the answer, which is expected to be `field'.
GetData(field) ==
  /\ cpc = "receive" /\ next = field /\ toClient # <<>>
  /\ toClient' = Tail(toClient)

Read == Head(toClient).is

Expect(field) == next' = field /\ UNCHANGED <<cpc, errno>>

OnlyTheAnswer ==
  UNCHANGED <<planVars, call, toSend, connected, serverVars, toServer, reset,
              outcome, sent, justCreated>>

Refused        == Read = 1 /\ Expect("message")
OpenFileGoesOn == Read # 1 /\ call = OPEN_FILE /\ Expect("evicted")
ReadFileGoesOn == Read # 1 /\ call = READ_FILE /\ Expect("empty")
FilesFollow ==
  Read # 1 /\ call \in {WRITE_FILE, APPEND_TO_FILE, READ_N_FILES} /\ Expect("count")
NothingFollows ==
  /\ Read # 1 /\ call \in {LOCK_FILE, UNLOCK_FILE, CLOSE_FILE, REMOVE_FILE}
  /\ ReturnWith(None) /\ UNCHANGED next

ReadResult ==
  /\ GetData("result")
  /\ Refused \/ OpenFileGoesOn \/ ReadFileGoesOn \/ FilesFollow \/ NothingFollows
  /\ UNCHANGED <<more, got, saved>>
  /\ OnlyTheAnswer

\* A plausible bug of ReadMessage: errno is left alone.
ReadMessageOnly ==
  /\ GetData("message")
  /\ ReturnWith(None)
  /\ UNCHANGED <<next, more, got, saved>>
  /\ OnlyTheAnswer

ReadMessage ==
  /\ GetData("message")
  /\ ReturnWith("EPERM")
  /\ UNCHANGED <<next, more, got, saved>>
  /\ OnlyTheAnswer

\* A plausible bug of ReadCount: off by one.
ReadCountLessOne ==
  /\ GetData("count") \/ GetData("evicted")
  /\ IF Read = 0 THEN ReturnWith(None) /\ UNCHANGED next ELSE Expect("path")
  /\ more' = Read - 1
  /\ UNCHANGED <<got, saved>>
  /\ OnlyTheAnswer

\* How many files follow: openFile asks if there is one.
ReadCount ==
  /\ GetData("count") \/ GetData("evicted")
  /\ IF Read = 0 THEN ReturnWith(None) /\ UNCHANGED next ELSE Expect("path")
  /\ more' = Read
  /\ UNCHANGED <<got, saved>>
  /\ OnlyTheAnswer

ReadPath ==
  /\ GetData("path")
  /\ Expect("empty")
  /\ UNCHANGED <<more, got, saved>>
  /\ OnlyTheAnswer

\* Is there a directory for the files that come with the answer?
SavesFiles == CASE call = OPEN_FILE -> home
                [] call = READ_FILE -> FALSE
                [] OTHER -> Option.dir

\* The errors of writeLocalFile, which does nothing without a directory: the
\* file was opened, and cannot be written.  One that cannot be opened crashes
\* the client, since it is closed all the same: see Kill.
WriteLocalFile(dir) == IF dir THEN {None, "EIO"} ELSE {None}

\* A file has arrived.  If saving it fails, errno tells of it until the next
\* field is read.
FileArrived ==
  /\ got' = got + 1
  /\ \E e \in WriteLocalFile(SavesFiles) :
       /\ saved' = IF SavesFiles /\ e = None THEN saved + 1 ELSE saved
       /\ IF more > 1 THEN Expect("path")
          ELSE ReturnWith(e) /\ UNCHANGED next
  /\ more' = Max({0, more - 1})
  /\ OnlyTheAnswer

ReadEmpty ==
  /\ GetData("empty")
  /\ \/ Read # 0 /\ FileArrived
     \/ Read = 0 /\ Expect("data") /\ UNCHANGED <<more, got, saved>> /\ OnlyTheAnswer

ReadContent == GetData("data") /\ FileArrived

\* The connection was closed.  errno was set to zero before the read, so that
\* the end of the stream looks like no error; and a refusal is one even if
\* the message does not arrive.
EndOfStream ==
  /\ cpc = "receive" /\ toClient = <<>> /\ spc = "closed"
  /\ ReturnWith(IF next = "message" THEN "EPERM"
                ELSE IF reset THEN "ECONNRESET" ELSE None)
  /\ reset' = FALSE
  /\ UNCHANGED <<planVars, call, toSend, next, more, connected, serverVars, toServer,
                 toClient, pastVars>>

Receive == \/ ReadResult \/ ReadMessage \/ ReadCount \/ ReadPath \/ ReadEmpty
           \/ ReadContent \/ EndOfStream

-----------------------------------------------------------------------------
(* The callbacks of the options look at errno when the call returns.       *)

Returned(op) == cpc = "return" /\ call = op

\* The file is done, with the error e, which ends the option and the client.
FileDone(e) ==
  /\ error' = e
  /\ todo' = todo - 1
  /\ IF e # None THEN cpc' = "exited" /\ UNCHANGED options
     ELSE IF todo > 1 THEN cpc' = "call" /\ UNCHANGED options
     ELSE cpc' = "option" /\ options' = Tail(options)
  /\ call' = NoCall
  /\ UNCHANGED <<home, toSend, next, more, errno, connected, serverVars, wireVars,
                 outcome, sent, got, justCreated>>

\* Refusals are not errors.
Blame(e) == IF e = "EPERM" THEN None ELSE e

\* The errors of readLocalFile when it fails.  What fails once the file is open
\* (a directory, no memory, a short read) is forgotten when it is closed, unless
\* that fails too: errno is reset first.
ReadLocalFile == {"ENOENT", None, "EIO"}

\* A plausible bug of WriteOptionCallback: it writes whatever openFile said.
WriteAnyway ==
  \/ Returned(OPEN_FILE) /\ Option.letter \in {"w", "W"} /\ CallApi(WRITE_FILE)
  \/ Returned(WRITE_FILE) /\ FileDone(Blame(errno)) /\ UNCHANGED saved

\* writeFile follows openFile; it may fail to read the local file.
WriteOptionCallback ==
  \/ /\ Returned(OPEN_FILE) /\ Option.letter \in {"w", "W"}
     /\ IF errno = None
        THEN CallApi(WRITE_FILE) \/ \E e \in ReadLocalFile : CallFails(WRITE_FILE, e)
        ELSE FileDone(Blame(errno)) /\ UNCHANGED saved
  \/ Returned(WRITE_FILE) /\ FileDone(Blame(errno)) /\ UNCHANGED saved

\* What was read is saved if there is a directory, and nobody asks if that worked.
ReadOptionCallback ==
  /\ Returned(READ_FILE)
  /\ FileDone(Blame(errno))
  /\ IF errno = None /\ Option.dir
     THEN \E e \in WriteLocalFile(TRUE) : saved' = IF e = None THEN saved + 1 ELSE saved
     ELSE UNCHANGED saved

OpenOptionCallback ==
  Returned(OPEN_FILE) /\ Option.letter \notin {"w", "W"} /\ FileDone(Blame(errno)) /\ UNCHANGED saved
AppendOptionCallback == Returned(APPEND_TO_FILE) /\ FileDone(Blame(errno)) /\ UNCHANGED saved
LockOptionCallback   == Returned(LOCK_FILE) /\ FileDone(Blame(errno)) /\ UNCHANGED saved
UnlockOptionCallback == Returned(UNLOCK_FILE) /\ FileDone(Blame(errno)) /\ UNCHANGED saved
RemoveOptionCallback == Returned(REMOVE_FILE) /\ FileDone(Blame(errno)) /\ UNCHANGED saved
CloseOptionCallback  == Returned(CLOSE_FILE) /\ FileDone(Blame(errno)) /\ UNCHANGED saved

\* -R has no callback, and only prints that something has gone wrong.
ReadNReturned ==
  /\ Returned(READ_N_FILES)
  /\ cpc' = "option"
  /\ options' = Tail(options)
  /\ call' = NoCall
  /\ UNCHANGED <<home, todo, error, toSend, next, more, errno, connected, serverVars,
                 wireVars, pastVars>>

Callback ==
  \/ WriteOptionCallback \/ ReadOptionCallback \/ OpenOptionCallback
  \/ AppendOptionCallback \/ LockOptionCallback \/ UnlockOptionCallback
  \/ RemoveOptionCallback \/ CloseOptionCallback \/ ReadNReturned

\* Somebody kills the client, or it crashes: it closes a local file that it could
\* not open, or frees a buffer that it never got before the end of the stream.
Kill ==
  /\ cpc \notin {"exited", "killed"}
  /\ cpc' = "killed"
  /\ toClient' = <<>>
  /\ UNCHANGED <<planVars, call, toSend, next, more, errno, connected, serverVars,
                 toServer, reset, pastVars>>

-----------------------------------------------------------------------------
(* The server.                                                             *)

ClientGone == connected /\ cpc \in {"exited", "killed"}

OnlyTheServer ==
  UNCHANGED <<planVars, apiVars, connected, got, saved>>

\* The server closes the connection; a request that is still unread is what
\* the client will hear of.
HangUp ==
  /\ spc' = "closed"
  /\ reset' = (toServer # <<>>)
  /\ toServer' = <<>>
  /\ out' = <<>> /\ list' = <<>>

Start ==
  /\ server = "starting"
  /\ server' = "up"
  /\ UNCHANGED <<signal, spc, sop, args, number, out, list, closeConnection, evicting, wireVars,
                 outcome, sent, justCreated>>
  /\ OnlyTheServer

Signal ==
  /\ server = "up" /\ signal = "none"
  /\ signal' \in {"SOFT_QUIT", "RAGE_QUIT"}
  /\ UNCHANGED <<server, spc, sop, args, number, out, list, closeConnection, evicting, wireVars,
                 outcome, sent, justCreated>>
  /\ OnlyTheServer

\* The process ends, and its connections with it.
Stop ==
  /\ server' = "down"
  /\ IF spc = "none"
     THEN UNCHANGED <<spc, reset, toServer, out, list>>
     ELSE HangUp
  /\ UNCHANGED <<signal, sop, args, number, closeConnection, evicting, toClient,
                 outcome, sent, justCreated>>
  /\ OnlyTheServer

\* SIGTERM and SIGTSTP.
Terminate == server = "up" /\ Stop

\* No worker has the connection, or nobody is connected any more.
Down ==
  /\ server = "up"
  /\ \/ signal = "RAGE_QUIT" /\ spc \notin {"read", "perform", "send"}
     \/ signal = "SOFT_QUIT" /\ spc \in {"none", "backlog", "closed"}
  /\ Stop

\* There is something to read, if only the end of the stream, and a worker
\* takes the connection.
Take ==
  /\ spc = "idle" /\ signal # "RAGE_QUIT"
  /\ toServer # <<>> \/ ClientGone
  /\ spc' = "read"
  /\ sop' = NoCall
  /\ args' = <<"type">>
  /\ UNCHANGED <<server, signal, number, out, list, closeConnection, evicting, wireVars,
                 outcome, sent, justCreated>>
  /\ OnlyTheServer

\* The next field of the request, once it is there.
ReadField ==
  /\ spc = "read" /\ toServer # <<>>
  /\ toServer' = Tail(toServer)
  /\ LET is == Head(toServer).is IN
     /\ args' = IF Head(args) = "type" THEN Arguments(is) ELSE Tail(args)
     /\ sop' = IF Head(args) = "type" THEN is ELSE sop
     /\ number' = IF Head(args) = "number" THEN is ELSE number
  /\ spc' = IF args' = <<>> THEN "perform" ELSE "read"
  /\ UNCHANGED <<server, signal, out, list, closeConnection, evicting, toClient, reset,
                 outcome, sent, justCreated>>
  /\ OnlyTheServer

\* A plausible bug of ReadFails: only a missing request is noticed.
ReadFailsFirst ==
  /\ spc = "read" /\ toServer = <<>> /\ ClientGone /\ sop = NoCall
  /\ HangUp
  /\ UNCHANGED <<server, signal, sop, args, number, closeConnection, evicting, toClient,
                 outcome, sent, justCreated>>
  /\ OnlyTheServer

\* The client has gone away instead.
ReadFails ==
  /\ spc = "read" /\ toServer = <<>> /\ ClientGone
  /\ HangUp
  /\ UNCHANGED <<server, signal, sop, args, number, closeConnection, evicting, toClient,
                 outcome, sent, justCreated>>
  /\ OnlyTheServer

Writes  == sop \in {WRITE_FILE, APPEND_TO_FILE}
Creates == sop = OPEN_FILE /\ number = 3

Succeed(files) ==
  /\ spc' = "send"
  /\ out' = Success(sop, files)
  /\ list' = FileList(sop, files)
  /\ evicting' = (files # <<>> /\ (sop = OPEN_FILE \/ Writes))
  /\ outcome' = "ok"
  /\ sent' = Len(files)
  /\ justCreated' = Creates

Refuse ==
  /\ spc' = "send"
  /\ out' = Refusal
  /\ outcome' = "refused"
  /\ evicting' = FALSE
  /\ justCreated' = FALSE
  /\ UNCHANGED <<list, sent>>

\* A file that is locked: no answer for now.
Park ==
  /\ sop = LOCK_FILE
  /\ spc' = "parked"
  /\ justCreated' = FALSE
  /\ UNCHANGED <<out, list, evicting, outcome, sent>>

\* The file-system does what it is asked, or does not.
Perform ==
  /\ spc = "perform"
  /\ \/ \E files \in SeqOf(BOOLEAN, MaxFiles) : Carries(sop, files) /\ Succeed(files)
     \/ sop # READ_N_FILES /\ Refuse
     \/ Park
  /\ UNCHANGED <<server, signal, sop, args, number, closeConnection, wireVars>>
  /\ OnlyTheServer

\* Some other worker tells a waiting client that the lock is its own, or that
\* the file is gone.
Unpark ==
  /\ spc = "parked"
  /\ Succeed(<<>>) \/ Refuse
  /\ UNCHANGED <<server, signal, sop, args, number, closeConnection, wireVars>>
  /\ OnlyTheServer

\* A field of the answer, once there is room for it.
SendAnswer ==
  /\ spc = "send" /\ out \o list # <<>>
  /\ ~ ClientGone /\ Len(toClient) < Capacity
  /\ toClient' = Append(toClient, Head(out \o list))
  /\ IF out # <<>> THEN out' = Tail(out) /\ UNCHANGED list
                   ELSE list' = Tail(list) /\ UNCHANGED out
  /\ UNCHANGED <<server, signal, spc, sop, args, number, closeConnection, evicting, toServer,
                 reset, outcome, sent, justCreated>>
  /\ OnlyTheServer

\* It cannot be sent.  After a write, an error in the list of files is
\* overwritten by the notification of the clients that waited for them.
SendFails ==
  /\ spc = "send" /\ out \o list # <<>>
  /\ ClientGone
  /\ closeConnection' = (out # <<>> \/ ~ Writes)
  /\ out' = <<>> /\ list' = <<>>
  /\ UNCHANGED <<server, signal, spc, sop, args, number, evicting, wireVars,
                 outcome, sent, justCreated>>
  /\ OnlyTheServer

\* A plausible bug of NotificationMayFail: openFile looks at the error too.
NotificationOfOpenMayFail == evicting

\* After a write that evicted files, some client that waited for them may be
\* gone: the error is taken for one of this connection.
NotificationMayFail == Writes /\ evicting

\* The connection goes back to main, or is closed.
Answered ==
  /\ spc = "send" /\ out \o list = <<>>
  /\ \E fails \in IF NotificationMayFail THEN BOOLEAN ELSE {FALSE} :
       IF closeConnection \/ fails
       THEN HangUp
       ELSE spc' = "idle" /\ UNCHANGED <<out, list, reset, toServer>>
  /\ closeConnection' = FALSE
  /\ UNCHANGED <<server, signal, sop, args, number, evicting, toClient, outcome, sent,
                 justCreated>>
  /\ OnlyTheServer

-----------------------------------------------------------------------------

ClientStep ==
  \/ Connect \/ GiveUp \/ TakeOption \/ Call
  \/ SendField \/ SendUnconnected \/ BrokenPipe \/ Receive \/ Callback

ServerStep ==
  \/ Down \/ Take \/ ReadField \/ ReadFails \/ Perform
  \/ SendAnswer \/ SendFails \/ Answered

Next ==
  \/ ClientStep \/ Kill
  \/ ServerStep \/ Start \/ Signal \/ Terminate \/ Unpark

\* Both sides go on while they can.  Nothing makes the server start or be told
\* to stop, and nothing makes the holder of a lock give it up.
Spec == Init /\ [][Next]_vars /\ WF_vars(ClientStep) /\ WF_vars(ServerStep)

-----------------------------------------------------------------------------
(* Properties.                                                             *)

Errors == {None, "EPERM", "EINVAL", "ENOENT", "ENOTCONN", "ECONNRESET", "EIO"}

\* Type invariant.
TypeOK ==
  /\ home \in BOOLEAN
  /\ options \in Seq(Options)
  /\ todo \in Nat
  /\ cpc \in {"connect", "option", "call", "send", "receive", "return", "exited", "killed"}
  /\ connected \in BOOLEAN
  /\ call \in Requests \cup {NoCall}
  /\ toSend \in Seq(Fields)
  /\ next \in {"none", "result", "message", "evicted", "count", "path", "empty", "data"}
  /\ more \in Nat
  /\ errno \in Errors /\ error \in Errors
  /\ toServer \in Seq(Fields) /\ Len(toServer) <= Capacity
  /\ toClient \in Seq(Fields) /\ Len(toClient) <= Capacity
  /\ reset \in BOOLEAN
  /\ server \in {"starting", "up", "down"}
  /\ signal \in {"none", "SOFT_QUIT", "RAGE_QUIT"}
  /\ spc \in {"none", "backlog", "idle", "read", "perform", "parked", "send", "closed"}
  /\ sop \in Requests \cup {NoCall}
  /\ args \in Seq({"type", "number", "bytes"})
  /\ number \in Nat
  /\ out \in Seq(Fields) /\ list \in Seq(Fields)
  /\ closeConnection \in BOOLEAN /\ evicting \in BOOLEAN
  /\ outcome \in {"none", "ok", "refused", "notAsked"}
  /\ {sent, got, saved} \subseteq Nat
  /\ justCreated \in BOOLEAN

\* The two sides stay in step: what arrives is what the reader expects, and
\* nothing is left over when a call has returned or a request is complete.
\* On the wire nothing would tell one field from another.
InStep ==
  /\ cpc = "receive" /\ toClient # <<>> => Head(toClient).kind = KindOf(next)
  /\ cpc # "receive" => toClient = <<>>
  /\ spc = "read" /\ toServer # <<>> => Head(toServer).kind = Head(args)
  /\ spc \in {"perform", "parked"} => toServer = <<>>

\* What the client makes of a call while the connection is there: it takes the
\* request for refused if and only if it was, for done only if it was, and has
\* read every file that the server sent with a success.  One request it takes
\* for done that it never made: writeFile, when the local file is found but
\* cannot be read (readLocalFile has reset errno, and errno is all that
\* writeOptionCallback looks at).
AnswerBelieved ==
  cpc = "return" /\ connected /\ spc # "closed" =>
    /\ errno = "EPERM" <=> outcome = "refused"
    /\ errno = None => outcome = "ok" \/ (outcome = "notAsked" /\ call = WRITE_FILE)
    /\ outcome = "ok" => got = sent

\* -w and -W: a writeFile reaches the file-system only when the last request
\* of the client was openFile(O_CREATE|O_LOCK), and succeeded.
WriteFollowsOpen == [][
  outcome = "none" /\ outcome' \in {"ok", "refused"} /\ sop = WRITE_FILE => justCreated ]_vars

\* The server hangs up on a client that is still there only after a write
\* or append, whose notifications may have failed, or when it goes down.
OnlyWritersAreLeft ==
  spc = "closed" /\ server = "up" /\ ~ ClientGone => Writes

\* A file is saved only when it was read.  ("If the operation has ended
\* successfully".)
SavedWasRead == saved <= got

\* Every call returns, unless its client waits for a lock: neither side ever
\* waits for a field that the other does not send, or sends what nobody reads.
InCall == cpc \in {"send", "receive"}
CallsReturn == InCall ~> (~ InCall \/ spc = "parked")

\* Told to stop at once, the server does, whatever half of a request or of an
\* answer is on its way: a client that goes on sends the rest, or is gone.
ShutdownCompletes == signal = "RAGE_QUIT" ~> server = "down"
=============================================================================
