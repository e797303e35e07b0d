------------------------------- MODULE Protocol -------------------------------
(***************************************************************************)
(* What goes over a connection: the fields of the requests, as doRequest   *)
(* (client/api/api.c) sends them, and those of the answers, as the workers *)
(* (server/server.c) do.                                                   *)
(*                                                                         *)
(* There are three kinds of fields on the wire.  The type of a request is  *)
(* sent as it is (sendRequestType); numbers and bytes are sent with their  *)
(* length in front (sendData), and read to a given place or to a new one   *)
(* (getData).  Nothing on the wire tells them apart: both ends have to     *)
(* agree on what comes next.  Bytes, which are paths, contents and error   *)
(* messages, carry nothing here.                                           *)
(***************************************************************************)
EXTENDS Integers, SequencesExt

OPEN_FILE      == 10000
READ_FILE      == 10001
WRITE_FILE     == 10002
APPEND_TO_FILE == 10003
READ_N_FILES   == 10004
CLOSE_FILE     == 10005
REMOVE_FILE    == 10006
LOCK_FILE      == 10007
UNLOCK_FILE    == 10008

Requests == OPEN_FILE .. UNLOCK_FILE

Fields == [kind : {"type", "number", "bytes"}, is : Nat]

Type(op)  == [kind |-> "type",   is |-> op]
Number(n) == [kind |-> "number", is |-> n]
Bytes     == [kind |-> "bytes",  is |-> 0]

\* What follows the type of a request, kind by kind.
Arguments(op) ==
  CASE op = OPEN_FILE                    -> <<"bytes", "number">>
    [] op \in {WRITE_FILE, APPEND_TO_FILE} -> <<"bytes", "bytes">>
    [] op = READ_N_FILES                 -> <<"number">>
    [] OTHER                             -> <<"bytes">>

\* A plausible bug of Request: the number comes before the path.
RequestFlagsFirst(op, number) ==
  <<Type(op)>> \o CASE op = OPEN_FILE    -> <<Number(number), Bytes>>
                    [] op = READ_N_FILES -> <<Number(number)>>
                    [] op \in {WRITE_FILE, APPEND_TO_FILE} -> <<Bytes, Bytes>>
                    [] OTHER -> <<Bytes>>

\* doRequest: the number is the flags of openFile or the N of readNFiles.
Request(op, number) ==
  <<Type(op)>> \o CASE op = OPEN_FILE    -> <<Bytes, Number(number)>>
                    [] op = READ_N_FILES -> <<Number(number)>>
                    [] op \in {WRITE_FILE, APPEND_TO_FILE} -> <<Bytes, Bytes>>
                    [] OTHER -> <<Bytes>>

-----------------------------------------------------------------------------

\* A result code of 1, and the error message.
Refusal == <<Number(1), Bytes>>

\* Is the file empty?  Its content follows if not.
Content(empty) == IF empty THEN <<Number(1)>> ELSE <<Number(0), Bytes>>

\* A plausible bug of File: the path of an empty file is not sent.
FileUnlessEmpty(empty) == IF empty THEN Content(empty) ELSE <<Bytes>> \o Content(empty)

\* A file as sendListOfFilesCallback sends it.
File(empty) == <<Bytes>> \o Content(empty)

\* How many files an answer may carry; `files' says of each if it is empty.
Carries(op, files) ==
  CASE op \in {WRITE_FILE, APPEND_TO_FILE, READ_N_FILES} -> TRUE
    [] op = OPEN_FILE -> Len(files) <= 1
    [] op = READ_FILE -> Len(files) = 1
    [] OTHER          -> files = <<>>

\* The answer to a request that succeeded: what the worker sends itself, and
\* the files it then sends by going through a list.
Success(op, files) ==
  <<Number(0)>> \o
  CASE op = READ_FILE -> Content(files[1])
    [] op = OPEN_FILE -> IF files = <<>> THEN <<Number(0)>>
                         ELSE <<Number(1)>> \o File(files[1])
    [] op \in {WRITE_FILE, APPEND_TO_FILE, READ_N_FILES} -> <<Number(Len(files))>>
    [] OTHER -> <<>>

FileList(op, files) ==
  IF op \in {WRITE_FILE, APPEND_TO_FILE, READ_N_FILES}
  THEN FlattenSeq([i \in DOMAIN files |-> File(files[i])])
  ELSE <<>>
=============================================================================
