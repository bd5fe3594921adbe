----------------------------- MODULE SshTarget -----------------------------
(***************************************************************************)
(* libssh-2017-1272/libssh_server_fuzzer.cc as test-libfuzzer.sh runs it:   *)
(* -jobs=$JOBS -workers=$JOBS, so that several processes execute the target *)
(* at the same time.  Each input goes through a socket pair of its process, *)
(* but the server's private key goes through one file in /tmp, which every  *)
(* call of every process writes and reads back without a lock.              *)
(* (MCTargets has this module beside PngTarget: hence sshVars, SshNext.)    *)
(***************************************************************************)
EXTENDS Naturals

CONSTANTS
  Workers,  \* the fuzzing processes
  KeyLen,   \* strlen(kRSAPrivateKeyPEM), in pieces that write() may stop after
  MaxLen    \* -max_len in packets; they fit in the buffer of a socket, so send does not block

ASSUME TargetAssumption == KeyLen \in Nat /\ MaxLen \in Nat

VARIABLES
  at,       \* what each process does next
  key,      \* the pieces that /tmp/libssh_fuzzer_private_key holds
  offset,   \* the file offset of each process's fd
  input,    \* packets waiting at socket_fds[0]
  eof,      \* the other end was shut down
  fds,      \* open descriptors of the process
  handles   \* live objects of libssh

sshVars == << at, key, offset, input, eof, fds, handles >>

Steps == {"idle", "open", "write", "bind", "accept", "exchange", "messages", "close", "dead"}

WholeKey == 1..KeyLen

-----------------------------------------------------------------------------
SshInit ==
  /\ at = [w \in Workers |-> "idle"]
  /\ key = {}
  /\ offset = [w \in Workers |-> 0]
  /\ input = [w \in Workers |-> 0]
  /\ eof = [w \in Workers |-> FALSE]
  /\ fds = [w \in Workers |-> {}]
  /\ handles = [w \in Workers |-> {}]

Goto(w, here, there) == at[w] = here /\ at' = [at EXCEPT ![w] = there]

\* Mutant: the other end stays open.
Shutdown_missing(w) == eof' = eof

\* shutdown(socket_fds[1], SHUT_WR)
Shutdown(w) == eof' = [eof EXCEPT ![w] = TRUE]

\* The input is queued as a whole before anybody reads it.
Feed(w) ==
  /\ Goto(w, "idle", "open")
  /\ \E n \in 0..MaxLen : input' = [input EXCEPT ![w] = n]
  /\ fds' = [fds EXCEPT ![w] = {"server", "client"}]
  /\ Shutdown(w)
  /\ UNCHANGED << key, offset, handles >>

\* Mutant: O_TRUNC.
Contents_truncated == {}

\* open(..., O_WRONLY | O_CREAT): what the file holds stays.
Contents == key

OpenKey(w) ==
  /\ Goto(w, "open", "write")
  /\ key' = Contents
  /\ offset' = [offset EXCEPT ![w] = 0]
  /\ fds' = [fds EXCEPT ![w] = @ \union {"key"}]
  /\ UNCHANGED << input, eof, handles >>

\* Mutant: sizeof instead of strlen.
WriteKey_sizeof(w) ==
  /\ at[w] = "write"
  /\ offset[w] <= KeyLen
  /\ offset' = [offset EXCEPT ![w] = @ + 1]
  /\ key' = key \union {offset[w] + 1}
  /\ UNCHANGED << at, input, eof, fds, handles >>

\* A part of the one write() reaches the file: readers do not wait for the rest.
WriteKey(w) ==
  /\ at[w] = "write"
  /\ offset[w] < KeyLen
  /\ offset' = [offset EXCEPT ![w] = @ + 1]
  /\ key' = key \union {offset[w] + 1}
  /\ UNCHANGED << at, input, eof, fds, handles >>

\* Mutant: no close(fd).
CloseKey_never(w) ==
  /\ offset[w] = KeyLen
  /\ Goto(w, "write", "bind")
  /\ UNCHANGED << key, offset, input, eof, fds, handles >>

\* write() has returned strlen, or else the assertion ends the process.
CloseKey(w) ==
  /\ offset[w] = KeyLen
  /\ Goto(w, "write", "bind")
  /\ fds' = [fds EXCEPT ![w] = @ \ {"key"}]
  /\ UNCHANGED << key, offset, input, eof, handles >>

\* ssh_bind_new, ssh_new; ssh_bind_options_set keeps the name of the file.
Bind(w) ==
  /\ Goto(w, "bind", "accept")
  /\ handles' = [handles EXCEPT ![w] = {"sshbind", "session"}]
  /\ UNCHANGED << key, offset, input, eof, fds >>

\* ssh_bind_accept_fd imports the key from the file, and fails when it is not all there:
\* then the assertion ends the process, which is Die.
Accept(w) ==
  /\ key = WholeKey
  /\ Goto(w, "accept", "exchange")
  /\ UNCHANGED << key, offset, input, eof, fds, handles >>

\* libssh takes a packet from the socket.  Without one it waits, unless the peer is shut down.
Take(w) == input[w] > 0 /\ input' = [input EXCEPT ![w] = @ - 1]
AtEnd(w) == input[w] = 0 /\ eof[w] /\ UNCHANGED input

\* ssh_handle_key_exchange: needs more packets, is through, or rejects one.
KeyExchange(w) ==
  /\ \/ Take(w) /\ \E next \in {"exchange", "messages", "close"} : Goto(w, "exchange", next)
     \/ AtEnd(w) /\ Goto(w, "exchange", "close")
  /\ UNCHANGED << key, offset, eof, fds, handles >>

\* ssh_message_get: a message, freed at once, or NULL.
GetMessage(w) ==
  /\ \/ Take(w) /\ \E next \in {"messages", "close"} : Goto(w, "messages", next)
     \/ AtEnd(w) /\ Goto(w, "messages", "close")
  /\ UNCHANGED << key, offset, eof, fds, handles >>

\* Both ends are closed; ssh_disconnect and ssh_free close the number of the first one again,
\* which nothing has reused; ssh_bind_free.
Close(w) ==
  /\ Goto(w, "close", "idle")
  /\ input' = [input EXCEPT ![w] = 0]
  /\ eof' = [eof EXCEPT ![w] = FALSE]
  /\ fds' = [fds EXCEPT ![w] = @ \ {"server", "client"}]
  /\ handles' = [handles EXCEPT ![w] = {}]
  /\ UNCHANGED << key, offset >>

\* An assertion fails (a full disk, no descriptors), the fuzzer has found something, or a kill.
Die(w) ==
  /\ at[w] \notin {"idle", "dead"}
  /\ at' = [at EXCEPT ![w] = "dead"]
  /\ input' = [input EXCEPT ![w] = 0]
  /\ eof' = [eof EXCEPT ![w] = FALSE]
  /\ fds' = [fds EXCEPT ![w] = {}]
  /\ handles' = [handles EXCEPT ![w] = {}]
  /\ UNCHANGED << key, offset >>

\* Another run of the fuzzer.
Restart(w) ==
  /\ Goto(w, "dead", "idle")
  /\ UNCHANGED << key, offset, input, eof, fds, handles >>

Call(w) ==
  \/ OpenKey(w) \/ WriteKey(w) \/ CloseKey(w) \/ Bind(w) \/ Accept(w)
  \/ KeyExchange(w) \/ GetMessage(w) \/ Close(w)

SshNext == \E w \in Workers : Feed(w) \/ Call(w) \/ Die(w) \/ Restart(w)

\* The operating system runs every process that is inside a call and not blocked.
Fairness == \A w \in Workers : WF_sshVars(Call(w))

SshSpec == SshInit /\ [][SshNext]_sshVars /\ Fairness

-----------------------------------------------------------------------------
SshTypeOK ==
  /\ at \in [Workers -> Steps]
  /\ key \in SUBSET WholeKey
  /\ offset \in [Workers -> 0..KeyLen]
  /\ input \in [Workers -> 0..MaxLen]
  /\ eof \in [Workers -> BOOLEAN]
  /\ fds \in [Workers -> SUBSET {"server", "client", "key"}]
  /\ handles \in [Workers -> SUBSET {"sshbind", "session"}]

\* A process that is about to have libssh read the key file (line 81) finds all of it there, no
\* matter which other processes are opening or writing the file, or died halfway.
KeyWholeWhenRead == \A w \in Workers : at[w] = "accept" => key = WholeKey

\* Nothing of a call outlives it: a process that is between two inputs, the next of millions,
\* holds no descriptor and no object of libssh (lines 74 and 94 to 99).
NothingHeldBetweenCalls ==
  \A w \in Workers : at[w] = "idle" => fds[w] = {} /\ handles[w] = {} /\ input[w] = 0

\* Every call returns or its process dies: libssh never waits for more input than there is,
\* because the other end of the socket was shut down first (line 67).
CallsReturn == \A w \in Workers : at[w] = "open" ~> at[w] \in {"idle", "dead"}

=============================================================================
