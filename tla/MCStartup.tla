------------------------------ MODULE MCStartup -----------------------------
(***************************************************************************)
(* Configurations and hosts for Startup: the good configurations in every  *)
(* mode, and variants of them with one field that must be refused.         *)
(***************************************************************************)
EXTENDS Startup

MCBasebandNfft == [b \in {8, 4, 2} |-> IF b = 2 THEN 16 ELSE 8]

Entry(beam, enable, start, windows) ==
  [beam |-> beam, enable |-> enable, port |-> 5000, start_freq |-> start,
   end_freq |-> start + SamplingRate, windows |-> windows]

Pair(enable, start, windows) ==
  <<Entry("A", enable, start, windows), Entry("B", enable, start, windows)>>

Low == Pair(TRUE, 100, <<102, 114>>)
High == Pair(TRUE, 116, <<124>>)
Off == Pair(FALSE, 116, <<>>)

Spectral ==
  [server |-> 1, observation |-> "valid", mode |-> SPECTRAL, local |-> TRUE,
   local_folder |-> "data", queue_mb |-> 1, folder0 |-> "missing",
   folder1 |-> "missing", bits |-> 8, win_bw |-> 4, win_channels |-> 2,
   period |-> 2, duty |-> 50, blank |-> 0, memory |-> 8, subbands |-> Low \o High]

Baseband == [Spectral EXCEPT !.mode = BASEBAND, !.local = FALSE, !.folder0 = "disk0",
                             !.folder1 = "disk1", !.subbands = Low \o Off]
Continuum == [Spectral EXCEPT !.mode = CONTINUUM, !.local = FALSE,
                              !.observation = "none", !.memory = 40]

\* Every pair in the three modes, one pair or none, both folders alike.
Accepted ==
  {Spectral, Baseband, Continuum,
   [Baseband EXCEPT !.bits = 2, !.folder1 = "disk0", !.subbands = Off \o High],
   [Spectral EXCEPT !.subbands = Off \o Off]}

\* What is refused, one reason each.
Refused ==
  {[Spectral EXCEPT !.server = Servers], [Spectral EXCEPT !.observation = "invalid"],
   [Spectral EXCEPT !.mode = 3], [Continuum EXCEPT !.local = TRUE],
   [Spectral EXCEPT !.local_folder = ""], [Spectral EXCEPT !.queue_mb = 0],
   [Spectral EXCEPT !.queue_mb = MaxQueueMb + 1], [Baseband EXCEPT !.folder1 = "missing"],
   [Baseband EXCEPT !.bits = 3], [Spectral EXCEPT !.win_bw = 0],
   [Spectral EXCEPT !.win_channels = 0], [Spectral EXCEPT !.win_channels = 9],
   [Spectral EXCEPT !.win_bw = 16, !.win_channels = 3],
   [Spectral EXCEPT !.win_bw = 16, !.subbands = Pair(TRUE, 100, <<108>>) \o High],
   [Spectral EXCEPT !.period = 0], [Spectral EXCEPT !.duty = 0],
   [Spectral EXCEPT !.duty = 100], [Spectral EXCEPT !.blank = -1],
   [Spectral EXCEPT !.subbands = Low], [Spectral EXCEPT !.subbands[2].beam = "A"],
   [Baseband EXCEPT !.subbands[2].beam = "A"], [Spectral EXCEPT !.subbands[1].beam = "C"],
   [Spectral EXCEPT !.subbands[2].enable = FALSE], [Spectral EXCEPT !.subbands[1].port = 0],
   [Spectral EXCEPT !.subbands[1].end_freq = 115],
   [Spectral EXCEPT !.subbands[1].windows = <<>>],
   [Spectral EXCEPT !.subbands = Pair(TRUE, 100, <<101>>) \o High],
   [Spectral EXCEPT !.subbands = Pair(TRUE, 100, <<115>>) \o High],
   [Spectral EXCEPT !.subbands[2] = Entry("B", TRUE, 104, <<106, 118>>)],
   [Spectral EXCEPT !.subbands[2].windows = <<102, 112>>]}

\* CPUs alternate between the sockets.  The last host has too few of them.
Host(allowed, socket0, socket1) ==
  [allowed |-> allowed, socket |-> [cpu \in allowed |-> cpu % 2],
   port_socket |-> (0 :> socket0) @@ (1 :> socket1)]

NearBoth == Host(0 .. 9, 1, 0)
OneSocket == Host(2 .. 12, 0, 0)
Unknown == Host(0 .. 8, 1, -1)
TooFew == Host(0 .. 7, 0, 1)

MCCases ==
  {[config |-> c, host |-> NearBoth] : c \in Accepted \cup Refused}
    \cup {[config |-> Baseband, host |-> h] : h \in {OneSocket, Unknown, TooFew}}
=============================================================================
