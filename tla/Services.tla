------------------------------ MODULE Services ------------------------------
(***************************************************************************)
(* The components that are small enough to be checked in one run, one at a *)
(* time: "active" is the one whose steps are taken, the others stay in an  *)
(* initial state.  They share no variables.  Four are extended, and have   *)
(* names of their own for it; the other three are instances, and their     *)
(* constants and variables those declared here.                            *)
(***************************************************************************)
EXTENDS MovaKernel, Detectors, ConfigFiles, ModeChannel

CONSTANTS
  Uris, Outputs, Named, UriOf, MaxPush,  \* RpdbDriver
  MaxEvents, MaxSocket, MaxPage,         \* LiveFeed
  Signals                                \* Dimming

ASSUME ServicesAssumption ==
  /\ Named \subseteq Outputs /\ UriOf \in [Outputs -> Uris] /\ MaxPush \in Nat
  /\ MaxEvents \in Nat /\ MaxSocket \in Nat /\ MaxPage \in Nat

VARIABLES active

\* RpdbDriver
VARIABLES element, remote, reachable, intact, input, output, notify, foreign, registered, outs, drv,
          connected, receiving, event, lastSent, pushes, skewed, unsure
\* LiveFeed
VARIABLES feed, value, posted, calling, taken, shadow, greeting, accepted, socket, reading,
          subscribed, page, open, shown
\* Dimming
VARIABLES night, enabled, signal, isDim, state, pending, lamp, dimLink

rpdb == <<element, remote, reachable, intact, input, output, notify, foreign, registered, outs, drv,
          connected, receiving, event, lastSent, pushes, skewed, unsure>>
pages == <<feed, value, posted, calling, taken, shadow, greeting, accepted, socket, reading,
           subscribed, page, open, shown>>
lamps == <<night, enabled, signal, isDim, state, pending, lamp, dimLink>>

Rpdb  == INSTANCE RpdbDriver
Feed  == INSTANCE LiveFeed WITH kind <- feed
Lamps == INSTANCE Dimming WITH saved <- state, output <- lamp, linkUp <- dimLink

Components == {"kernel", "zones", "rpdb", "channel", "feed", "lamps", "files"}
-----------------------------------------------------------------------------
\* One initial state is enough for a component that is not active.
Init ==
  /\ active \in Components
  /\ Rpdb!Init /\ Feed!Init /\ Lamps!Init
  /\ KernelInit /\ DetectorsInit /\ FilesInit /\ ChannelInit
  /\ active = "rpdb"  \/ (~reachable /\ foreign = {} /\ \A u \in Uris : element[u] = 0)
  /\ active = "kernel" \/ demand = 0
  /\ active = "zones" \/ service = "agd"
  /\ active = "feed"  \/ feed = "queued"
  /\ active = "lamps" \/ (night = 0 /\ ~dimLink /\ enabled /\ state = 0
                          /\ signal = CHOOSE s \in Signals : TRUE)
  /\ active = "files" \/ kind = "shared"

\* A step of component c leaves the others alone.
Only(c) ==
  /\ active = c /\ UNCHANGED active
  /\ IF c = "kernel" THEN TRUE ELSE UNCHANGED kernelVars
  /\ IF c = "zones" THEN TRUE ELSE UNCHANGED detectorVars
  /\ IF c = "rpdb" THEN TRUE ELSE UNCHANGED rpdb
  /\ IF c = "channel" THEN TRUE ELSE UNCHANGED channelVars
  /\ IF c = "feed" THEN TRUE ELSE UNCHANGED pages
  /\ IF c = "lamps" THEN TRUE ELSE UNCHANGED lamps
  /\ IF c = "files" THEN TRUE ELSE UNCHANGED filesVars

Next ==
  \/ Only("kernel") /\ KernelNext
  \/ Only("zones") /\ DetectorsNext
  \/ Only("rpdb") /\ Rpdb!Next
  \/ Only("channel") /\ ChannelNext
  \/ Only("feed") /\ Feed!Next
  \/ Only("lamps") /\ Lamps!Next
  \/ Only("files") /\ FilesNext

vars == <<active, kernelVars, detectorVars, rpdb, channelVars, pages, lamps, filesVars>>

\* Every thread goes on with its work.  Only the threads of the active component
\* can take steps.
Threads ==
  /\ WF_rpdb(active = "rpdb" /\ Rpdb!DriverWork)
  /\ WF_rpdb(active = "rpdb" /\ Rpdb!Receive)
  /\ WF_rpdb(active = "rpdb" /\ Rpdb!ReceiveEnds)
  /\ WF_rpdb(active = "rpdb" /\ Rpdb!Notify)
  /\ WF_channelVars(active = "channel" /\ \E t \in {"snmp", "dog"} : Announce(t))
  /\ WF_channelVars(active = "channel" /\ (PushEvent \/ TakeSnap))
  /\ WF_channelVars(active = "channel" /\ (TakeHello \/ SendHello))
  /\ WF_channelVars(active = "channel" /\ Accept)
  /\ WF_channelVars(active = "channel" /\ (Receive \/ EndOfFile))
  /\ WF_pages(active = "feed" /\ Feed!Loop)
  /\ WF_pages(active = "feed" /\ Feed!Greet)
  /\ WF_pages(active = "feed" /\ Feed!Client)
  /\ WF_lamps(active = "lamps" /\ Lamps!Tick)
  /\ WF_lamps(active = "lamps" /\ Lamps!Write)

\* The controller repeats the values of its elements, some snapshots succeed,
\* sendall and the locks are fair to every sender.
Senders ==
  /\ SF_vars(\/ active = "rpdb" /\ (\E u \in Uris : Rpdb!Heartbeat(u)) /\ Only("rpdb")
             \/ active = "channel" /\ PushSnap /\ Only("channel")
             \/ active = "feed" /\ (Feed!SendSnap \/ Feed!SendAll) /\ Only("feed"))
  /\ SF_pages(active = "feed" /\ Feed!SendEvent)

Spec == Init /\ [][Next]_vars /\ Threads /\ Senders
-----------------------------------------------------------------------------
\* Every variable of every component has its type.
TypeOK ==
  /\ active \in Components
  /\ KernelTypeOK /\ DetectorsTypeOK /\ FilesTypeOK /\ ChannelTypeOK
  /\ Rpdb!TypeOK /\ Feed!TypeOK /\ Lamps!TypeOK

\* The table's RPDB inputs, but for signals a service owns, end up as the controller
\* has its elements.
InputsFollow == Rpdb!InputsFollow

\* The controller's outputs end up as the table has them.
OutputsFollow == Rpdb!OutputsFollow

\* A web page, but for those of pci.agd and pci.flir, ends up showing what the
\* service has to show.
PageFollows == Feed!PageFollows

\* A web page that does not read never holds up a detector's thread.
NeverHeldUp == Feed!NeverHeldUp

\* The dimming signal ends up as the sun has it.
DimFollows == Lamps!DimFollows

=============================================================================
