----------------------------- MODULE ConfigFiles -----------------------------
(***************************************************************************)
(* A configuration file that a user edits on a web page and a service      *)
(* reads.  pci.web (src/web/api/routes/config.py) opens the file for       *)
(* writing, which truncates it, writes it and asks the service to reload   *)
(* it.  "reloaded" stands for autodim.cfg and rtig_rules.json; the service *)
(* answers each request in a thread of its own.  "shared" is ug405.cfg:    *)
(* nobody asks for a reload, but pci.ug405 writes the same file when the   *)
(* instation sets a configuration object (persist_live), in order to keep  *)
(* the section LIVE.  Each writer keeps what it found of the other's part. *)
(***************************************************************************)
EXTENDS Naturals, FiniteSets

CONSTANTS
  CommandThreads,  \* command threads at one time
  MaxAsks          \* bound on asks

ASSUME FilesAssumption == MaxAsks \in Nat

VARIABLES
  kind,      \* "reloaded" or "shared"
  file,      \* its two parts: the user's and the instation's
  saved,     \* the user's last edit that was saved
  web,       \* the handler of a POST, while it is writing
  asks,      \* requests to reload that pci.web has still to send
  up,        \* the service: "down", "starting" (has read the file) or "up"
  settings,  \* the user's part as the service has it
  live,      \* the instation's part as the service has it
  persist,   \* persist_live
  reload,    \* the command threads
  overtaken, \* history: a reload may have been overtaken or missed
  spoilt     \* history: parts written from an old copy, or lost by a crash

serviceVars == <<up, settings, live, persist, reload>>
fileHist    == <<overtaken, spoilt>>
filesVars   == <<kind, file, saved, web, asks, serviceVars, fileHist>>

None == 2
Blank == [user |-> None, live |-> None]
NoWrite == [pc |-> "idle", new |-> Blank, alone |-> TRUE]
NoReload == [pc |-> "idle", got |-> None]
Parts == {"user", "live"}
-----------------------------------------------------------------------------
FilesInit ==
  /\ kind \in {"reloaded", "shared"}
  /\ file = [user |-> 0, live |-> 0] /\ saved = 0
  /\ web = NoWrite /\ asks = 0 /\ persist = NoWrite
  /\ up = "up" /\ settings = 0 /\ live = 0
  /\ reload = [t \in CommandThreads |-> NoReload]
  /\ overtaken = FALSE /\ spoilt = {}

\* A writer reads the file; one that finds the other at work spoils both.
Begins(other) ==
  spoilt' = IF other.pc = "idle" THEN spoilt ELSE Parts

Disturbed(w) == IF w.pc = "idle" THEN w ELSE [w EXCEPT !.alone = FALSE]

Mended(w, part) == spoilt' = IF w.alone THEN spoilt \ {part} ELSE spoilt

-----------------------------------------------------------------------------
(* pci.web: post_autodim_cfg, post_rtig_rules, post_ug405_scns *)

\* Faulty variant of Post: the section LIVE is left out.
PostDropsLive(v) ==
  /\ web.pc = "idle"
  /\ web' = [pc |-> "open", new |-> [user |-> v, live |-> None], alone |-> persist.pc = "idle"]
  /\ Begins(persist)
  /\ persist' = Disturbed(persist)
  /\ UNCHANGED <<kind, file, saved, asks, up, settings, live, reload, overtaken>>

\* The edit is accepted, and what else is in the file read.
Post(v) ==
  /\ web.pc = "idle"
  /\ web' = [pc |-> "open", new |-> [user |-> v, live |-> file.live], alone |-> persist.pc = "idle"]
  /\ Begins(persist)
  /\ persist' = Disturbed(persist)
  /\ UNCHANGED <<kind, file, saved, asks, up, settings, live, reload, overtaken>>

Truncate ==
  /\ web.pc = "open"
  /\ file' = Blank
  /\ web' = [web EXCEPT !.pc = "write"]
  /\ UNCHANGED <<kind, saved, asks, serviceVars, fileHist>>

\* Faulty variant of Save: the service is not asked.
SaveUnasked ==
  /\ web.pc = "write"
  /\ file' = web.new /\ saved' = web.new.user
  /\ web' = NoWrite
  /\ Mended(web, "user")
  /\ UNCHANGED <<kind, asks, serviceVars, overtaken>>

\* The file is written.  The service is asked by a thread of the executor, and
\* the next POST may be handled before that.
Save ==
  /\ web.pc = "write"
  /\ file' = web.new /\ saved' = web.new.user
  /\ web' = NoWrite
  /\ IF kind = "shared" THEN UNCHANGED asks ELSE asks < MaxAsks /\ asks' = asks + 1
  /\ Mended(web, "user")
  /\ UNCHANGED <<kind, serviceVars, overtaken>>

\* send_command: nobody looks at the answer, or whether there is one.
Ask ==
  /\ asks > 0
  /\ asks' = asks - 1
  /\ IF up = "up"
     THEN \E t \in CommandThreads :
            /\ reload[t].pc = "idle"
            /\ reload' = [reload EXCEPT ![t].pc = "asked"]
            /\ UNCHANGED overtaken
     ELSE overtaken' = (overtaken \/ up = "starting") /\ UNCHANGED reload
  /\ UNCHANGED <<kind, file, saved, web, up, settings, live, persist, spoilt>>

\* pci.web stops between two of these steps.
WebStops ==
  /\ web.pc # "idle" \/ asks > 0
  /\ web' = NoWrite /\ asks' = 0
  /\ spoilt' = IF web.pc = "write" THEN Parts ELSE spoilt
  /\ overtaken' = (overtaken \/ asks > 0)
  /\ UNCHANGED <<kind, file, saved, serviceVars>>

-----------------------------------------------------------------------------
(* The service *)

\* reload_config, reload_rules: an empty file raises, and all stays as it was ...
ReloadRead(t) ==
  /\ reload[t].pc = "asked"
  /\ IF file.user = None
     THEN reload' = [reload EXCEPT ![t] = NoReload] /\ UNCHANGED overtaken
     ELSE /\ reload' = [reload EXCEPT ![t] = [pc |-> "read", got |-> file.user]]
          /\ overtaken' = \E other \in CommandThreads : reload[other].pc = "read"
  /\ UNCHANGED <<kind, file, saved, web, asks, up, settings, live, persist, spoilt>>

\* ... otherwise what was read is put in force.
ReloadApply(t) ==
  /\ reload[t].pc = "read"
  /\ settings' = reload[t].got
  /\ reload' = [reload EXCEPT ![t] = NoReload]
  /\ UNCHANGED <<kind, file, saved, web, asks, up, live, persist, fileHist>>

\* pci.ug405: the instation sets an object.  persist_live reads the file ...
SetLive(v) ==
  /\ kind = "shared" /\ up = "up" /\ persist.pc = "idle"
  /\ live' = v
  /\ persist' = [pc |-> "open", new |-> [user |-> file.user, live |-> v], alone |-> web.pc = "idle"]
  /\ Begins(web)
  /\ web' = Disturbed(web)
  /\ UNCHANGED <<kind, file, saved, asks, up, settings, reload, overtaken>>

PersistTruncate ==
  /\ persist.pc = "open"
  /\ file' = Blank
  /\ persist' = [persist EXCEPT !.pc = "write"]
  /\ UNCHANGED <<kind, saved, web, asks, up, settings, live, reload, fileHist>>

\* ... and writes it with a new section LIVE.
Persist ==
  /\ persist.pc = "write"
  /\ file' = persist.new
  /\ persist' = NoWrite
  /\ Mended(persist, "live")
  /\ UNCHANGED <<kind, saved, web, asks, up, settings, live, reload, overtaken>>

ServiceStops ==
  /\ up # "down"
  /\ up' = "down"
  /\ persist' = NoWrite /\ reload' = [t \in CommandThreads |-> NoReload]
  /\ spoilt' = CASE persist.pc = "write" -> Parts
                 [] persist.pc = "open"  -> spoilt \cup {"live"}
                 [] OTHER                -> spoilt
  /\ UNCHANGED <<kind, file, saved, web, asks, settings, live, overtaken>>

\* main: without its settings pci.autodim ends, and is started again; pci.ug405
\* takes what there is.
Start ==
  /\ up = "down"
  /\ kind = "reloaded" => file.user # None
  /\ up' = "starting"
  /\ settings' = file.user
  /\ live' = IF file.live = None THEN 0 ELSE file.live
  /\ overtaken' = FALSE
  /\ spoilt' = IF file.live = None THEN spoilt \cup {"live"} ELSE spoilt
  /\ UNCHANGED <<kind, file, saved, web, asks, persist, reload>>

Listen ==
  /\ up = "starting"
  /\ up' = "up"
  /\ UNCHANGED <<kind, file, saved, web, asks, settings, live, persist, reload, fileHist>>

-----------------------------------------------------------------------------
FilesNext ==
  \/ \E v \in {0, 1} : Post(v) \/ SetLive(v)
  \/ Truncate \/ Save \/ Ask \/ WebStops
  \/ \E t \in CommandThreads : ReloadRead(t) \/ ReloadApply(t)
  \/ PersistTruncate \/ Persist \/ ServiceStops \/ Start \/ Listen

FilesSpec == FilesInit /\ [][FilesNext]_filesVars
-----------------------------------------------------------------------------

Contents    == [user : {0, 1, None}, live : {0, 1, None}]
WriterType  == [pc : {"idle", "open", "write"}, new : Contents, alone : BOOLEAN]
ReloadType  == [pc : {"idle", "asked", "read"}, got : {0, 1, None}]

\* Every variable has its type.
FilesTypeOK ==
  /\ kind \in {"reloaded", "shared"} /\ file \in Contents
  /\ saved \in {0, 1} /\ settings \in {0, 1, None} /\ live \in {0, 1}
  /\ web \in WriterType /\ persist \in WriterType /\ asks \in 0..MaxAsks
  /\ up \in {"down", "starting", "up"}
  /\ reload \in [CommandThreads -> ReloadType]
  /\ overtaken \in BOOLEAN /\ spoilt \subseteq Parts

NothingUnderWay ==
  /\ web.pc = "idle" /\ asks = 0 /\ persist.pc = "idle" /\ up = "up"
  /\ \A t \in CommandThreads : reload[t].pc = "idle"

\* When nothing is under way the service runs with the edit that was saved last,
\* whatever saves, reloads, failed reloads and restarts came between - unless two
\* reloads ran side by side, a request came while the service was starting, or
\* pci.web stopped (reload_config reads outside its lock, src/autodim/service.py:67).
SettingsFollow ==
  NothingUnderWay /\ kind = "reloaded" /\ ~overtaken /\ "user" \notin spoilt
  => settings = file.user /\ file.user = saved

\* When nothing is under way both the user's last saved edit and what the
\* instation set last are in the file, although each is written back by the other
\* writer - unless the two ran side by side or one stopped half way
\* (_write_ug405_scns, persist_live).
EditsKept ==
  NothingUnderWay /\ kind = "shared"
  => /\ "user" \notin spoilt => file.user = saved
     /\ "live" \notin spoilt => file.live = live
=============================================================================
