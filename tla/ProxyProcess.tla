---------------------------- MODULE ProxyProcess ----------------------------
(***************************************************************************)
(* The life of the process: main() of src/proxy/proxy.py finds and loads   *)
(* a configuration, applies the command line to it, builds the reporter    *)
(* and serves; Reporter of report.py writes a file for each authentication *)
(* that ends; the process stops, and is started again.                     *)
(***************************************************************************)
EXTENDS Naturals

CONSTANTS Nil,
          Configs,      \* what a configuration file may hold
          Invocations,  \* command lines
          MaxTime,      \* bound on the clock
          MaxReporters, \* bound on the processes that get as far as serving
          MaxAuths      \* bound on the authentications

ASSUME ProcessAssumption ==
  MaxTime \in Nat /\ MaxReporters \in Nat /\ MaxAuths \in Nat /\ Nil \notin Nat

(* A Config has the fields of the dataclass that flags may override.       *)
ASSUME ConfigsAssumption ==
  \A c \in Configs :
    {"mode", "downstream_fragment_size", "framed_mtu", "strip_framed_mtu", "output_dir"}
      \subseteq DOMAIN c

VARIABLES phase,    \* how far main() has come; "down" when there is no process
          args,     \* the command line
          path,     \* the configuration file in use: asked for, or the packaged one
          loaded,   \* the configuration as it was in the file (a history variable)
          cfg,      \* the configuration in use
          seq,      \* Reporter._seq
          made,     \* Reporters made so far, one a process (a history variable)
          clock,    \* local time, in the seconds of which file names are made
          auths,    \* authentications ended so far
          written,  \* the records written, each with its file name (a history variable)
          files     \* what is on disk, by name

memory == <<args, path, loaded, cfg, seq>>
disk == <<auths, written, files>>
vars == <<phase, memory, made, clock, disk>>

-----------------------------------------------------------------------------
(* Config.validate().                                                      *)
Size == 1 .. 65000

Valid(c) ==
  /\ c.mode \in {"reassemble", "passthrough"}
  /\ c.downstream_fragment_size \in Size
  /\ c.upstream_fragment_size \in Size
  /\ c.framed_mtu # Nil => c.framed_mtu \in Size
  /\ c.strip_framed_mtu \in BOOLEAN
  /\ c.max_message_len >= 4096

Given(flag, value) == IF flag # Nil THEN flag ELSE value

(* Mutant of Overridden: --framed-mtu leaves a strip of the file in force. *)
OverriddenStillStripped(c, a) ==
  [c EXCEPT !.mode = Given(a.mode, @),
            !.downstream_fragment_size = Given(a.fragment_size, @),
            !.framed_mtu = Given(a.framed_mtu, @),
            !.strip_framed_mtu = a.strip_framed_mtu \/ @,
            !.output_dir = Given(a.output_dir, @)]

(* The command line applied to the configuration of the file.              *)
Overridden(c, a) ==
  [c EXCEPT !.mode = Given(a.mode, @),
            !.downstream_fragment_size = Given(a.fragment_size, @),
            !.framed_mtu = Given(a.framed_mtu, @),
            !.strip_framed_mtu = a.strip_framed_mtu \/ (@ /\ a.framed_mtu = Nil),
            !.output_dir = Given(a.output_dir, @)]

(* The Framed-MTU send_eap() sends for an access point that sent ap: it    *)
(* drops or rewrites the attribute where there is one, and never adds it.  *)
Advertised(c, ap) ==
  IF ap = Nil \/ (c.mode = "reassemble" /\ c.strip_framed_mtu) THEN Nil
  ELSE IF c.mode = "reassemble" THEN Given(c.framed_mtu, ap)
  ELSE ap

-----------------------------------------------------------------------------
Init ==
  /\ phase = "down"
  /\ args = Nil /\ path = Nil /\ loaded = Nil /\ cfg = Nil /\ seq = 0
  /\ made = 0 /\ clock = 1
  /\ auths = 0 /\ written = {} /\ files = <<>>

(* _parse_args() and _resolve_config(): the default file, when it is not   *)
(* in the working directory, is looked for beside the package.             *)
Launch ==
  /\ phase = "down"
  /\ made < MaxReporters
  /\ phase' = "launched"
  /\ args' \in Invocations
  /\ \/ path' = args'.config
     \/ args'.config = "config.yaml" /\ path' = "packaged"
  /\ UNCHANGED <<loaded, cfg, seq, made, clock, disk>>

(* main() raises, or the process is killed or interrupted.                 *)
Exit ==
  /\ phase # "down"
  /\ phase' = "down"
  /\ args' = Nil /\ path' = Nil /\ loaded' = Nil /\ cfg' = Nil /\ seq' = 0
  /\ UNCHANGED <<made, clock, disk>>

(* config.load(): a file that is missing, lacks a key, has one too many,   *)
(* or is not valid raises (Exit).                                          *)
Load ==
  /\ phase = "launched"
  /\ \E c \in Configs :
       /\ Valid(c)
       /\ loaded' = c /\ cfg' = c
  /\ phase' = "loaded"
  /\ UNCHANGED <<args, path, seq, made, clock, disk>>

(* The flags, and the cfg.validate() after them.                           *)
Override ==
  /\ phase = "loaded"
  /\ Valid(Overridden(cfg, args))
  /\ cfg' = Overridden(cfg, args)
  /\ phase' = "configured"
  /\ UNCHANGED <<args, path, loaded, seq, made, clock, disk>>

(* The parts are built, a Reporter that counts from 0 among them, and the  *)
(* socket bound; a directory that cannot be made, or a port that is taken, *)
(* raises (Exit).                                                          *)
Serve ==
  /\ phase = "configured"
  /\ phase' = "serving"
  /\ seq' = 0
  /\ made' = made + 1
  /\ UNCHANGED <<args, path, loaded, cfg, clock, disk>>

(* Mutants of FileName: without the number; without the time.              *)
FileNameUnnumbered(result) ==
  [dir |-> cfg.output_dir, time |-> clock, seq |-> 0, mode |-> cfg.mode, result |-> result]
FileNameUntimed(result) ==
  [dir |-> cfg.output_dir, time |-> 0, seq |-> seq + 1, mode |-> cfg.mode, result |-> result]

FileName(result) ==
  [dir |-> cfg.output_dir, time |-> clock, seq |-> seq + 1, mode |-> cfg.mode, result |-> result]

(* What this process writes of the authentication that ends: all of it, or *)
(* as much as there was room for.                                          *)
Content(whole) == [auth |-> auths + 1, by |-> made, at |-> clock, whole |-> whole]

Write(name, content) ==
  files' = [n \in DOMAIN files \cup {name} |-> IF n = name THEN content ELSE files[n]]

(* An authentication ends with result.  Its record is written; or is cut   *)
(* short by an error, which leaves a truncated file; or cannot be opened;  *)
(* or its directory cannot be made, before the number is drawn.            *)
Report(result) ==
  /\ phase = "serving"
  /\ auths < MaxAuths
  /\ auths' = auths + 1
  /\ \/ /\ seq' = seq + 1
        /\ \/ /\ Write(FileName(result), Content(TRUE))
              /\ written' = written \cup {[name |-> FileName(result), record |-> Content(TRUE)]}
           \/ Write(FileName(result), Content(FALSE)) /\ UNCHANGED written
           \/ UNCHANGED <<written, files>>
     \/ UNCHANGED <<seq, written, files>>
  /\ UNCHANGED <<phase, args, path, loaded, cfg, made, clock>>

(* Local time (time.strftime), which goes on, and goes back at the end of  *)
(* daylight saving time or when the clock is set.                          *)
Tick ==
  /\ clock < MaxTime
  /\ clock' = clock + 1
  /\ UNCHANGED <<phase, memory, made, disk>>

SetBack ==
  /\ clock' \in 1 .. clock - 1
  /\ UNCHANGED <<phase, memory, made, disk>>

Next ==
  \/ Launch \/ Load \/ Override \/ Serve \/ Exit \/ Tick \/ SetBack
  \/ \E result \in {"accept", "reject"} : Report(result)

Spec == Init /\ [][Next]_vars

-----------------------------------------------------------------------------
(* What the server is told of the link is what the operator asked for, as  *)
(* far as the access point says anything of it: in passthrough the access  *)
(* point's own Framed-MTU; else a flag outranks the file, and              *)
(* --strip-framed-mtu outranks --framed-mtu (main's comment on the two,    *)
(* and the help of the options).                                           *)
Wanted(ap) ==
  IF Given(args.mode, loaded.mode) = "passthrough" THEN ap
  ELSE IF ap = Nil \/ args.strip_framed_mtu THEN Nil
  ELSE IF args.framed_mtu # Nil THEN args.framed_mtu
  ELSE IF loaded.strip_framed_mtu THEN Nil
  ELSE Given(loaded.framed_mtu, ap)

AdvertisesAsAsked ==
  phase = "serving" => \A ap \in {Nil, 1400} : Advertised(cfg, ap) = Wanted(ap)

(* A record, once written, stays on disk, unless a process started later   *)
(* ends an authentication at the same reading of local time: a process     *)
(* never replaces a record of its own, with whatever errors and however    *)
(* the clock is set, nor one made at another time (_write_json's name).    *)
RecordsStay ==
  \A w \in written :
    /\ w.name \in DOMAIN files
    /\ LET now == files[w.name]
       IN  now = w.record \/ (now.by > w.record.by /\ now.at = w.record.at)

-----------------------------------------------------------------------------
(* Why a process leaves its own files alone: they have numbers it has      *)
(* drawn.  And the time a file was written at is in its name.              *)
NamesUsed ==
  \A n \in DOMAIN files :
    /\ files[n].by <= made
    /\ files[n].by = made /\ phase = "serving" => n.seq <= seq
    /\ files[n].at = n.time

NamesDated == \A w \in written : w.record.at = w.name.time

TypeOK ==
  /\ made \in Nat /\ seq \in Nat
  /\ \A n \in DOMAIN files : n.seq \in Nat /\ files[n].by \in Nat
  /\ \A w \in written : w.record.by \in Nat

ProcessInv ==
  /\ TypeOK
  /\ NamesUsed
  /\ NamesDated
  /\ RecordsStay
=============================================================================
