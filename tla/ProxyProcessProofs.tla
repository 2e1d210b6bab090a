------------------------- MODULE ProxyProcessProofs -------------------------
(* For every number of processes, seconds and authentications: a process   *)
(* tells the server of the link what the operator asked for, and a record  *)
(* is replaced only by one that a later process makes at the same reading  *)
(* of local time.                                                          *)
EXTENDS ProxyProcess, TLAPS

-----------------------------------------------------------------------------
(* Where cfg comes from: the file as it was loaded, then the flags applied *)
(* to it, once.                                                            *)
Fields == {"mode", "downstream_fragment_size", "framed_mtu", "strip_framed_mtu", "output_dir"}

CfgInv ==
  /\ phase \in {"loaded", "configured", "serving"} =>
       Valid(loaded) /\ Fields \subseteq DOMAIN loaded
  /\ phase = "loaded" => cfg = loaded
  /\ phase \in {"configured", "serving"} => cfg = Overridden(loaded, args) /\ Valid(cfg)

LEMMA ValidSwitches ==
  ASSUME NEW c, Valid(c)
  PROVE  c.mode \in {"reassemble", "passthrough"} /\ c.strip_framed_mtu \in BOOLEAN
BY DEF Valid

LEMMA ConfigurationKept ==
  ASSUME CfgInv, UNCHANGED <<args, loaded, cfg>>,
         phase' = phase \/ (phase = "configured" /\ phase' = "serving")
  PROVE  CfgInv'
<1>1. /\ Valid(loaded)' = Valid(loaded) /\ Valid(cfg)' = Valid(cfg)
      /\ Overridden(loaded, args)' = Overridden(loaded, args)
      /\ (Fields \subseteq DOMAIN loaded)' = (Fields \subseteq DOMAIN loaded)
  BY Zenon
<1>2. QED
  BY <1>1 DEF CfgInv

(* The order main() lets the flags outrank the file in is the one their    *)
(* help promises: strip_framed_mtu of the file yields to --framed-mtu.     *)
LEMMA OverriddenAdvertises ==
  ASSUME Valid(loaded), Fields \subseteq DOMAIN loaded,
         cfg = Overridden(loaded, args), Valid(cfg), NEW ap
  PROVE  Advertised(cfg, ap) = Wanted(ap)
<1>1. /\ cfg.mode = Given(args.mode, loaded.mode)
      /\ cfg.framed_mtu = Given(args.framed_mtu, loaded.framed_mtu)
      /\ cfg.strip_framed_mtu
           = (args.strip_framed_mtu \/ (loaded.strip_framed_mtu /\ args.framed_mtu = Nil))
  BY DEF Overridden, Fields
<1>2. Given(args.mode, loaded.mode) \in {"reassemble", "passthrough"}
  BY <1>1, ValidSwitches, Zenon
<1>3. loaded.strip_framed_mtu \in BOOLEAN
  BY ValidSwitches, Zenon
<1>4. QED
  BY <1>1, <1>2, <1>3 DEF Advertised, Wanted, Given

(* What the server is told of the link is what the operator asked for:     *)
(* --strip-framed-mtu before --framed-mtu before the file, in passthrough  *)
(* none of them, and nothing of a link the access point does not describe  *)
(* (main() after config.load(), send_eap()).                               *)
THEOREM AlwaysAdvertisesAsAsked == Spec => []AdvertisesAsAsked
<1>1. Init => CfgInv
  BY DEF Init, CfgInv
<1>2. CfgInv /\ [Next]_vars => CfgInv'
  <2> SUFFICES ASSUME CfgInv, [Next]_vars PROVE CfgInv'
    OBVIOUS
  <2>1. CASE Load
    <3>1. PICK c \in Configs : Valid(c) /\ loaded' = c /\ cfg' = c
      BY <2>1 DEF Load
    <3>2. Fields \subseteq DOMAIN c
      BY ConfigsAssumption DEF Fields
    <3>3. Valid(loaded') /\ Fields \subseteq DOMAIN loaded' /\ cfg' = loaded'
      BY <3>1, <3>2, Zenon
    <3>4. Valid(loaded)'
      BY <3>3, Zenon
    <3>5. phase' = "loaded"
      BY <2>1 DEF Load
    <3>6. QED
      BY <3>3, <3>4, <3>5 DEF CfgInv
  <2>2. CASE Override
    <3>1. /\ Valid(loaded) /\ Fields \subseteq DOMAIN loaded /\ cfg = loaded
          /\ loaded' = loaded /\ args' = args
          /\ cfg' = Overridden(cfg, args) /\ Valid(Overridden(cfg, args))
          /\ phase' = "configured"
      BY <2>2 DEF Override, CfgInv
    <3>2. cfg' = Overridden(loaded', args') /\ Valid(cfg')
      BY <3>1, Zenon
    <3>3. Valid(cfg)' /\ Valid(loaded)' /\ Overridden(loaded, args)' = Overridden(loaded', args')
      BY <3>1, <3>2, Zenon
    <3>4. QED
      BY <3>1, <3>2, <3>3 DEF CfgInv
  <2>3. CASE Serve
    BY <2>3, ConfigurationKept DEF Serve
  <2>4. CASE Launch \/ Exit
    BY <2>4 DEF Launch, Exit, CfgInv
  <2>5. CASE UNCHANGED <<phase, args, loaded, cfg>>
    BY <2>5, ConfigurationKept
  <2>6. Tick \/ SetBack \/ (\E result \in {"accept", "reject"} : Report(result)) \/ UNCHANGED vars
          => UNCHANGED <<phase, args, loaded, cfg>>
    BY DEF Tick, SetBack, Report, vars, memory
  <2>7. QED
    BY <2>1, <2>2, <2>3, <2>4, <2>5, <2>6 DEF Next
<1>3. CfgInv => AdvertisesAsAsked
  BY OverriddenAdvertises DEF CfgInv, AdvertisesAsAsked
<1>4. QED
  BY <1>1, <1>2, <1>3, PTL DEF Spec

-----------------------------------------------------------------------------
(* A write replaces the file of its name, if there is one, and no other.   *)
LEMMA WriteEffect ==
  ASSUME NEW name, NEW content, Write(name, content)
  PROVE  /\ DOMAIN files' = DOMAIN files \cup {name}
         /\ files'[name] = content
         /\ \A n \in DOMAIN files : n # name => files'[n] = files[n]
BY DEF Write

(* The file a report replaces, if any, is of an earlier process: the       *)
(* number in its name is the next one of this process's Reporter.          *)
LEMMA ReplacesOlder ==
  ASSUME ProcessInv, phase = "serving", NEW result, FileName(result) \in DOMAIN files
  PROVE  files[FileName(result)].by < made
<1>1. PICK n \in DOMAIN files : n = FileName(result)
  OBVIOUS
<1>2. n.seq = seq + 1
  BY <1>1 DEF FileName
<1>3. /\ made \in Nat /\ seq \in Nat /\ files[n].by \in Nat /\ files[n].by <= made
      /\ files[n].by = made => n.seq <= seq
  BY DEF ProcessInv, TypeOK, NamesUsed
<1>4. files[n].by < made
  BY <1>2, <1>3
<1>5. QED
  BY <1>1, <1>4

(* Steps that leave the disk alone only end a process or make the next.    *)
LEMMA DiskKept ==
  ASSUME ProcessInv, UNCHANGED <<written, files>>,
         made' \in Nat, seq' \in Nat, made <= made',
         phase' = "serving" => made < made' \/ (phase = "serving" /\ seq <= seq')
  PROVE  ProcessInv'
<1>1. made \in Nat /\ seq \in Nat
  BY DEF ProcessInv, TypeOK
<1>2. ASSUME NEW n \in DOMAIN files
      PROVE  /\ files[n].by <= made'
             /\ files[n].by = made' /\ phase' = "serving" => n.seq <= seq'
             /\ files[n].at = n.time
  <2>1. /\ n.seq \in Nat /\ files[n].by \in Nat /\ files[n].by <= made
        /\ files[n].by = made /\ phase = "serving" => n.seq <= seq
        /\ files[n].at = n.time
    BY DEF ProcessInv, TypeOK, NamesUsed
  <2>2. QED
    BY <1>1, <2>1
<1>3. NamesUsed'
  BY <1>2 DEF NamesUsed
<1>4. TypeOK' /\ NamesDated' /\ RecordsStay'
  BY DEF ProcessInv, TypeOK, NamesDated, RecordsStay
<1>5. QED
  BY <1>3, <1>4 DEF ProcessInv

LEMMA WriteStep ==
  ASSUME ProcessInv, NEW result, NEW whole, Write(FileName(result), Content(whole)),
         UNCHANGED <<phase, made>>, phase = "serving", seq' = seq + 1,
         \/ written' = written
         \/ /\ whole
            /\ written' = written \cup {[name |-> FileName(result), record |-> Content(whole)]}
  PROVE  ProcessInv'
<1>1. PICK name : name = FileName(result)
  OBVIOUS
<1>2. PICK content : content = Content(whole)
  OBVIOUS
<1>3. /\ name.time = clock /\ name.seq = seq + 1
      /\ content.by = made /\ content.at = clock
  BY <1>1, <1>2 DEF FileName, Content
<1>4. made \in Nat /\ seq \in Nat /\ made' = made /\ seq' \in Nat /\ seq < seq'
  BY DEF ProcessInv, TypeOK
<1>5. /\ DOMAIN files' = DOMAIN files \cup {name}
      /\ files'[name] = content
      /\ \A n \in DOMAIN files : n # name => files'[n] = files[n]
  BY <1>1, <1>2, WriteEffect, Zenon
<1>6. written' = written \/ written' = written \cup {[name |-> name, record |-> content]}
  BY <1>1, <1>2
<1>7. NamesUsed'
  <2> SUFFICES ASSUME NEW n \in DOMAIN files'
               PROVE  /\ files'[n].by <= made'
                      /\ files'[n].by = made' /\ phase' = "serving" => n.seq <= seq'
                      /\ files'[n].at = n.time
    BY DEF NamesUsed
  <2>1. CASE n = name
    BY <2>1, <1>3, <1>4, <1>5
  <2>2. CASE n # name
    <3>1. n \in DOMAIN files /\ files'[n] = files[n]
      BY <2>2, <1>5
    <3>2. /\ n.seq \in Nat /\ files[n].by <= made /\ files[n].at = n.time
          /\ files[n].by = made => n.seq <= seq
      BY <3>1 DEF ProcessInv, TypeOK, NamesUsed
    <3>3. QED
      BY <1>4, <3>1, <3>2
  <2>3. QED
    BY <2>1, <2>2
<1>8. TypeOK'
  <2>1. \A n \in DOMAIN files' : n.seq \in Nat /\ files'[n].by \in Nat
    BY <1>3, <1>4, <1>5 DEF ProcessInv, TypeOK
  <2>2. \A w \in written' : w.record.by \in Nat
    BY <1>3, <1>4, <1>6 DEF ProcessInv, TypeOK
  <2>3. QED
    BY <1>4, <2>1, <2>2 DEF TypeOK
<1>9. NamesDated'
  BY <1>3, <1>6 DEF ProcessInv, NamesDated
<1>10. RecordsStay'
  <2> SUFFICES ASSUME NEW w \in written'
               PROVE  /\ w.name \in DOMAIN files'
                      /\ \/ files'[w.name] = w.record
                         \/ /\ files'[w.name].by > w.record.by
                            /\ files'[w.name].at = w.record.at
    BY DEF RecordsStay
  <2>1. CASE w \notin written
    <3>1. w.name = name /\ w.record = content
      BY <2>1, <1>6
    <3>2. QED
      BY <3>1, <1>5
  <2>2. CASE w \in written /\ w.name # name
    BY <2>2, <1>5 DEF ProcessInv, RecordsStay
  <2>3. CASE w \in written /\ w.name = name
    <3>1. /\ name \in DOMAIN files
          /\ files[name] = w.record
               \/ (files[name].by > w.record.by /\ files[name].at = w.record.at)
      BY <2>3 DEF ProcessInv, RecordsStay
    <3>2. files[name].by < made
      BY <1>1, <3>1, ReplacesOlder
    <3>3. w.record.by \in Nat /\ files[name].by \in Nat
      BY <2>3, <3>1 DEF ProcessInv, TypeOK
    <3>4. w.record.by < made
      BY <1>4, <3>1, <3>2, <3>3
    <3>5. w.record.at = clock
      BY <1>3, <2>3 DEF ProcessInv, NamesDated
    <3>6. QED
      BY <1>3, <1>5, <2>3, <3>4, <3>5
  <2>4. QED
    BY <2>1, <2>2, <2>3
<1>11. QED
  BY <1>7, <1>8, <1>9, <1>10 DEF ProcessInv

LEMMA ReportStep ==
  ASSUME ProcessInv, NEW result, Report(result)
  PROVE  ProcessInv'
<1>1. phase = "serving" /\ UNCHANGED <<phase, made>> /\ made \in Nat /\ seq \in Nat
  BY DEF Report, ProcessInv, TypeOK
<1>2. CASE UNCHANGED <<written, files>>
  <2>1. seq' = seq + 1 \/ seq' = seq
    BY DEF Report
  <2>2. made' \in Nat /\ seq' \in Nat /\ made <= made' /\ seq <= seq'
    BY <1>1, <2>1
  <2>3. QED
    BY <1>1, <1>2, <2>2, DiskKept
<1>3. CASE /\ seq' = seq + 1
           /\ Write(FileName(result), Content(TRUE))
           /\ written' = written \cup {[name |-> FileName(result), record |-> Content(TRUE)]}
  BY <1>1, <1>3, WriteStep
<1>4. CASE seq' = seq + 1 /\ Write(FileName(result), Content(FALSE)) /\ UNCHANGED written
  BY <1>1, <1>4, WriteStep
<1>5. QED
  BY <1>2, <1>3, <1>4 DEF Report

(* A record, once written, stays on disk, unless a process started later   *)
(* ends an authentication at the same reading of local time, however the   *)
(* clock is set and whatever errors there are (the second and the counter  *)
(* in _write_json's file name).                                            *)
THEOREM RecordsAlwaysStay == Spec => []RecordsStay
<1>1. Init => ProcessInv
  BY DEF Init, ProcessInv, TypeOK, NamesUsed, NamesDated, RecordsStay
<1>2. ProcessInv /\ [Next]_vars => ProcessInv'
  <2> SUFFICES ASSUME ProcessInv, [Next]_vars PROVE ProcessInv'
    OBVIOUS
  <2>1. made \in Nat /\ seq \in Nat
    BY DEF ProcessInv, TypeOK
  <2>2. CASE \E result \in {"accept", "reject"} : Report(result)
    BY <2>2, ReportStep
  <2>3. CASE Serve
    <3>1. /\ UNCHANGED <<written, files>>
          /\ made' = made + 1 /\ seq' = 0
      BY <2>3 DEF Serve, disk
    <3>2. made' \in Nat /\ seq' \in Nat /\ made < made' /\ made <= made'
      BY <2>1, <3>1
    <3>3. QED
      BY <3>1, <3>2, DiskKept
  <2>4. CASE Launch \/ Load \/ Override \/ Exit
    <3>1. /\ UNCHANGED <<written, files>> /\ made' = made
          /\ seq' = seq \/ seq' = 0
          /\ phase' # "serving"
      BY <2>4 DEF Launch, Load, Override, Exit, disk
    <3>2. QED
      BY <2>1, <3>1, DiskKept
  <2>5. CASE Tick \/ SetBack \/ UNCHANGED vars
    <3>1. UNCHANGED <<written, files, made, seq, phase>>
      BY <2>5 DEF Tick, SetBack, vars, memory, disk
    <3>2. QED
      BY <2>1, <3>1, DiskKept
  <2>6. QED
    BY <2>2, <2>3, <2>4, <2>5 DEF Next
<1>3. ProcessInv => RecordsStay
  BY DEF ProcessInv
<1>4. QED
  BY <1>1, <1>2, <1>3, PTL DEF Spec
=============================================================================
