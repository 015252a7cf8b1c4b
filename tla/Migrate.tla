------------------------------ MODULE Migrate ------------------------------
(***************************************************************************)
(* The migrations of a catalogue's text                                    *)
(* (crates/wiretap-catalog/src/migrate.rs). A step that fires says so, and *)
(* the result is the input, whatever became of it, when none has.          *)
(***************************************************************************)
EXTENDS ModbusManifest

\* Only a table written as one is a section; an inline one is a value.
FrameTables(doc, section) ==
  {section \o <<k>> : k \in {j \in Keys(doc, section) : j # "config" /\ IsTable(doc, section \o <<j>>)}}

\* The registers are not told which slave they are read from.
MigrateUntagged(doc) ==
  LET legacy == <<"meta", "modbus", "device_address">>
      node   == <<"node", slave_node_name(Else(as_u8(doc, legacy), 1))>>
  IN  IF Keys(doc, ModbusFrames) \ {"config"} = {} \/ Keys(doc, <<"node">>) # {}
      THEN [doc |-> doc, changed |-> FALSE]
      ELSE [doc |-> [p \in {<<"node">>, node} |-> Tab]
                      @@ (node \o <<"device_address">> :> Num(Else(as_u8(doc, legacy), 1)))
                      @@ Removed(doc, legacy), changed |-> TRUE]

\* The slave's address moves to a node of its own, and the registers that name
\* none name it.
migrate_modbus_nodes(doc) ==
  LET legacy  == IF IsTable(doc, <<"meta", "modbus">>) THEN <<"meta", "modbus", "device_address">> ELSE <<"none">>
      address == Else(as_u8(doc, legacy), 1)
      node    == <<"node", slave_node_name(address)>>
      tagged  == {f \o <<"node_address">> :
                    f \in {g \in FrameTables(doc, ModbusFrames) : g \o <<"node_address">> \notin DOMAIN doc}}
      added   == [p \in tagged |-> Num(address)] @@ [p \in {<<"node">>, node} |-> Tab]
                   @@ (node \o <<"device_address">> :> Num(address))
  IN  IF Keys(doc, ModbusFrames) \ {"config"} = {} \/ Keys(doc, <<"node">>) # {}
      THEN [doc |-> doc, changed |-> FALSE]
      ELSE [doc |-> added @@ Removed(doc, legacy), changed |-> TRUE]

\* Only the first of the two spellings is taken out, and it is out whether or
\* not it is a number; only with a number is an empty tx dropped.
take_tx_interval(doc, frame) ==
  LET tx    == frame \o <<"tx">>
      spelt == IF tx \o <<"interval_ms">> \in DOMAIN doc THEN tx \o <<"interval_ms">> ELSE tx \o <<"interval">>
      taken == Removed(doc, spelt)
  IN  IF tx \notin DOMAIN doc \/ doc[tx] \notin {Tab, Inline} THEN [doc |-> doc, ms |-> {}]
      ELSE [ms  |-> as_i64(doc, spelt),
            doc |-> IF as_i64(doc, spelt) # {} /\ Keys(taken, tx) = {} THEN Removed(taken, tx) ELSE taken]

\* The interval is kept at the top of the frame, where one is that already is.
MoveInterval(doc, frame) ==
  LET took == take_tx_interval(doc, frame)
      top  == frame \o <<"interval_ms">>
  IN  IF took.ms = {} \/ top \in DOMAIN doc THEN took.doc
      ELSE (top :> Num(Else(took.ms, 0))) @@ took.doc

migrate_frame_intervals(doc) ==
  LET frames == UNION {FrameTables(doc, s) : s \in {CanFrames, ModbusFrames, SerialFrames}}
  IN  [doc     |-> FoldFunction(LAMBDA f, d : MoveInterval(d, f), doc, [f \in frames |-> f]),
       changed |-> \E f \in frames : take_tx_interval(doc, f).ms # {}]

migrate(doc) ==
  LET nodes     == migrate_modbus_nodes(doc)
      intervals == migrate_frame_intervals(nodes.doc)
      changed   == nodes.changed \/ intervals.changed
  IN  [changed |-> changed, doc |-> IF changed THEN intervals.doc ELSE doc]
=============================================================================
