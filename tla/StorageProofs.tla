--------------------------- MODULE StorageProofs ----------------------------
(***************************************************************************)
(* What keeps data: the parts of the device in memory and in flash, when   *)
(* they are saved, and the buffer of the UART, for every size of each.     *)
(***************************************************************************)
EXTENDS StorageLemmas, Config, RingBuffer

-----------------------------------------------------------------------------
(***************************************************************************)
(* The calls.  Most keep the peripherals and the ports that these made:    *)
(* those of a.                                                             *)
(***************************************************************************)
Held(a, r) == Made(r, a.made) /\ r.peripherals = a.peripherals

OutcomeOk(a, outcome) == DOMAIN outcome = {"ram", "ok"} /\ Held(a, outcome.ram)

LEMMA HeldParts ==
    ASSUME NEW a, NEW r, Held(a, r), NEW t, DOMAIN t = RamFields,
           t.ports = r.ports, t.used_slots = r.used_slots, t.peripherals = r.peripherals, DeviceOk(t.device)
    PROVE  Held(a, t)
  BY SameParts DEF Held

LEMMA HeldIs ==
    ASSUME NEW a, NEW r, Held(a, r)
    PROVE  /\ RamOk(r) /\ DOMAIN r = RamFields /\ DeviceOk(r.device)
           /\ IsSeq(r.ports) /\ Len(r.ports) \in Nat /\ DOMAIN r.ports = 1..Len(r.ports)
           /\ r.ports = [i \in 1..Len(r.ports) |-> r.ports[i]]
           /\ \A i \in 1..Len(r.ports) : PortOk(r.ports[i])
  BY SeqIs DEF Held, Made, RamOk, PortsOk

LEMMA Outcomes ==
    ASSUME NEW a, NEW r, Held(a, r)
    PROVE  /\ OutcomeOk(a, Refused(r)) /\ Refused(r).ram = r
           /\ OutcomeOk(a, Done(r)) /\ Done(r).ram = r
           /\ OutcomeOk(a, Marked(r))
<1> DEFINE m == [r EXCEPT !.needs_saving = TRUE]
<1>1. /\ DOMAIN m = RamFields /\ m.ports = r.ports /\ m.used_slots = r.used_slots
      /\ m.peripherals = r.peripherals /\ m.device = r.device
  BY HeldIs DEF RamFields
<1> HIDE DEF m
<1>2. Held(a, m)
  BY <1>1, HeldIs, HeldParts
<1> QED
  BY <1>2 DEF Refused, Done, Marked, OutcomeOk, m

LEMMA PostOk ==
    ASSUME NEW a, NEW r, Held(a, r), NEW new
    PROVE  OutcomeOk(a, api_post_ports(r, new))
<1>1. CASE PostRefused(r, new)
  BY <1>1, Outcomes DEF api_post_ports
<1>2. CASE ~PostRefused(r, new)
  <2> DEFINE p == [port_new EXCEPT !.id = new.id, !.integer = new.integer,
                       !.flags = {"enabled"} \cup IF new.number THEN {"number"} ELSE {}]
  <2>1. api_post_ports(r, new) = Marked(RegisterVirtual(r, p))
    BY <1>2 DEF api_post_ports
  <2>2. DOMAIN p = PortFields /\ p.slot = -1 /\ p.peripheral = 0
    BY DEF port_new, PortFields
  <2>3. ~(VirtualSlots \subseteq r.used_slots)
    BY <1>2 DEF PostRefused
  <2> HIDE DEF p
  <2>4. p.slot \in Int /\ p.slot < 0
    BY <2>2
  <2>5. Held(a, RegisterVirtual(r, p))
    BY <2>2, <2>3, <2>4, VirtualRegistered DEF Held
  <2> QED
    BY <2>1, <2>5, Outcomes
<1> QED
  BY <1>1, <1>2

LEMMA DeleteOk ==
    ASSUME NEW a, NEW r, Held(a, r), NEW i \in 1..Len(r.ports)
    PROVE  OutcomeOk(a, api_delete_port(r, i))
<1>1. CASE ~IsVirtual(r.ports[i])
  BY <1>1, Outcomes DEF api_delete_port
<1>2. CASE IsVirtual(r.ports[i])
  <2> DEFINE s == port_unregister(r, i)
  <2>1. /\ DOMAIN s = RamFields /\ s.ports = RemoveAt(r.ports, i) /\ s.peripherals = r.peripherals
        /\ s.used_slots = r.used_slots \ {r.ports[i].slot} /\ s.device = r.device
    BY HeldIs DEF port_unregister, RamFields
  <2> HIDE DEF s
  <2>2. PortsOk(s.ports) /\ SlotsIn(s.ports) = s.used_slots
    BY <2>1, PortsRemoved DEF Held, Made, RamOk
  <2>3. RamOk(s)
    BY <2>1, <2>2 DEF Held, Made, RamOk
  <2>4. Matches(s.ports, a.made)
    <3>1. IsSeq(r.ports) /\ Matches(r.ports, a.made)
      BY HeldIs DEF Held, Made
    <3>2. Matches(RemoveAt(r.ports, i), a.made)
      BY <1>2, <3>1, VirtualRemoved
    <3> QED
      BY <2>1, <3>2
  <2>5. Held(a, s)
    BY <2>1, <2>3, <2>4 DEF Held, Made
  <2> QED
    BY <1>2, <2>5, Outcomes DEF api_delete_port, s
<1> QED
  BY <1>1, <1>2

\* A port that differs from the one in its place in nothing that its driver made.
LEMMA PortReplaced ==
    ASSUME NEW a, NEW r, Held(a, r), NEW i \in 1..Len(r.ports), NEW p, PortOk(p),
           p.slot = r.ports[i].slot, p.id = r.ports[i].id, p.peripheral = r.ports[i].peripheral,
           p.flags \cap DriverFlags = r.ports[i].flags \cap DriverFlags
    PROVE  LET s == [r EXCEPT !.ports[i] = p] IN Held(a, s) /\ Len(s.ports) = Len(r.ports)
<1> DEFINE s     == [r EXCEPT !.ports[i] = p]
           ports == [r.ports EXCEPT ![i] = p]
           n     == Len(r.ports)
<1>1. n \in Nat /\ r.ports = [k \in 1..n |-> r.ports[k]]
  BY HeldIs
<1>2. ports = [k \in 1..n |-> IF k = i THEN p ELSE r.ports[k]]
  BY <1>1
<1>3. /\ DOMAIN s = RamFields /\ s.ports = ports /\ s.used_slots = r.used_slots
      /\ s.peripherals = r.peripherals /\ s.device = r.device
  BY HeldIs DEF RamFields
<1> HIDE DEF s, ports
<1>4. ports = [k \in 1..n |-> ports[k]]
  BY <1>2
<1>5. \A k \in 1..n : PortOk(ports[k]) /\ ports[k].slot = r.ports[k].slot
  BY <1>2, HeldIs
<1>6. PortsOk(ports) /\ SlotsIn(ports) = SlotsIn(r.ports)
  BY <1>4, <1>5, PortsChanged DEF Held, Made, RamOk
<1>7. Len(ports) = n
  BY <1>1, <1>4, FunctionIsSeq
<1>8. \A k \in 1..n : /\ ports[k].slot = r.ports[k].slot /\ ports[k].id = r.ports[k].id
                      /\ ports[k].peripheral = r.ports[k].peripheral
                      /\ ports[k].flags \cap DriverFlags = r.ports[k].flags \cap DriverFlags
  BY <1>2
<1>9. Matches(ports, a.made)
  BY <1>4, <1>8, HeldIs, MadeChanged DEF Held, Made
<1>10. RamOk(s)
  BY <1>3, <1>6 DEF Held, Made, RamOk
<1> QED
  BY <1>3, <1>7, <1>9, <1>10 DEF Held, Made, s

\* The changes of a port, one after another.
PatchChange(i, s, c) ==
    CASE c[1] = "invalid"      -> Refused(s)
      [] c[1] = "display_name" -> Done([s EXCEPT !.ports[i].display_name = c[2]])
      [] OTHER                 -> Done([s EXCEPT !.ports[i] = Flag(@, c[1], c[2])])

PatchStep(b, outcome, c) == IF outcome.ok THEN PatchChange(b.i, outcome.ram, c) ELSE outcome

PatchGood(b, k, outcome) == OutcomeOk(b.a, outcome) /\ b.i \in 1..Len(outcome.ram.ports)

Patch == INSTANCE FoldInduction WITH Step <- PatchStep, Good <- PatchGood

LEMMA ChangeOk ==
    ASSUME NEW a, NEW r, Held(a, r), NEW i \in 1..Len(r.ports), NEW c, c[1] \notin DriverFlags
    PROVE  PatchGood([a |-> a, i |-> i], 0, PatchChange(i, r, c))
<1> DEFINE p == r.ports[i]
<1>0. /\ PortOk(p) /\ DOMAIN p = PortFields /\ r.ports = [k \in 1..Len(r.ports) |-> r.ports[k]]
      /\ "ports" \in DOMAIN r
  BY HeldIs DEF RamFields, PortOk, BarePortOk
<1>1. CASE c[1] = "invalid"
  BY <1>1, Outcomes DEF PatchChange, PatchGood
<1>2. CASE c[1] = "display_name"
  <2> DEFINE q == [p EXCEPT !.display_name = c[2]]
             s == [r EXCEPT !.ports[i].display_name = c[2]]
  <2>1. /\ DOMAIN q = PortFields /\ q.slot = p.slot /\ q.id = p.id /\ q.peripheral = p.peripheral
        /\ q.flags = p.flags
    BY <1>0 DEF PortFields
  <2>2. s = [r EXCEPT !.ports[i] = q]
    BY <1>0
  <2> HIDE DEF q
  <2>3. PortOk(q)
    BY <1>0, <2>1 DEF PortOk, BarePortOk, IdOk, IsVirtual
  <2>4. Held(a, s) /\ Len(s.ports) = Len(r.ports)
    BY <2>1, <2>2, <2>3, PortReplaced
  <2> HIDE DEF s
  <2>5. PatchChange(i, r, c) = Done(s)
    BY <1>2 DEF PatchChange, s
  <2> QED
    BY <2>4, <2>5, Outcomes DEF PatchGood
<1>3. CASE c[1] # "invalid" /\ c[1] # "display_name"
  <2> DEFINE q == Flag(p, c[1], c[2])
             s == [r EXCEPT !.ports[i] = q]
  <2>1. /\ DOMAIN q = PortFields /\ q.slot = p.slot /\ q.id = p.id /\ q.peripheral = p.peripheral
        /\ q.flags = IF c[2] = "true" THEN p.flags \cup {c[1]} ELSE p.flags \ {c[1]}
    BY <1>0 DEF PortFields, Flag
  <2>2. s = [r EXCEPT !.ports[i] = Flag(@, c[1], c[2])]
    BY <1>0
  <2> HIDE DEF q
  <2>3. q.flags \cap DriverFlags = p.flags \cap DriverFlags
    BY <2>1
  <2>4. "virtual" \in DriverFlags /\ "writable" \in DriverFlags
    BY DEF DriverFlags
  <2>5. PortOk(q)
    BY <1>0, <2>1, <2>3, <2>4 DEF PortOk, BarePortOk, IdOk, IsVirtual
  <2>6. Held(a, s) /\ Len(s.ports) = Len(r.ports)
    BY <2>1, <2>3, <2>5, PortReplaced
  <2> HIDE DEF s
  <2>7. PatchChange(i, r, c) = Done(s)
    BY <1>3, <2>2 DEF PatchChange
  <2> QED
    BY <2>6, <2>7, Outcomes DEF PatchGood
<1> QED
  BY <1>1, <1>2, <1>3

LEMMA PatchesOk ==
    ASSUME NEW b, NEW r, Held(b.a, r), b.i \in 1..Len(r.ports), NEW edits, PortChangesOk(edits)
    PROVE  OutcomeOk(b.a, api_patch_port(r, b.i, edits))
<1> DEFINE changed == Patch!Fold(b, Done(r), edits)
<1>1. api_patch_port(r, b.i, edits) = IF changed.ok THEN Marked(changed.ram) ELSE changed
  BY DEF api_patch_port, InTurn, Patch!Fold, PatchStep, PatchChange, FoldLeft, MapThenFoldSet, Max,
         Patch!MapThenFoldSet, Patch!Largest
<1> HIDE DEF changed
<1>2. /\ Len(edits) \in Nat /\ DOMAIN edits = 1..Len(edits)
      /\ \A k \in 1..Len(edits) : edits[k][1] \notin DriverFlags
  BY SeqIs DEF PortChangesOk
<1>3. PatchGood(b, 0, Done(r))
  BY Outcomes DEF PatchGood
<1>4. ASSUME NEW k \in 0..(Len(edits) - 1), NEW outcome, PatchGood(b, k, outcome)
      PROVE  PatchGood(b, k + 1, PatchStep(b, outcome, edits[k + 1]))
  <2>1. edits[k + 1][1] \notin DriverFlags
    BY <1>2
  <2>2. CASE outcome.ok
    BY <1>4, <2>1, <2>2, ChangeOk DEF PatchGood, PatchStep, OutcomeOk
  <2>3. CASE ~outcome.ok
    BY <1>4, <2>3 DEF PatchGood, PatchStep
  <2> QED
    BY <2>2, <2>3
<1>5. PatchGood(b, Len(edits), changed)
  BY <1>2, <1>3, <1>4, Patch!FoldKeeps DEF changed
<1> QED
  BY <1>1, <1>5, Outcomes DEF PatchGood, OutcomeOk

LEMMA PatchOk ==
    ASSUME NEW a, NEW r, Held(a, r), NEW i \in 1..Len(r.ports), NEW edits, PortChangesOk(edits)
    PROVE  OutcomeOk(a, api_patch_port(r, i, edits))
<1> DEFINE b == [a |-> a, i |-> i]
<1>1. b.a = a /\ b.i = i
  OBVIOUS
<1> HIDE DEF b
<1> QED
  BY <1>1, PatchesOk

\* A field of the device with another value.
LEMMA DeviceSet ==
    ASSUME NEW d, DeviceOk(d), NEW field, NEW v,
           field \in DeviceStrings => v # NoString
    PROVE  DeviceOk([d EXCEPT ![field] = v])
<1> DEFINE e == [d EXCEPT ![field] = v]
<1>1. e = [x \in DOMAIN d |-> IF x = field THEN v ELSE d[x]]
  BY DEF DeviceOk
<1> HIDE DEF e
<1>2. DOMAIN e = DOMAIN d /\ e = [x \in DOMAIN e |-> e[x]]
  BY <1>1
<1>3. \A x \in DeviceStrings : e[x] # NoString
  BY <1>1 DEF DeviceOk
<1> QED
  BY <1>2, <1>3 DEF DeviceOk, e

\* The device in memory with another value for a field.
LEMMA DeviceHeld ==
    ASSUME NEW a, NEW r, Held(a, r), NEW d, DeviceOk(d)
    PROVE  Held(a, [r EXCEPT !.device = d])
<1> DEFINE s == [r EXCEPT !.device = d]
<1>1. DOMAIN s = RamFields /\ s.device = d /\ s.ports = r.ports /\ s.used_slots = r.used_slots
      /\ s.peripherals = r.peripherals
  BY HeldIs DEF RamFields
<1> HIDE DEF s
<1> QED
  BY <1>1, HeldParts DEF s

\* What else is in memory.
LEMMA OthersHeld ==
    ASSUME NEW a, NEW r, Held(a, r), NEW field \in {"system", "system_slot", "provisioning", "needs_saving", "connected"},
           NEW v
    PROVE  Held(a, [r EXCEPT ![field] = v])
<1> DEFINE s == [r EXCEPT ![field] = v]
<1>1. DOMAIN s = RamFields /\ s.device = r.device /\ s.ports = r.ports /\ s.used_slots = r.used_slots
      /\ s.peripherals = r.peripherals
  BY HeldIs DEF RamFields
<1> HIDE DEF s
<1> QED
  BY <1>1, HeldIs, HeldParts DEF s

\* The changes of the device, of which none is about its ports.
DeviceChangeStep(a, outcome, c) == IF outcome.ok THEN DeviceChange(outcome.ram, c) ELSE outcome

OutcomeGood(a, k, outcome) == OutcomeOk(a, outcome)

DeviceChanged == INSTANCE FoldInduction WITH Step <- DeviceChangeStep, Good <- OutcomeGood

ChangeIsOk(c) == c[1] # "invalid" => c[1] \in DeviceStrings /\ c[2] # NoString

LEMMA DeviceChangeOk ==
    ASSUME NEW a, NEW r, Held(a, r), NEW c, ChangeIsOk(c)
    PROVE  OutcomeOk(a, DeviceChange(r, c))
<1>1. DeviceOk(r.device) /\ "device" \in DOMAIN r
  BY HeldIs DEF RamFields
<1>2. CASE c[1] = "invalid"
  BY <1>2, Outcomes DEF DeviceChange
<1>3. CASE c[1] = "config_name"
  <2> DEFINE d == [r.device EXCEPT !["config_name"] = c[2]]
             e == [d EXCEPT !["version"] = 0]
             s == [r EXCEPT !.device.config_name = c[2], !.device.version = 0]
  <2>1. DeviceOk(d)
    BY <1>1, <1>3, DeviceSet DEF ChangeIsOk
  <2>2. DeviceOk(e)
    <3> HIDE DEF d
    <3> QED
      BY <2>1, DeviceSet DEF DeviceStrings
  <2>3. s = [r EXCEPT !.device = e]
    BY <1>1
  <2>4. DeviceChange(r, c) = Done(s)
    BY <1>3 DEF DeviceChange
  <2> HIDE DEF e, s
  <2>5. Held(a, s)
    BY <2>2, <2>3, DeviceHeld
  <2> QED
    BY <2>4, <2>5, Outcomes
<1>4. CASE c[1] # "invalid" /\ c[1] # "config_name"
  <2> DEFINE d == [r.device EXCEPT ![c[1]] = c[2]]
             s == [r EXCEPT !.device[c[1]] = c[2]]
  <2>1. DeviceOk(d)
    BY <1>1, <1>4, DeviceSet DEF ChangeIsOk
  <2>2. s = [r EXCEPT !.device = d]
    BY <1>1
  <2>3. DeviceChange(r, c) = Done(s)
    BY <1>4 DEF DeviceChange
  <2> HIDE DEF d, s
  <2>4. Held(a, s)
    BY <2>1, <2>2, DeviceHeld
  <2> QED
    BY <2>3, <2>4, Outcomes
<1> QED
  BY <1>2, <1>3, <1>4

LEMMA PatchDeviceOk ==
    ASSUME NEW a, NEW r, Held(a, r), NEW edits, DeviceChangesOk(edits)
    PROVE  OutcomeOk(a, api_patch_device(r, edits))
<1> DEFINE changed == DeviceChanged!Fold(a, Done(r), edits)
           outcome == api_patch_device(r, edits)
           s       == [changed.ram EXCEPT !["needs_saving"] = TRUE]
<1>1. outcome = [changed EXCEPT !.ram.needs_saving = TRUE]
  BY DEF api_patch_device, InTurn, DeviceChanged!Fold, DeviceChangeStep, FoldLeft, MapThenFoldSet, Max,
         DeviceChanged!MapThenFoldSet, DeviceChanged!Largest
<1>2. /\ Len(edits) \in Nat /\ DOMAIN edits = 1..Len(edits)
      /\ \A k \in 1..Len(edits) : ChangeIsOk(edits[k])
  BY SeqIs DEF DeviceChangesOk, ChangeIsOk, DeviceStrings
<1>3. OutcomeGood(a, 0, Done(r))
  BY Outcomes DEF OutcomeGood
<1>4. ASSUME NEW k \in 0..(Len(edits) - 1), NEW o, OutcomeGood(a, k, o)
      PROVE  OutcomeGood(a, k + 1, DeviceChangeStep(a, o, edits[k + 1]))
  <2>1. ChangeIsOk(edits[k + 1])
    BY <1>2
  <2> QED
    BY <1>4, <2>1, DeviceChangeOk DEF OutcomeGood, DeviceChangeStep, OutcomeOk
<1>5. OutcomeGood(a, Len(edits), changed)
  BY <1>2, <1>3, <1>4, DeviceChanged!FoldKeeps
<1> HIDE DEF changed
<1>6. Held(a, s)
  BY <1>5, OthersHeld DEF OutcomeGood, OutcomeOk
<1>7. DOMAIN outcome = {"ram", "ok"} /\ outcome.ram = s
  BY <1>1, <1>5 DEF OutcomeGood, OutcomeOk
<1> QED
  BY <1>6, <1>7 DEF OutcomeOk

LEMMA ConfigNameOk ==
    ASSUME NEW a, NEW r, Held(a, r)
    PROVE  Held(a, ClearConfigName(r)) /\ Held(a, Unprovisioned(r))
<1> DEFINE d == [r.device EXCEPT !["config_name"] = ""]
           e == [d EXCEPT !["version"] = 0]
<1>0. DeviceOk(r.device) /\ "device" \in DOMAIN r
  BY HeldIs DEF RamFields
<1>1. DeviceOk(d)
  BY <1>0, DeviceSet DEF NoString
<1>2. DeviceOk(e)
  <2> HIDE DEF d
  <2> QED
    BY <1>1, DeviceSet DEF DeviceStrings
<1>3. ClearConfigName(r) = [r EXCEPT !.device = e]
  BY <1>0 DEF ClearConfigName
<1> HIDE DEF e
<1>4. Held(a, ClearConfigName(r))
  BY <1>2, <1>3, DeviceHeld
<1> QED
  BY <1>4 DEF Unprovisioned

LEMMA PatchSystemOk ==
    ASSUME NEW a, NEW r, Held(a, r), NEW change
    PROVE  OutcomeOk(a, api_patch_system(r, change))
<1> DEFINE button == [r EXCEPT !.system.button = change.button]
           led    == [button EXCEPT !.system.led = IF change.led = NoPart THEN change.button ELSE change.led]
           u      == Unprovisioned(led)
           s      == system_config_save(u)
<1>1. button = [r EXCEPT !["system"] = [r.system EXCEPT !.button = change.button]]
  BY HeldIs DEF RamFields
<1>2. Held(a, button)
  BY <1>1, OthersHeld
<1>3. led = [button EXCEPT !["system"] =
                 [button.system EXCEPT !.led = IF change.led = NoPart THEN change.button ELSE change.led]]
  BY <1>2, HeldIs DEF RamFields
<1>4. api_patch_system(r, change) \in {Refused(r), Refused(button), Done(s)}
  BY DEF api_patch_system
<1> HIDE DEF button
<1>5. Held(a, led)
  BY <1>2, <1>3, OthersHeld
<1> HIDE DEF led
<1>6. Held(a, u)
  BY <1>5, ConfigNameOk
<1> HIDE DEF u
<1>7. s = [u EXCEPT !["system_slot"] = u.system]
  BY DEF system_config_save
<1> HIDE DEF s
<1>8. Held(a, s)
  BY <1>6, <1>7, OthersHeld
<1> QED
  BY <1>2, <1>4, <1>8, Outcomes

LEMMA FoundIs ==
    ASSUME NEW a, NEW r, Held(a, r), NEW id, HasId(r, id)
    PROVE  Find(r, id) \in 1..Len(r.ports)
<1> DEFINE I == {i \in 1..Len(r.ports) : r.ports[i].id = id}
<1>1. DOMAIN r.ports = 1..Len(r.ports) /\ Len(r.ports) \in Nat
  BY HeldIs
<1>2. I # {} /\ I \in SUBSET Nat
  BY <1>1 DEF HasId
<1>3. Find(r, id) = Min(I)
  BY <1>2 DEF Find, SelectInSeq
<1>4. Min(I) \in I
  <2> HIDE DEF I
  <2> QED
    BY <1>2, MinIs
<1> QED
  BY <1>3, <1>4

LEMMA ApplyPortOk ==
    ASSUME NEW a, NEW r, Held(a, r), NEW config, PortChangesOk(config.changes)
    PROVE  OutcomeOk(a, ApplyPort(r, config))
<1> DEFINE here    == HasId(r, config.id)
           deleted == IF config.virtual /\ here THEN api_delete_port(r, Find(r, config.id)) ELSE Done(r)
           posted  == IF config.virtual THEN api_post_ports(deleted.ram, config) ELSE deleted
           patched == IF HasId(posted.ram, config.id)
                      THEN api_patch_port(posted.ram, Find(posted.ram, config.id), config.changes) ELSE posted
           applied == [patched EXCEPT !.ok = deleted.ok /\ posted.ok /\ patched.ok]
<1>1. ApplyPort(r, config) = IF config.id = NoString THEN Done(r) ELSE applied
  BY DEF ApplyPort
<1>2. OutcomeOk(a, deleted)
  BY FoundIs, DeleteOk, Outcomes
<1> HIDE DEF deleted
<1>3. OutcomeOk(a, posted)
  BY <1>2, PostOk DEF OutcomeOk
<1> HIDE DEF posted
<1>4. OutcomeOk(a, patched)
  BY <1>3, FoundIs, PatchOk DEF OutcomeOk
<1> HIDE DEF patched
<1>5. OutcomeOk(a, applied)
  <2>1. DOMAIN applied = {"ram", "ok"} /\ applied.ram = patched.ram
    BY <1>4 DEF OutcomeOk
  <2> QED
    BY <1>4, <2>1 DEF OutcomeOk
<1> QED
  BY <1>1, <1>5, Outcomes

ApplyStep(a, outcome, config) == IF outcome.ok THEN ApplyPort(outcome.ram, config) ELSE outcome

Apply == INSTANCE FoldInduction WITH Step <- ApplyStep, Good <- OutcomeGood

LEMMA ApplyPortsOk ==
    ASSUME NEW a, NEW r, Held(a, r), NEW configs, PortConfigsOk(configs)
    PROVE  OutcomeOk(a, ApplyPorts(r, configs))
<1> DEFINE applied == Apply!Fold(a, Done(r), configs)
<1>1. ApplyPorts(r, configs) = applied
  BY DEF ApplyPorts, InTurn, Apply!Fold, ApplyStep, FoldLeft, MapThenFoldSet, Max,
         Apply!MapThenFoldSet, Apply!Largest
<1>2. /\ Len(configs) \in Nat /\ DOMAIN configs = 1..Len(configs)
      /\ \A k \in 1..Len(configs) : PortChangesOk(configs[k].changes)
  BY SeqIs DEF PortConfigsOk
<1>3. OutcomeGood(a, 0, Done(r))
  BY Outcomes DEF OutcomeGood
<1>4. ASSUME NEW k \in 0..(Len(configs) - 1), NEW o, OutcomeGood(a, k, o)
      PROVE  OutcomeGood(a, k + 1, ApplyStep(a, o, configs[k + 1]))
  <2>1. PortChangesOk(configs[k + 1].changes)
    BY <1>2
  <2> QED
    BY <1>4, <2>1, ApplyPortOk DEF OutcomeGood, OutcomeOk, ApplyStep
<1>5. OutcomeGood(a, Len(configs), applied)
  BY <1>2, <1>3, <1>4, Apply!FoldKeeps
<1> QED
  BY <1>1, <1>5 DEF OutcomeGood

\* The ports of peripherals are those that these make, in order and each in the
\* slot that the ones before it leave it, whatever became of them otherwise.
AsMade(r) == \E made, c : Made(r, made) /\ Laid(c, r.peripherals, made)

OutcomeMade(outcome) == DOMAIN outcome = {"ram", "ok"} /\ AsMade(outcome.ram)

LEMMA AsMadeIs ==
    ASSUME NEW r, AsMade(r)
    PROVE  \E a, c : Held(a, r) /\ Laid(c, a.peripherals, a.made)
<1>1. PICK made, c : Made(r, made) /\ Laid(c, r.peripherals, made)
  BY DEF AsMade
<1> DEFINE a == [peripherals |-> r.peripherals, made |-> made]
<1>2. a.peripherals = r.peripherals /\ a.made = made
  OBVIOUS
<1> HIDE DEF a
<1>3. Held(a, r) /\ Laid(c, a.peripherals, a.made)
  BY <1>1, <1>2 DEF Held
<1> QED
  BY <1>3

LEMMA HeldAsMade ==
    ASSUME NEW a, NEW r, Held(a, r), NEW c, Laid(c, a.peripherals, a.made)
    PROVE  AsMade(r)
  BY DEF Held, AsMade

\* What is held is as it was made.
LEMMA StillAsMade ==
    ASSUME NEW r, AsMade(r), NEW s, \A a : Held(a, r) => Held(a, s)
    PROVE  AsMade(s)
<1>1. PICK a, c : Held(a, r) /\ Laid(c, a.peripherals, a.made)
  BY AsMadeIs
<1> QED
  BY <1>1, HeldAsMade

LEMMA OutcomeAsMade ==
    ASSUME NEW r, AsMade(r), NEW outcome, \A a : Held(a, r) => OutcomeOk(a, outcome)
    PROVE  OutcomeMade(outcome)
<1>1. PICK a, c : Held(a, r) /\ Laid(c, a.peripherals, a.made)
  BY AsMadeIs
<1>2. OutcomeOk(a, outcome)
  BY <1>1
<1> QED
  BY <1>1, <1>2, HeldAsMade DEF OutcomeOk, OutcomeMade

LEMMA PortsTaken ==
    ASSUME NEW r, RamOk(r), NEW removed \in SUBSET Range(r.ports)
    PROVE  LET s == RemovePorts(r, removed)
           IN  /\ RamOk(s) /\ s.peripherals = r.peripherals
               /\ Range(s.ports) = Range(r.ports) \ removed
<1> DEFINE left == Those(LAMBDA p : p \notin removed, r.ports)
           s    == RemovePorts(r, removed)
<1>1. s = [r EXCEPT !.ports = left, !.used_slots = @ \ {p.slot : p \in removed}]
  BY DEF RemovePorts
<1>2. PortsOk(left) /\ Range(left) = Range(r.ports) \ removed
      /\ SlotsIn(left) = SlotsIn(r.ports) \ {p.slot : p \in removed \cap Range(r.ports)}
  BY PortsLeft DEF RamOk
<1>3. removed \cap Range(r.ports) = removed
  OBVIOUS
<1> HIDE DEF left, s
<1>4. /\ DOMAIN s = RamFields /\ s.ports = left /\ s.peripherals = r.peripherals /\ s.device = r.device
      /\ s.used_slots = r.used_slots \ {p.slot : p \in removed}
  BY <1>1 DEF RamOk, RamFields
<1> QED
  BY <1>2, <1>3, <1>4 DEF RamOk, s

\* The peripherals of a list, one after another.
CreateStep(a, outcome, p) == IF outcome.ok THEN CreatePeripheral(outcome.ram, p) ELSE outcome

CreateGood(a, k, outcome) == OutcomeMade(outcome) /\ Len(outcome.ram.peripherals) <= k

Create == INSTANCE FoldInduction WITH Step <- CreateStep, Good <- CreateGood

LEMMA CreateOk ==
    ASSUME NEW r, AsMade(r), NEW k \in Nat, Len(r.peripherals) <= k, k < PeripheralMax,
           NEW p, p.valid => p.type \in DOMAIN PortsOf /\ [type |-> p.type, params |-> p.params] # NoPart
    PROVE  CreateGood({}, k + 1, CreatePeripheral(r, p))
<1>0. PICK made, c : Made(r, made) /\ Laid(c, r.peripherals, made)
  BY DEF AsMade
<1>1. IsSeq(r.peripherals) /\ Len(r.peripherals) \in Nat
  BY <1>0, SeqIs DEF Made, RamOk, PeripheralsOk
<1>2. CASE ~p.valid
  <2>1. CreatePeripheral(r, p) = Refused(r)
    BY <1>2 DEF CreatePeripheral
  <2>2. DOMAIN Refused(r) = {"ram", "ok"} /\ Refused(r).ram = r
    BY DEF Refused
  <2>3. Len(r.peripherals) <= k + 1
    BY <1>1
  <2> QED
    BY <2>1, <2>2, <2>3 DEF CreateGood, OutcomeMade
<1>3. CASE p.valid
  <2> DEFINE peripheral == [type |-> p.type, params |-> p.params]
             n == Len(r.peripherals) + 1
             t == peripheral_make_ports(peripheral_register(r, peripheral), n, p.type, p.ids)
  <2>1. PeripheralOk(peripheral) /\ peripheral.type = p.type
    BY <1>3 DEF PeripheralOk
  <2>2. CreatePeripheral(r, p) = Done(t)
    BY <1>3 DEF CreatePeripheral
  <2>3. PeripheralMax \in Nat
    BY StorageAssumption
  <2> HIDE DEF peripheral
  <2>4. Len(r.peripherals) < PeripheralMax
    BY <1>1, <2>3
  <2>5. /\ t.peripherals = Append(r.peripherals, peripheral)
        /\ \E more, d : Made(t, more) /\ Laid(d, t.peripherals, more)
    <3> DEFINE u == peripheral_make_ports(peripheral_register(r, peripheral), Len(r.peripherals) + 1,
                                          peripheral.type, p.ids)
    <3>1. /\ u.peripherals = Append(r.peripherals, peripheral) /\ u.device = r.device
          /\ u.used_slots \cap VirtualSlots = r.used_slots \cap VirtualSlots
          /\ \E more, d : /\ Made(u, more) /\ Laid(d, u.peripherals, more)
                          /\ AllNew(r.ports, made) => AllNew(u.ports, more)
      BY <1>0, <2>1, <2>4, PeripheralMade
    <3>2. u = t
      BY <2>1
    <3> HIDE DEF u, t
    <3>3. PICK more, d : Made(u, more) /\ Laid(d, u.peripherals, more)
      BY <3>1
    <3>4. Made(t, more) /\ Laid(d, t.peripherals, more)
      BY <3>2, <3>3
    <3> QED
      BY <3>1, <3>2, <3>4
  <2>6. AsMade(t)
    BY <2>5 DEF AsMade
  <2>7. Len(t.peripherals) = Len(r.peripherals) + 1
    BY <1>1, <2>5, AppendIsSeq
  <2> HIDE DEF t
  <2>8. DOMAIN Done(t) = {"ram", "ok"} /\ Done(t).ram = t
    BY DEF Done
  <2>9. Len(t.peripherals) <= k + 1
    BY <1>1, <2>7
  <2> QED
    BY <2>2, <2>6, <2>8, <2>9 DEF CreateGood, OutcomeMade
<1> QED
  BY <1>2, <1>3

\* With the ports of peripherals removed, and these forgotten, there is nothing of them left.
LEMMA PeripheralsCleared ==
    ASSUME NEW r, RamOk(r)
    PROVE  LET s == [RemovePorts(r, {p \in Range(r.ports) : ~IsVirtual(p)}) EXCEPT !.peripherals = <<>>]
           IN  AsMade(s) /\ Len(s.peripherals) = 0
<1> DEFINE cleared == RemovePorts(r, {p \in Range(r.ports) : ~IsVirtual(p)})
           s       == [cleared EXCEPT !.peripherals = <<>>]
<1>1. /\ RamOk(cleared)
      /\ Range(cleared.ports) = Range(r.ports) \ {p \in Range(r.ports) : ~IsVirtual(p)}
  BY PortsTaken
<1> HIDE DEF cleared
<1>2. /\ DOMAIN s = RamFields /\ s.ports = cleared.ports /\ s.used_slots = cleared.used_slots
      /\ s.peripherals = <<>> /\ s.device = cleared.device
  BY <1>1 DEF RamOk, RamFields
<1>3. PeripheralsOk(<<>>)
  BY EmptyIsSeq, StorageAssumption DEF PeripheralsOk
<1> HIDE DEF s
<1>4. RamOk(s)
  BY <1>1, <1>2, <1>3 DEF RamOk
<1>5. IsSeq(s.ports) /\ Range(s.ports) = {s.ports[i] : i \in 1..Len(s.ports)}
  BY <1>4, SeqIs DEF RamOk, PortsOk
<1>6. \A i \in 1..Len(s.ports) : IsVirtual(s.ports[i])
  BY <1>1, <1>2, <1>5
<1>7. Made(s, <<>>)
  BY <1>4, <1>6, NothingPlaced, EmptyIsSeq DEF Made
<1>8. AsMade(s)
  BY <1>2, <1>7, NothingLaid DEF AsMade
<1> QED
  BY <1>2, <1>8, EmptyIsSeq DEF s, cleared

LEMMA PutPeripheralsOk ==
    ASSUME NEW r, AsMade(r), NEW list, PeripheralListOk(list)
    PROVE  OutcomeMade(api_put_peripherals(r, list))
<1> DEFINE removed == [RemovePorts(r, {p \in Range(r.ports) : ~IsVirtual(p)}) EXCEPT !.peripherals = <<>>]
           created == Create!Fold({}, Done(removed), list)
           n       == Len(list)
<1>1. api_put_peripherals(r, list) = IF n > PeripheralMax THEN Refused(r)
                                     ELSE IF created.ok THEN Marked(Unprovisioned(created.ram)) ELSE created
  BY DEF api_put_peripherals, InTurn, Create!Fold, CreateStep, FoldLeft, MapThenFoldSet, Max,
         Create!MapThenFoldSet, Create!Largest
<1>2. CASE n > PeripheralMax
  BY <1>1, <1>2 DEF Refused, OutcomeMade
<1>3. CASE ~(n > PeripheralMax)
  <2>1. AsMade(removed) /\ Len(removed.peripherals) = 0
    BY PeripheralsCleared DEF AsMade, Made
  <2> HIDE DEF removed
  <2>2. /\ n \in Nat /\ DOMAIN list = 1..n
        /\ \A k \in 1..n : list[k].valid => /\ list[k].type \in DOMAIN PortsOf
                                            /\ [type |-> list[k].type, params |-> list[k].params] # NoPart
    BY SeqIs DEF PeripheralListOk
  <2>3. CreateGood({}, 0, Done(removed))
    BY <2>1 DEF CreateGood, OutcomeMade, Done
  <2>4. PeripheralMax \in Nat
    BY StorageAssumption
  <2>5. ASSUME NEW k \in 0..(n - 1), NEW o, CreateGood({}, k, o)
        PROVE  CreateGood({}, k + 1, CreateStep({}, o, list[k + 1]))
    <3> DEFINE p == list[k + 1]
    <3>1. p.valid => p.type \in DOMAIN PortsOf /\ [type |-> p.type, params |-> p.params] # NoPart
      BY <2>2
    <3>2. k \in Nat /\ k < PeripheralMax
      BY <1>3, <2>2, <2>4
    <3> HIDE DEF p
    <3>3. AsMade(o.ram) /\ Len(o.ram.peripherals) <= k
      BY <2>5 DEF CreateGood, OutcomeMade
    <3>4. CASE o.ok
      BY <3>1, <3>2, <3>3, <3>4, CreateOk DEF CreateStep, p
    <3>5. CASE ~o.ok
      <4>1. Len(o.ram.peripherals) \in Nat
        BY <3>3, SeqIs DEF AsMade, Made, RamOk, PeripheralsOk
      <4>2. Len(o.ram.peripherals) <= k + 1
        BY <3>2, <3>3, <4>1
      <4> QED
        BY <2>5, <3>5, <4>2 DEF CreateGood, CreateStep
    <3> QED
      BY <3>4, <3>5
  <2>6. CreateGood({}, n, created)
    BY <2>2, <2>3, <2>5, Create!FoldKeeps
  <2> HIDE DEF created
  <2>7. AsMade(created.ram) /\ OutcomeMade(created)
    BY <2>6 DEF CreateGood, OutcomeMade
  <2>8. OutcomeMade(Marked(Unprovisioned(created.ram)))
    BY <2>7, ConfigNameOk, Outcomes, OutcomeAsMade
  <2> QED
    BY <1>1, <1>3, <2>7, <2>8
<1> QED
  BY <1>2, <1>3

\* The ids that PUT /ports keeps for a peripheral are those of the ports it made.
LEMMA IdsAre ==
    ASSUME NEW a, NEW r, Held(a, r), NEW c, Laid(c, a.peripherals, a.made),
           NEW i \in 1..Len(a.peripherals), NEW p \in Nat, c[i - 1] = p, NEW q \in Nat, c[i] = q
    PROVE  LET ids == PortIds(r, i)
           IN  Len(ids) = q - p /\ \A j \in 1..(q - p) : ids[j] = a.made[p + j].id
<1> DEFINE n   == q - p
           seq == r.ports
           own == OwnedPorts(seq, i)
           ids == PortIds(r, i)
<1>1. IsSeq(seq) /\ PortsOk(seq) /\ IsSeq(a.peripherals) /\ IsSeq(a.made)
  BY DEF Held, Made, RamOk, PortsOk, PeripheralsOk
<1>2. PICK f : Placed(f, seq, a.made)
  BY DEF Held, Made, Matches
<1>3. Len(a.peripherals) \in Nat /\ Len(a.made) \in Nat /\ Len(seq) \in Nat
  BY <1>1, SeqIs
<1>4. i \in Nat \ {0}
  BY <1>3
<1>5. LaidGroup(c, i, a.peripherals[i].type, a.made) /\ q <= Len(a.made)
  <2>1. i \in 0..Len(a.peripherals)
    BY <1>3
  <2> QED
    BY <2>1 DEF Laid
<1>6. n \in Nat
  BY <1>5 DEF LaidGroup
<1>7. ASSUME NEW x \in 1..n PROVE p + x \in 1..Len(a.made) /\ a.made[p + x].peripheral = i
  <2>1. p + x \in 1..Len(a.made)
    BY <1>3, <1>5
  <2>2. \A j \in 1..(c[i] - c[i - 1]) :
            a.made[c[i - 1] + j].peripheral
            = MadePort(Before(a.made, c[i - 1] + j - 1), PortsOf[a.peripherals[i].type][j], i,
                       a.made[c[i - 1] + j].id).peripheral
    BY <1>5 DEF LaidGroup
  <2>3. \A b, t, id : MadePort(b, t, i, id).peripheral = i
    BY DEF MadePort
  <2>4. \A j \in 1..(c[i] - c[i - 1]) : a.made[c[i - 1] + j].peripheral = i
    BY <2>2, <2>3
  <2>5. c[i] - c[i - 1] = n /\ c[i - 1] + x = p + x
    OBVIOUS
  <2> QED
    BY <2>1, <2>4, <2>5
<1> DEFINE g == [x \in 1..n |-> f[p + x]]
<1>8. ASSUME NEW x \in 1..n PROVE g[x] \in 1..Len(seq) /\ seq[g[x]].peripheral = i
                                  /\ seq[g[x]].id = a.made[p + x].id /\ g[x] = f[p + x]
  <2>1. g[x] = f[p + x]
    OBVIOUS
  <2>2. f[p + x] \in 1..Len(seq) /\ Alike(seq[f[p + x]], a.made[p + x])
    BY <1>2, <1>7 DEF Placed
  <2> QED
    BY <1>7, <2>1, <2>2 DEF Alike
<1> HIDE DEF g
<1>9. ASSUME NEW x \in 1..n, NEW y \in 1..n, x < y PROVE g[x] < g[y]
  <2>1. p + x < p + y
    BY <1>6, <1>9
  <2>2. f[p + x] < f[p + y]
    BY <1>2, <1>7, <2>1 DEF Placed
  <2> QED
    BY <1>8, <2>2
<1>10. ASSUME NEW j \in 1..Len(seq), seq[j].peripheral = i PROVE \E x \in 1..n : g[x] = j
  <2>1. ~IsVirtual(seq[j])
    BY <1>1, <1>4, <1>10 DEF PortsOk, PortOk, BarePortOk
  <2>2. PICK m \in 1..Len(a.made) : f[m] = j
    BY <1>2, <2>1 DEF Placed
  <2>3. a.made[m].peripheral = i
    BY <1>2, <1>10, <2>2 DEF Placed, Alike
  <2>4. p < m /\ m <= q /\ m \in Nat
    BY <1>3, <2>3 DEF Laid
  <2>5. m - p \in 1..n /\ p + (m - p) = m
    BY <2>4
  <2>6. g[m - p] = f[p + (m - p)]
    BY <1>8, <2>5
  <2> QED
    BY <2>2, <2>5, <2>6
<1> HIDE DEF n
<1>11. IsSeq(own) /\ Len(own) = n /\ \A x \in 1..n : own[x] = seq[g[x]]
  <2>1. \A x \in 1..n : g[x] \in 1..Len(seq) /\ seq[g[x]].peripheral = i
    BY <1>8
  <2>2. \A x, y \in 1..n : x < y => g[x] < g[y]
    BY <1>9
  <2>3. \A j \in 1..Len(seq) : seq[j].peripheral = i => \E x \in 1..n : g[x] = j
    BY <1>10
  <2> QED
    <3>1. Enumerates(g, n, seq, i)
      BY <1>6, <2>1, <2>2, <2>3 DEF Enumerates
    <3> QED
      BY <1>1, <3>1, OwnedAre
<1>12. ids = [x \in DOMAIN own |-> own[x].id]
  BY DEF PortIds, OwnedPorts
<1> HIDE DEF own, ids
<1>13. DOMAIN own = 1..n
  BY <1>11, SeqIs
<1>14. Len(ids) = n
  <2>1. ids = [x \in 1..n |-> ids[x]]
    BY <1>12, <1>13
  <2> QED
    BY <1>6, <2>1, FunctionIsSeq
<1>15. ASSUME NEW x \in 1..n PROVE ids[x] = a.made[p + x].id
  BY <1>8, <1>11, <1>12, <1>13
<1> QED
  BY <1>14, <1>15 DEF n, ids

LEMMA GroupLaid ==
    ASSUME NEW d, NEW i, NEW type, NEW more, NEW p \in Nat, NEW n \in Nat, d[i - 1] = p, d[i] = p + n,
           n \in 0..Len(PortsOf[type]), n < Len(PortsOf[type]) => FreeSlots(Before(more, p + n)) = {},
           \A j \in 1..n : /\ FreeSlots(Before(more, p + j - 1)) # {}
                          /\ more[p + j] = MadePort(Before(more, p + j - 1), PortsOf[type][j], i, more[p + j].id)
    PROVE  LaidGroup(d, i, type, more)
<1>1. d[i] - d[i - 1] = n
  OBVIOUS
<1>2. ASSUME NEW j \in 1..(d[i] - d[i - 1])
      PROVE  LET m == d[i - 1] + j
             IN  /\ FreeSlots(Before(more, m - 1)) # {}
                 /\ more[m] = MadePort(Before(more, m - 1), PortsOf[type][j], i, more[m].id)
  <2>1. j \in 1..n
    BY <1>1
  <2>2. d[i - 1] + j = p + j /\ (d[i - 1] + j) - 1 = p + j - 1
    BY <2>1
  <2> QED
    BY <2>1, <2>2
<1> QED
  BY <1>1, <1>2 DEF LaidGroup

\* The ports of a peripheral, when those before it are as they were.
Kept(made, now, c, i, p, q, ids) ==
    /\ p \in Nat /\ c[i - 1] = p /\ q \in Nat /\ c[i] = q /\ i # i - 1
    /\ Len(now) = p /\ \A x \in 1..p : now[x] = made[x]
    /\ Len(ids) = q - p /\ \A j \in 1..(q - p) : ids[j] = made[p + j].id

LEMMA GroupRemade ==
    ASSUME NEW made, IsSeq(made), NEW now, IsSeq(now), NEW c, NEW i, NEW type \in DOMAIN PortsOf,
           LaidGroup(c, i, type, made), NEW p, NEW q, NEW ids, Kept(made, now, c, i, p, q, ids),
           NEW more, NEW n, Grown(more, n, Len(PortsOf[type]), now, i, type, ids)
    PROVE  Len(more) = q /\ \A x \in 1..q : more[x] = made[x]
<1> USE DEF Kept
<1> DEFINE d == [y \in {i - 1, i} |-> IF y = i THEN p + n ELSE p]
           k == Len(PortsOf[type])
<1>1. d[i - 1] = p /\ d[i] = p + n
  OBVIOUS
<1> HIDE DEF d
<1>2. k \in Nat
  BY TypeIs
<1>3. n \in Nat /\ n \in 0..k /\ Len(more) = p + n /\ \A x \in 1..p : more[x] = made[x]
  BY <1>2 DEF Grown
<1>4. ASSUME NEW j \in 1..n
      PROVE  LET before == Before(more, p + j - 1)
             IN  /\ FreeSlots(before) # {}
                 /\ more[p + j] = MadePort(before, PortsOf[type][j], i, Id(ids, j))
                 /\ more[p + j] = MadePort(before, PortsOf[type][j], i, more[p + j].id)
  <2>1. /\ FreeSlots(Before(more, p + j - 1)) # {}
        /\ more[p + j] = MadePort(Before(more, p + j - 1), PortsOf[type][j], i, Id(ids, j))
    BY DEF Grown
  <2> QED
    BY <2>1, MadeAgain
<1>5. LaidGroup(d, i, type, more)
  <2>1. n < k => FreeSlots(Before(more, p + n)) = {}
    BY <1>3 DEF Grown
  <2>2. \A j \in 1..n : /\ FreeSlots(Before(more, p + j - 1)) # {}
                        /\ more[p + j] = MadePort(Before(more, p + j - 1), PortsOf[type][j], i, more[p + j].id)
    BY <1>4
  <2> QED
    BY <1>1, <1>3, <2>1, <2>2, GroupLaid
<1>6. \A x \in 1..p : Same(more[x], made[x])
  BY <1>3 DEF Same
<1>7. d[i] \in Nat
  BY <1>1, <1>3
<1>8. d[i] = q /\ \A x \in 1..q : Same(more[x], made[x])
  BY <1>1, <1>2, <1>5, <1>6, <1>7, SameGroup
<1>9. n = q - p /\ Len(more) = q
  BY <1>1, <1>3, <1>8
<1>10. ASSUME NEW j \in 1..n PROVE more[p + j] = made[p + j]
  <2>1. Id(ids, j) = made[p + j].id
    BY <1>3, <1>9 DEF Id
  <2> DEFINE before == Before(more, p + j - 1)
             after  == Before(made, p + j - 1)
             m      == made[p + j]
  <2>2. more[p + j] = MadePort(before, PortsOf[type][j], i, m.id)
    BY <1>4, <2>1
  <2>3. m = MadePort(after, PortsOf[type][j], i, m.id)
    BY <1>9 DEF LaidGroup
  <2>4. p + j \in 1..q
    BY <1>3, <1>9
  <2>5. more[p + j].slot = m.slot
    BY <1>8, <2>4 DEF Same
  <2> HIDE DEF before, after, m
  <2> QED
    BY <2>2, <2>3, <2>5 DEF MadePort, m
<1>11. ASSUME NEW x \in 1..q PROVE more[x] = made[x]
  <2>1. CASE x <= p
    BY <1>3, <2>1
  <2>2. CASE x > p
    <3>1. x - p \in 1..n /\ p + (x - p) = x
      BY <1>3, <1>9, <2>2
    <3> QED
      BY <1>10, <3>1
  <2> QED
    BY <2>1, <2>2
<1> QED
  BY <1>9, <1>11

\* The ports of peripherals, made again with the ids they had.
RecreateStep(b, s, i) == peripheral_make_ports(s, i, b.r.peripherals[i].type, PortIds(b.r, i))

\* The ports of the first k of them are there, as they were, and no others.
RecreateGood(b, k, s) ==
    /\ s.peripherals = b.a.peripherals
    /\ \E now : /\ Made(s, now) /\ Len(now) = b.c[k]
                /\ \A x \in 1..b.c[k] : now[x] = b.a.made[x]

Recreate == INSTANCE FoldInduction WITH Step <- RecreateStep, Good <- RecreateGood

LEMMA PeripheralRemade ==
    ASSUME NEW b, Held(b.a, b.r), Laid(b.c, b.a.peripherals, b.a.made),
           NEW k \in 0..(Len(b.a.peripherals) - 1), NEW s, RecreateGood(b, k, s), NEW i, i = k + 1
    PROVE  RecreateGood(b, i, RecreateStep(b, s, i))
<1> DEFINE a    == b.a
           r    == b.r
           c    == b.c
           n    == Len(a.peripherals)
           type == r.peripherals[i].type
           ids  == PortIds(r, i)
           t    == RecreateStep(b, s, i)
           p    == c[k]
           q    == c[i]
<1>1. PICK now : /\ Made(s, now) /\ Len(now) = p /\ \A x \in 1..p : now[x] = a.made[x]
  BY DEF RecreateGood
<1>2. /\ IsSeq(a.peripherals) /\ n \in Nat /\ IsSeq(a.made) /\ r.peripherals = a.peripherals
      /\ Held(a, r) /\ Laid(c, a.peripherals, a.made)
  BY SeqIs DEF Held, Made, RamOk, PeripheralsOk
<1>3. i \in 1..n /\ i \in Nat \ {0} /\ i - 1 = k /\ i # i - 1 /\ k \in 0..n /\ i \in 0..n
  BY <1>2
<1>4. type \in DOMAIN PortsOf /\ type = a.peripherals[i].type
  BY <1>2, <1>3 DEF Held, Made, RamOk, PeripheralsOk, PeripheralOk
<1>5. p \in Nat /\ q \in Nat /\ c[i - 1] = p /\ c[i] = q
  BY <1>3 DEF Laid
<1>6. LaidGroup(c, i, type, a.made)
  BY <1>3, <1>4 DEF Laid
<1>7. t = peripheral_make_ports(s, i, type, ids) /\ s.peripherals = a.peripherals
  BY DEF RecreateStep, RecreateGood
<1> HIDE DEF a, r, c, type, t, p, q
<1>8. Len(ids) = q - p /\ \A j \in 1..(q - p) : ids[j] = a.made[p + j].id
  BY <1>2, <1>3, <1>5, IdsAre
<1> HIDE DEF ids
<1>9. /\ t.peripherals = s.peripherals
      /\ \E more, m : /\ Made(t, more) /\ Grown(more, m, Len(PortsOf[type]), now, i, type, ids)
                      /\ AllNew(s.ports, now) => AllNew(t.ports, more)
  BY <1>1, <1>3, <1>4, <1>7, PortsMade
<1>10. PICK more, m : Made(t, more) /\ Grown(more, m, Len(PortsOf[type]), now, i, type, ids)
  BY <1>9
<1>11. IsSeq(now)
  BY <1>1 DEF Made
<1>12. Len(more) = q /\ \A x \in 1..q : more[x] = a.made[x]
  <2>1. Kept(a.made, now, c, i, p, q, ids)
    BY <1>1, <1>3, <1>5, <1>8 DEF Kept
  <2> QED
    BY <1>2, <1>4, <1>6, <1>10, <1>11, <2>1, GroupRemade
<1> QED
  BY <1>7, <1>9, <1>10, <1>12 DEF RecreateGood, t, q, c, a

LEMMA RecreatedSame ==
    ASSUME NEW b, Held(b.a, b.r), Laid(b.c, b.a.peripherals, b.a.made)
    PROVE  Held(b.a, Recreated(b.r))
<1> DEFINE r       == b.r
           cleared == RemovePorts(r, Range(r.ports))
           seq     == [i \in DOMAIN r.peripherals |-> i]
           n       == Len(r.peripherals)
           fold    == Recreate!Fold(b, cleared, seq)
<1>1. Recreated(r) = fold
  BY DEF Recreated, Recreate!Fold, RecreateStep, FoldLeftDomain, FoldLeft, MapThenFoldSet, Max,
         Recreate!MapThenFoldSet, Recreate!Largest
<1>2. /\ n \in Nat /\ DOMAIN r.peripherals = 1..n /\ r.peripherals = b.a.peripherals
      /\ IsSeq(b.a.made) /\ RamOk(r)
  BY SeqIs DEF Held, Made, RamOk, PeripheralsOk
<1>3. DOMAIN seq = 1..n /\ \A k \in 0..(n - 1) : seq[k + 1] = k + 1
  BY <1>2
<1> HIDE DEF seq
<1>4. RecreateGood(b, 0, cleared)
  <2>1. RamOk(cleared) /\ cleared.peripherals = r.peripherals
        /\ Range(cleared.ports) = Range(r.ports) \ Range(r.ports)
    BY <1>2, PortsTaken
  <2> HIDE DEF cleared
  <2>2. IsSeq(cleared.ports) /\ Range(cleared.ports) = {cleared.ports[i] : i \in 1..Len(cleared.ports)}
    BY <2>1, SeqIs DEF RamOk, PortsOk
  <2>3. \A i \in 1..Len(cleared.ports) : IsVirtual(cleared.ports[i])
    BY <2>1, <2>2
  <2>4. Made(cleared, <<>>)
    BY <2>1, <2>3, NothingPlaced, EmptyIsSeq DEF Made
  <2>5. Len(<<>>) = b.c[0] /\ \A x \in 1..b.c[0] : FALSE
    BY EmptyIsSeq DEF Laid
  <2> QED
    BY <1>2, <2>1, <2>4, <2>5 DEF RecreateGood
<1> HIDE DEF cleared
<1>5. ASSUME NEW k \in 0..(n - 1), NEW s, RecreateGood(b, k, s)
      PROVE  RecreateGood(b, k + 1, RecreateStep(b, s, seq[k + 1]))
  BY <1>2, <1>3, <1>5, PeripheralRemade
<1>6. RecreateGood(b, n, fold)
  BY <1>2, <1>3, <1>4, <1>5, Recreate!FoldKeeps
<1> HIDE DEF fold
<1>7. PICK now : Made(fold, now) /\ Len(now) = b.c[n] /\ \A x \in 1..b.c[n] : now[x] = b.a.made[x]
  BY <1>6 DEF RecreateGood
<1>8. b.c[n] = Len(b.a.made)
  BY <1>2 DEF Laid
<1>9. now = b.a.made
  <2>1. IsSeq(now)
    BY <1>7 DEF Made
  <2>2. /\ now = [x \in 1..Len(now) |-> now[x]]
        /\ b.a.made = [x \in 1..Len(b.a.made) |-> b.a.made[x]]
    BY <1>2, <2>1, SeqIs
  <2> QED
    BY <1>7, <1>8, <2>2
<1>10. fold.peripherals = b.a.peripherals
  BY <1>6 DEF RecreateGood
<1> QED
  BY <1>1, <1>7, <1>9, <1>10 DEF Held

LEMMA RecreatedOk ==
    ASSUME NEW a, NEW r, Held(a, r), NEW c, Laid(c, a.peripherals, a.made)
    PROVE  Held(a, Recreated(r))
<1> DEFINE b == [a |-> a, r |-> r, c |-> c]
<1>1. b.a = a /\ b.r = r /\ b.c = c
  OBVIOUS
<1> HIDE DEF b
<1> QED
  BY <1>1, RecreatedSame

LEMMA PutPortsOk ==
    ASSUME NEW a, NEW r, Held(a, r), NEW c, Laid(c, a.peripherals, a.made), NEW configs, PortConfigsOk(configs)
    PROVE  OutcomeOk(a, api_put_ports(r, configs))
<1> DEFINE applied == ApplyPorts(Recreated(r), configs)
<1>1. OutcomeOk(a, applied)
  BY RecreatedOk, ApplyPortsOk
<1>2. api_put_ports(r, configs) = IF applied.ok THEN Marked(applied.ram) ELSE applied
  BY DEF api_put_ports
<1> HIDE DEF applied
<1> QED
  BY <1>1, <1>2, Outcomes DEF OutcomeOk

-----------------------------------------------------------------------------
(***************************************************************************)
(* Provisioning.                                                           *)
(***************************************************************************)
KeepStep(r, kept, c) ==
    IF c[1] # "name" /\ (c[1] = "display_name" => r.device.display_name = "") THEN Append(kept, c) ELSE kept

KeepGood(r, k, kept) == DeviceChangesOk(kept)

Keep == INSTANCE FoldInduction WITH Step <- KeepStep, Good <- KeepGood

LEMMA ProvisionDeviceOk ==
    ASSUME NEW a, NEW r, Held(a, r), NEW edits, DeviceChangesOk(edits)
    PROVE  OutcomeOk(a, ProvisionDevice(r, edits))
<1> DEFINE kept == Keep!Fold(r, <<>>, edits)
<1>1. ProvisionDevice(r, edits) = api_patch_device(r, kept)
  BY DEF ProvisionDevice, Those, Keep!Fold, KeepStep, FoldLeft, MapThenFoldSet, Max,
         Keep!MapThenFoldSet, Keep!Largest
<1>2. /\ Len(edits) \in Nat /\ DOMAIN edits = 1..Len(edits)
      /\ Range(edits) = {edits[k] : k \in 1..Len(edits)}
  BY SeqIs DEF DeviceChangesOk
<1>3. KeepGood(r, 0, <<>>)
  BY EmptyIsSeq, SeqIs DEF KeepGood, DeviceChangesOk
<1>4. ASSUME NEW k \in 0..(Len(edits) - 1), NEW s, KeepGood(r, k, s)
      PROVE  KeepGood(r, k + 1, KeepStep(r, s, edits[k + 1]))
  <2> DEFINE c == edits[k + 1]
             t == Append(s, c)
  <2>1. c \in Range(edits)
    BY <1>2
  <2>2. IsSeq(t) /\ Range(t) = Range(s) \cup {c}
    BY <1>4, AppendIsSeq DEF KeepGood, DeviceChangesOk
  <2> HIDE DEF c
  <2>3. DeviceChangesOk(t)
    <3> HIDE DEF t
    <3> QED
      BY <1>4, <2>1, <2>2 DEF KeepGood, DeviceChangesOk
  <2>4. KeepStep(r, s, c) \in {s, t}
    BY DEF KeepStep
  <2> QED
    BY <1>4, <2>3, <2>4 DEF KeepGood, c
<1>5. KeepGood(r, Len(edits), kept)
  BY <1>2, <1>3, <1>4, Keep!FoldKeeps
<1> HIDE DEF kept
<1> QED
  BY <1>1, <1>5, PatchDeviceOk DEF KeepGood

LEMMA ProvisionPartOk ==
    ASSUME NEW r, AsMade(r), NEW config, ProvisioningOk(config),
           NEW part \in {"device", "peripherals", "system", "ports"}
    PROVE  OutcomeMade(ProvisionPart(r, config, part))
<1>1. CASE config[part] = NoPart
  <2>1. ProvisionPart(r, config, part) = Done(r)
    BY <1>1 DEF ProvisionPart
  <2> QED
    BY <2>1, Outcomes, OutcomeAsMade
<1>2. CASE config[part] # NoPart /\ part = "device"
  <2>1. ProvisionPart(r, config, part) = ProvisionDevice(r, config.device) /\ DeviceChangesOk(config.device)
    BY <1>2 DEF ProvisionPart, ProvisioningOk
  <2> QED
    BY <2>1, ProvisionDeviceOk, OutcomeAsMade
<1>3. CASE config[part] # NoPart /\ part = "peripherals"
  BY <1>3, PutPeripheralsOk DEF ProvisionPart, ProvisioningOk
<1>4. CASE config[part] # NoPart /\ part = "system"
  <2>1. ProvisionPart(r, config, part) = api_patch_system(r, config.system)
    BY <1>4 DEF ProvisionPart
  <2> QED
    BY <2>1, PatchSystemOk, OutcomeAsMade
<1>5. CASE config[part] # NoPart /\ part = "ports"
  <2>1. ProvisionPart(r, config, part) = ApplyPorts(r, config.ports) /\ PortConfigsOk(config.ports)
    BY <1>5 DEF ProvisionPart, ProvisioningOk
  <2> QED
    BY <2>1, ApplyPortsOk, OutcomeAsMade
<1> QED
  BY <1>1, <1>2, <1>3, <1>4, <1>5

ProvisionStep(config, outcome, part) ==
    IF outcome.ok THEN ProvisionPart(outcome.ram, config, part) ELSE outcome

ProvisionGood(config, k, outcome) == OutcomeMade(outcome)

Provision == INSTANCE FoldInduction WITH Step <- ProvisionStep, Good <- ProvisionGood

LEMMA ProvisioningDone ==
    ASSUME NEW r, AsMade(r), NEW config, ProvisioningOk(config), NEW force
    PROVE  OutcomeMade(config_apply_json_provisioning(r, config, force))
<1> DEFINE begun   == [r EXCEPT !.provisioning = TRUE, !.device.version = config.version]
           parts   == <<"device", "peripherals", "system", "ports">>
           applied == Provision!Fold(config, Done(begun), parts)
           ended   == [applied EXCEPT !.ram.provisioning = FALSE]
           s       == [applied.ram EXCEPT !["provisioning"] = FALSE]
<1>1. config_apply_json_provisioning(r, config, force) \in {Refused(r), ended}
  BY DEF config_apply_json_provisioning, InTurn, Provision!Fold, ProvisionStep, FoldLeft, MapThenFoldSet, Max,
         Provision!MapThenFoldSet, Provision!Largest
<1>2. AsMade(begun)
  <2>1. ASSUME NEW a, Held(a, r) PROVE Held(a, begun)
    <3> DEFINE d == [r.device EXCEPT !["version"] = config.version]
               u == [r EXCEPT !["provisioning"] = TRUE]
    <3>1. DeviceOk(d)
      BY <2>1, HeldIs, DeviceSet DEF DeviceStrings
    <3>2. Held(a, u)
      BY <2>1, OthersHeld
    <3>3. begun = [u EXCEPT !.device = d]
      BY <2>1, HeldIs DEF RamFields
    <3> HIDE DEF d, u, begun
    <3> QED
      BY <3>1, <3>2, <3>3, DeviceHeld
  <2> HIDE DEF begun
  <2> QED
    BY <2>1, StillAsMade
<1> HIDE DEF begun
<1>3. DOMAIN parts = 1..4 /\ \A k \in 0..(4 - 1) : parts[k + 1] \in {"device", "peripherals", "system", "ports"}
  OBVIOUS
<1> HIDE DEF parts
<1>4. ProvisionGood(config, 0, Done(begun))
  BY <1>2, Outcomes, OutcomeAsMade DEF ProvisionGood
<1>5. ASSUME NEW k \in 0..(4 - 1), NEW o, ProvisionGood(config, k, o)
      PROVE  ProvisionGood(config, k + 1, ProvisionStep(config, o, parts[k + 1]))
  BY <1>3, <1>5, ProvisionPartOk DEF ProvisionGood, OutcomeMade, ProvisionStep
<1>6. OutcomeMade(applied)
  BY <1>3, <1>4, <1>5, Provision!FoldKeeps DEF ProvisionGood
<1> HIDE DEF applied
<1>7. AsMade(s)
  BY <1>6, OthersHeld, StillAsMade DEF OutcomeMade
<1>8. DOMAIN ended = {"ram", "ok"} /\ ended.ram = s
  BY <1>6 DEF OutcomeMade
<1>9. OutcomeMade(ended)
  BY <1>7, <1>8 DEF OutcomeMade
<1>10. OutcomeMade(Refused(r))
  BY Outcomes, OutcomeAsMade
<1> QED
  BY <1>1, <1>9, <1>10

LEMMA PutProvisioningOk ==
    ASSUME NEW r, AsMade(r), NEW config, ProvisioningOk(config)
    PROVE  OutcomeMade(api_put_provisioning(r, config))
<1> DEFINE applied == config_apply_json_provisioning(r, config, TRUE)
           s       == applied.ram
<1>1. OutcomeMade(applied)
  BY ProvisioningDone
<1>2. api_put_provisioning(r, config) = IF applied.ok THEN Done(ClearConfigName(s)) ELSE applied
  BY DEF api_put_provisioning
<1>3. AsMade(s)
  BY <1>1 DEF OutcomeMade
<1> HIDE DEF applied, s
<1>4. OutcomeMade(Done(ClearConfigName(s)))
  BY <1>3, ConfigNameOk, Outcomes, OutcomeAsMade
<1> QED
  BY <1>1, <1>2, <1>4

LEMMA StartedOk ==
    ASSUME NEW r, AsMade(r)
    PROVE  /\ AsMade(Started(r)) /\ AsMade([Started(r) EXCEPT !.connected = TRUE])
           /\ AsMade([r EXCEPT !.provisioning = FALSE]) /\ AsMade([r EXCEPT !.needs_saving = FALSE])
<1>1. ASSUME NEW t, AsMade(t), NEW field \in {"connected", "provisioning", "needs_saving"}, NEW v
      PROVE  AsMade([t EXCEPT ![field] = v])
  BY <1>1, OthersHeld, StillAsMade
<1> DEFINE v == r.provisioning \/ Starts(r)
<1>2. Started(r) = [r EXCEPT !["provisioning"] = v]
  BY AsMadeIs, HeldIs DEF Started, RamFields
<1> HIDE DEF v
<1>3. AsMade(Started(r))
  <2>1. \A x : AsMade([r EXCEPT !["provisioning"] = x])
    BY <1>1
  <2> QED
    BY <1>2, <2>1
<1> QED
  BY <1>1, <1>3

-----------------------------------------------------------------------------
(***************************************************************************)
(* The invariant: what is in memory, what is in flash, and that the one    *)
(* becomes, when the device starts, what the other was when it was saved.  *)
(***************************************************************************)
KeptInFlash == stored.fits => \A slot : Content(Loaded(image, slot)) = stored.content

IInv ==
    /\ AsMade(ram)
    /\ ImageOk(image)
    /\ KeptInFlash

LEMMA LoadedAsMade ==
    ASSUME NEW img, ImageOk(img), NEW slot
    PROVE  AsMade(Loaded(img, slot))
<1>1. PICK made : LoadedIs(img, Loaded(img, slot), made)
  BY LoadedOk
<1> QED
  BY <1>1 DEF LoadedIs, AsMade

LEMMA SavedIsRestored ==
    ASSUME NEW r, AsMade(r), NEW img, ImageOk(img)
    PROVE  LET saved == Saved(r, img)
           IN  /\ ImageOk(Flash(saved))
               /\ saved.fits => \A slot : Content(Loaded(Flash(saved), slot)) = Content(r)
<1> DEFINE saved == Saved(r, img)
           written == Flash(saved)
<1>1. PICK made, c : Made(r, made) /\ Laid(c, r.peripherals, made)
  BY DEF AsMade
<1>2. ImageOk(saved) /\ (saved.fits => SavedIs(saved, r))
  BY <1>1, SavedOk DEF Made
<1> HIDE DEF saved
<1>3. ImageOk(written) /\ (saved.fits => SavedIs(written, r))
  BY <1>2, FlashOk
<1> HIDE DEF written
<1>4. ASSUME saved.fits, NEW slot PROVE Content(Loaded(written, slot)) = Content(r)
  <2>1. PICK now : LoadedIs(written, Loaded(written, slot), now)
    BY <1>3, LoadedOk
  <2> QED
    BY <1>1, <1>3, <1>4, <2>1, Restored
<1> QED
  BY <1>3, <1>4 DEF written, saved

LEMMA InitIInv == Init => IInv
<1> SUFFICES ASSUME Init PROVE IInv
  OBVIOUS
<1>1. image = Zeros /\ ImageOk(image)
  BY ZerosOk DEF Init
<1>2. AsMade(ram)
  BY <1>1, LoadedAsMade DEF Init
<1>3. BlankIs(Zeros)
  BY ZerosOk DEF BlankIs, Zeros
<1>4. PICK first : ram = Loaded(Zeros, first)
  BY <1>1 DEF Init
<1>5. stored.content = Content(Loaded(Zeros, first))
  BY <1>4 DEF Init
<1>6. KeptInFlash
  BY <1>1, <1>3, <1>5, BlankLoaded DEF KeptInFlash
<1> QED
  BY <1>1, <1>2, <1>6 DEF IInv

\* A step that leaves the image as it is, and what it was saved from.
LEMMA FlashUnchanged ==
    ASSUME IInv, AsMade(ram'), image' = image, stored' = stored
    PROVE  IInv'
  BY DEF IInv, KeptInFlash

LEMMA CallKeepsIInv ==
    ASSUME IInv, NEW outcome, OutcomeMade(outcome), Call(outcome)
    PROVE  IInv'
  BY FlashUnchanged DEF Call, OutcomeMade

LEMMA SaveKeepsIInv == IInv /\ Save => IInv'
<1> SUFFICES ASSUME IInv, Save PROVE IInv'
  OBVIOUS
<1> DEFINE saved == Saved(ram, image)
<1>1. AsMade(ram')
  BY StartedOk DEF IInv, Save
<1>2. image' = Flash(saved) /\ stored' = [content |-> Content(ram), fits |-> saved.fits]
  BY DEF Save
<1>3. ImageOk(Flash(saved)) /\ (saved.fits => \A slot : Content(Loaded(Flash(saved), slot)) = Content(ram))
  BY SavedIsRestored DEF IInv
<1> HIDE DEF saved
<1>4. KeptInFlash'
  BY <1>2, <1>3 DEF KeptInFlash
<1> QED
  BY <1>1, <1>2, <1>3, <1>4 DEF IInv

LEMMA FactoryResetKeepsIInv == IInv /\ FactoryReset => IInv'
<1> SUFFICES ASSUME IInv, FactoryReset PROVE IInv'
  OBVIOUS
<1> DEFINE img == FactoryImage(ram)
           device == [name |-> Default, display_name |-> "", version |-> 0, config_name |-> ram.device.config_name]
<1>1. DeviceOk(ram.device)
  BY DEF IInv, AsMade, Made, RamOk
<1>2. BlankIs(img) /\ device_load(img) = device
  BY <1>1, FactoryIs
<1>3. /\ image' = img /\ ram' = Loaded(img, ram.system_slot)
      /\ stored' = [content |-> [ports |-> {}, peripherals |-> <<>>, device |-> device], fits |-> TRUE]
  BY DEF FactoryReset
<1> HIDE DEF img, device
<1>4. ImageOk(img) /\ AsMade(ram')
  BY <1>2, <1>3, LoadedAsMade DEF BlankIs
<1>5. KeptInFlash'
  BY <1>2, <1>3, BlankLoaded DEF KeptInFlash
<1> QED
  BY <1>3, <1>4, <1>5 DEF IInv

LEMMA ValueChangeKeeps ==
    ASSUME AsMade(ram), NEW i \in DOMAIN ram.ports, NEW v, NEW early, ValueChange(i, v, early)
    PROVE  AsMade(ram')
<1> SUFFICES ASSUME NEW a, Held(a, ram) PROVE Held(a, ram')
  BY StillAsMade
<1> DEFINE p == ram.ports[i]
           q == [p EXCEPT !.value = v]
           s == [ram EXCEPT !.ports[i] = q]
           n == ram.needs_saving \/ ("persisted" \in ram.ports[i].flags /\ ~early)
<1>1. /\ i \in 1..Len(ram.ports) /\ PortOk(p) /\ DOMAIN p = PortFields /\ DOMAIN ram = RamFields
      /\ ram.ports = [k \in 1..Len(ram.ports) |-> ram.ports[k]]
  BY HeldIs DEF PortOk, BarePortOk
<1>2. /\ DOMAIN q = PortFields /\ q.slot = p.slot /\ q.id = p.id /\ q.peripheral = p.peripheral
      /\ q.flags = p.flags
  BY <1>1 DEF PortFields
<1>3. ram' = [s EXCEPT !["needs_saving"] = n]
  BY <1>1 DEF ValueChange, RamFields
<1> HIDE DEF q, n
<1>4. PortOk(q)
  BY <1>1, <1>2 DEF PortOk, BarePortOk, IdOk, IsVirtual
<1>5. Held(a, s)
  BY <1>1, <1>2, <1>4, PortReplaced
<1> HIDE DEF s
<1> QED
  BY <1>3, <1>5, OthersHeld

LEMMA NextKeepsIInv == IInv /\ [Next]_vars => IInv'
<1> SUFFICES ASSUME IInv, [Next]_vars PROVE IInv'
  OBVIOUS
<1>0. AsMade(ram) /\ ImageOk(image)
  BY DEF IInv
<1>1. ASSUME NEW i \in DOMAIN ram.ports, NEW a, Held(a, ram) PROVE i \in 1..Len(ram.ports)
  BY <1>1, HeldIs
<1>2. ASSUME NEW new \in NewPorts, PostPorts(new) PROVE IInv'
  BY <1>0, <1>2, PostOk, OutcomeAsMade, CallKeepsIInv DEF PostPorts
<1>3. ASSUME NEW i \in DOMAIN ram.ports, DeletePort(i) PROVE IInv'
  BY <1>0, <1>1, <1>3, DeleteOk, OutcomeAsMade, CallKeepsIInv DEF DeletePort
<1>4. ASSUME NEW i \in DOMAIN ram.ports, NEW c \in PortChanges, PatchPort(i, c) PROVE IInv'
  BY <1>0, <1>1, <1>4, PatchOk, OutcomeAsMade, CallKeepsIInv, RequestsAssumption DEF PatchPort
<1>5. ASSUME NEW i \in DOMAIN ram.ports, NEW v \in Values, NEW early \in BOOLEAN, ValueChange(i, v, early)
      PROVE  IInv'
  <2>1. AsMade(ram') /\ image' = image /\ stored' = stored
    BY <1>0, <1>5, ValueChangeKeeps DEF ValueChange
  <2> QED
    BY <2>1, FlashUnchanged
<1>6. ASSUME NEW configs \in PortConfigs, PutPorts(configs) PROVE IInv'
  <2>1. PICK a, c : Held(a, ram) /\ Laid(c, a.peripherals, a.made)
    BY <1>0, AsMadeIs
  <2>2. OutcomeOk(a, api_put_ports(ram, configs))
    BY <2>1, PutPortsOk, RequestsAssumption
  <2>3. OutcomeMade(api_put_ports(ram, configs))
    BY <2>1, <2>2, HeldAsMade DEF OutcomeOk, OutcomeMade
  <2> QED
    BY <1>6, <2>3, CallKeepsIInv DEF PutPorts
<1>7. ASSUME NEW list \in PeripheralLists, PutPeripherals(list) PROVE IInv'
  BY <1>0, <1>7, PutPeripheralsOk, CallKeepsIInv, RequestsAssumption DEF PutPeripherals
<1>8. ASSUME NEW change \in SystemChanges, PatchSystem(change) PROVE IInv'
  BY <1>0, <1>8, PatchSystemOk, OutcomeAsMade, CallKeepsIInv DEF PatchSystem
<1>9. ASSUME NEW edits \in DeviceChanges, PatchDevice(edits) PROVE IInv'
  <2> DEFINE r == api_patch_device(ram, edits).ram
  <2>1. AsMade(r)
    BY <1>0, PatchDeviceOk, OutcomeAsMade, RequestsAssumption DEF OutcomeMade
  <2>2. ram' \in {r, Started(r)} /\ image' = image /\ stored' = stored
    BY <1>9 DEF PatchDevice
  <2> HIDE DEF r
  <2> QED
    BY <2>1, <2>2, StartedOk, FlashUnchanged
<1>10. ASSUME NEW c \in Provisionings, PutProvisioning(c) PROVE IInv'
  BY <1>0, <1>10, PutProvisioningOk, CallKeepsIInv, RequestsAssumption DEF PutProvisioning
<1>11. ASSUME NEW c \in Provisionings \cup {NoPart}, ProvisioningResponse(c) PROVE IInv'
  <2> DEFINE r == [ram EXCEPT !.provisioning = FALSE]
  <2>1. AsMade(r)
    BY <1>0, StartedOk
  <2>2. /\ image' = image /\ stored' = stored
        /\ ram' = IF c = NoPart THEN r ELSE config_apply_json_provisioning(r, c, FALSE).ram
    BY <1>11 DEF ProvisioningResponse
  <2> HIDE DEF r
  <2>3. c # NoPart => OutcomeMade(config_apply_json_provisioning(r, c, FALSE))
    BY <2>1, ProvisioningDone, RequestsAssumption
  <2>4. AsMade(ram')
    BY <2>1, <2>2, <2>3 DEF OutcomeMade
  <2> QED
    BY <2>2, <2>4, FlashUnchanged
<1>12. ASSUME Connect PROVE IInv'
  <2>1. AsMade(ram') /\ image' = image /\ stored' = stored
    BY <1>0, <1>12, StartedOk DEF Connect
  <2> QED
    BY <2>1, FlashUnchanged
<1>13. ASSUME Save PROVE IInv'
  BY <1>13, SaveKeepsIInv
<1>14. ASSUME Restart PROVE IInv'
  <2>1. AsMade(ram') /\ image' = image /\ stored' = stored
    BY <1>0, <1>14, LoadedAsMade DEF Restart
  <2> QED
    BY <2>1, FlashUnchanged
<1>15. ASSUME FactoryReset PROVE IInv'
  BY <1>15, FactoryResetKeepsIInv
<1>16. ASSUME UNCHANGED vars PROVE IInv'
  BY <1>0, <1>16, FlashUnchanged DEF vars
<1> QED
  BY <1>2, <1>3, <1>4, <1>5, <1>6, <1>7, <1>8, <1>9, <1>10, <1>11, <1>12, <1>13, <1>14, <1>15, <1>16 DEF Next

\* The sequences of calls that add, remove and replace ports and peripherals -
\* of any length, with any requests, any of them failing half way, with saves,
\* restarts and factory resets between them - leave every port a slot of its
\* own, of its kind, and mark as busy the slots of the ports and no others.
THEOREM SlotsAlwaysConsistent == Spec => []SlotsConsistent
<1>1. IInv => SlotsConsistent
  <2> SUFFICES ASSUME IInv PROVE SlotsConsistent
    OBVIOUS
  <2>1. PortsOk(ram.ports) /\ ram.used_slots = SlotsIn(ram.ports)
    BY DEF IInv, AsMade, Made, RamOk
  <2>2. /\ DOMAIN ram.ports = 1..Len(ram.ports)
        /\ Range(ram.ports) = {ram.ports[i] : i \in 1..Len(ram.ports)}
    BY <2>1, SeqIs DEF PortsOk
  <2>3. ram.used_slots = {p.slot : p \in Range(ram.ports)}
    BY <2>1, <2>2 DEF SlotsIn
  <2>4. IsInjective([i \in DOMAIN ram.ports |-> ram.ports[i].slot])
    BY <2>1, <2>2 DEF IsInjective, PortsOk
  <2>5. \A p \in Range(ram.ports) : p.slot \in Slots /\ (p.slot \in VirtualSlots <=> IsVirtual(p))
    BY <2>1, <2>2 DEF PortsOk, PortOk, BarePortOk
  <2> QED
    BY <2>3, <2>4, <2>5 DEF SlotsConsistent
<1> QED
  BY <1>1, InitIInv, NextKeepsIInv, PTL DEF Spec

\* However the device came to be what it is, and whatever the flash held before:
\* a restart makes of what a save wrote the ports, peripherals and device that
\* there were to save, if their strings fitted in the pool.
THEOREM AlwaysRestoredAsSaved == Spec => []RestoredAsSaved
<1>1. IInv => RestoredAsSaved
  BY DEF IInv, KeptInFlash, RestoredAsSaved
<1> QED
  BY <1>1, InitIInv, NextKeepsIInv, PTL DEF Spec

\* PUT /ports makes the ports of peripherals again in the slots and with the ids
\* they had, however they came by them, whatever else was done to them and to the
\* virtual ports since, and wherever applying the request fails.
THEOREM PortsAlwaysRecreated == Spec => PortsRecreated
<1>1. ASSUME IInv, NEW configs \in PortConfigs, PutPorts(configs)
      PROVE  PeripheralPorts(ram') = PeripheralPorts(ram)
  <2>1. PICK a, c : Held(a, ram) /\ Laid(c, a.peripherals, a.made)
    BY <1>1, AsMadeIs DEF IInv
  <2>2. Held(a, ram')
    BY <1>1, <2>1, PutPortsOk, RequestsAssumption DEF PutPorts, Call, OutcomeOk
  <2>3. IsSeq(a.made) /\ IsSeq(ram.ports) /\ Matches(ram.ports, a.made)
    BY <2>1 DEF Held, Made, RamOk, PortsOk
  <2>4. IsSeq(ram'.ports) /\ Matches(ram'.ports, a.made)
    BY <2>2 DEF Held, Made, RamOk, PortsOk
  <2> DEFINE those == {[id |-> a.made[m].id, slot |-> a.made[m].slot, peripheral |-> a.made[m].peripheral]
                          : m \in 1..Len(a.made)}
  <2>5. Identities(ram.ports) = those
    BY <2>3, MadeIdentities
  <2>6. Identities(ram'.ports) = those
    BY <2>3, <2>4, MadeIdentities
  <2> QED
    BY <2>5, <2>6 DEF PeripheralPorts, Identities
<1>2. IInv /\ [Next]_vars =>
          ((\E configs \in PortConfigs : PutPorts(configs)) => PeripheralPorts(ram') = PeripheralPorts(ram))
  BY <1>1
<1> QED
  BY <1>2, InitIInv, NextKeepsIInv, PTL DEF Spec, PortsRecreated

-----------------------------------------------------------------------------
(***************************************************************************)
(* Saving the configuration: a change is marked until it is in flash, an   *)
(* orderly restart loses no setting, and a device does not run with an     *)
(* erased sector as its settings, wherever power fails.                    *)
(***************************************************************************)
\* The settings have every change that was marked; the next change is a later one.
SettingsHaveMarked ==
    /\ \A s \in Sectors : marked[s] <= changes
    /\ up => HasMarked(settings)

\* An image that a device may run with or save.
Sound(img) == img[1] # Erased /\ (img[2] = Erased => interrupted)

\* Where flashcfg_save() is: what the operations before the next one have made
\* of the sectors.
Progress ==
    /\ writes = <<>> => step = 1
    /\ step = 1 => (flash[2] = Erased => flash[1] = Erased \/ interrupted)
    /\ step = 2 => flash[1] = Erased
    /\ step = 3 => flash[1] = Erased
    /\ step = 4 => flash[1] = writes[1][1]

ImagesSound == (up => Sound(settings)) /\ \A i \in 1..Len(writes) : Sound(writes[i])

\* What flash has, or will have when the writes are over, has every change that
\* was marked, unless a later save will have it.
WillBeSaved ==
    up => HasMarked(IF writes = <<>> THEN flash ELSE writes[Len(writes)]) \/ (config_needs_saving /\ ~reset)

SavingInv == TypeOK /\ SettingsHaveMarked /\ Progress /\ ImagesSound /\ WillBeSaved

-----------------------------------------------------------------------------
LEMMA FactoryTyped == Factory \in [Sectors -> SectorContent] /\ Factory[1] # Erased /\ Factory[2] # Erased
    BY ConfigAssumption DEF Factory, Sectors, SectorContent, Defaults

\* One image to save, or a last one after another.
LEMMA ImagesTyped ==
    ASSUME NEW T, NEW first \in T, NEW second \in T
    PROVE  /\ <<first>> \in Seq(T) /\ Len(<<first>>) = 1 /\ <<first>>[1] = first
           /\ Append(<<first>>, second) \in Seq(T) /\ Len(Append(<<first>>, second)) = 2
           /\ Append(<<first>>, second)[1] = first /\ Append(<<first>>, second)[2] = second
           /\ Append(<<>>, first) = <<first>>
  <1>1. <<first>> \in Seq(T) /\ Len(<<first>>) = 1 /\ <<first>>[1] = first
    OBVIOUS
  <1>2. Append(<<first>>, second) \in Seq(T) /\ Len(Append(<<first>>, second)) = 2
    BY <1>1
  <1>3. Append(<<first>>, second)[1] = first /\ Append(<<first>>, second)[2] = second
    BY <1>1
  <1>4. Append(<<>>, first) = <<first>>
    OBVIOUS
  <1> QED
    BY <1>1, <1>2, <1>3, <1>4

\* The first and the other elements of what remains to be saved.
LEMMA FirstImage ==
    ASSUME NEW T, NEW seq \in Seq(T), seq # <<>>
    PROVE  /\ Len(seq) \in Nat /\ Len(seq) >= 1 /\ Head(seq) = seq[1] /\ seq[1] \in T
           /\ Tail(seq) \in Seq(T) /\ Len(Tail(seq)) = Len(seq) - 1
           /\ \A i \in 1..(Len(seq) - 1) : Tail(seq)[i] = seq[i + 1]
           /\ Len(seq) > 1 => Tail(seq) # <<>> /\ Tail(seq)[Len(Tail(seq))] = seq[Len(seq)]
  <1>1. Len(seq) \in Nat /\ Len(seq) >= 1 /\ Head(seq) = seq[1] /\ seq[1] \in T
    OBVIOUS
  <1>2. Tail(seq) \in Seq(T) /\ Len(Tail(seq)) = Len(seq) - 1
    BY <1>1
  <1>3. \A i \in 1..(Len(seq) - 1) : Tail(seq)[i] = seq[i + 1]
    BY <1>1
  <1>4. ASSUME Len(seq) > 1
        PROVE  Tail(seq) # <<>> /\ Tail(seq)[Len(Tail(seq))] = seq[Len(seq)]
    <2> DEFINE l == Len(seq) - 1
    <2>1. l \in 1..(Len(seq) - 1) /\ l + 1 = Len(seq) /\ Len(Tail(seq)) = l
      BY <1>1, <1>2, <1>4
    <2>2. Tail(seq)[l] = seq[l + 1]
      BY <1>3, <2>1
    <2>3. Tail(seq) # <<>>
      <3>1. Len(<<>>) = 0 /\ ~(0 \in 1..(Len(seq) - 1))
        BY <1>1
      <3> QED
        BY <2>1, <3>1
    <2> QED
      BY <2>1, <2>2, <2>3
  <1> QED
    BY <1>1, <1>2, <1>3, <1>4

\* Nothing is marked when the device starts, and after a factory reset.
LEMMA NoneMarkedIs ==
    /\ NoneMarked \in [Sectors -> 0..MaxChanges]
    /\ \A s \in Sectors : NoneMarked[s] = 0
  BY ConfigAssumption DEF NoneMarked

LEMMA InitSavingInv == SavingInit => SavingInv
  <1> SUFFICES ASSUME SavingInit PROVE SavingInv
    OBVIOUS
  <1>1. flash \in [Sectors -> SectorContent] /\ (flash[2] = Erased => flash[1] = Erased)
    <2>1. CASE flash = Factory
      BY <2>1, FactoryTyped
    <2>2. CASE flash = [s \in Sectors |-> Erased]
      BY <2>2 DEF Sectors, SectorContent
    <2> QED
      BY <2>1, <2>2 DEF SavingInit
  <1>2. writes \in Seq([Sectors -> SectorContent]) /\ Len(writes) <= 2
    BY DEF SavingInit
  <1>3. age \in 0..(SaveInterval + 1) /\ lag \in 0..(SaveInterval + 1) /\ changes \in 0..MaxChanges
    BY ConfigAssumption DEF SavingInit
  <1>4. settings \in [Sectors -> SectorContent] /\ step \in 1..4
    BY FactoryTyped DEF SavingInit
  <1>5. TypeOK
    BY <1>1, <1>2, <1>3, <1>4, NoneMarkedIs DEF SavingInit, TypeOK
  <1>6. Progress
    BY <1>1 DEF SavingInit, Progress
  <1>7. SettingsHaveMarked
    BY NoneMarkedIs DEF SavingInit, SettingsHaveMarked
  <1> QED
    BY <1>5, <1>6, <1>7 DEF SavingInit, SavingInv, ImagesSound, WillBeSaved

\* A flash operation of flashcfg_save().
LEMMA FlashWriteKeepsSavingInv ==
    ASSUME SavingInv, FlashWrite
    PROVE  SavingInv'
  <1>0. TypeOK /\ SettingsHaveMarked /\ Progress /\ ImagesSound /\ WillBeSaved
    BY DEF SavingInv
  <1>1. /\ writes \in Seq([Sectors -> SectorContent]) /\ writes # <<>> /\ Len(writes) \in 1..2
        /\ Head(writes) = writes[1] /\ writes[1] \in [Sectors -> SectorContent]
        /\ step \in 1..4 /\ flash \in [Sectors -> SectorContent] /\ Sectors = {1, 2}
        /\ Erased \in SectorContent
    <2>1. writes \in Seq([Sectors -> SectorContent]) /\ writes # <<>> /\ Len(writes) <= 2
      BY <1>0 DEF FlashWrite, TypeOK
    <2>2. /\ Len(writes) \in Nat /\ Len(writes) >= 1 /\ Head(writes) = writes[1]
          /\ writes[1] \in [Sectors -> SectorContent]
      BY <2>1, FirstImage
    <2>3. Len(writes) \in 1..2
      <3>1. \A n \in Nat : n >= 1 /\ n <= 2 => n \in 1..2
        OBVIOUS
      <3> QED
        BY <2>1, <2>2, <3>1
    <2> QED
      BY <1>0, <2>1, <2>2, <2>3 DEF TypeOK, Sectors, SectorContent
  <1>2. step = 1 \/ step = 2 \/ step = 3 \/ step = 4
    BY <1>1
  <1>3. /\ UNCHANGED <<settings, config_needs_saving, age, lag, polling_enabled, reset, up>>
        /\ UNCHANGED <<changes, marked, interrupted>> /\ up
    BY DEF FlashWrite, history
  <1>a. ASSUME flash' \in [Sectors -> SectorContent], step' \in 1..4, writes' = writes
        PROVE  TypeOK' /\ SettingsHaveMarked' /\ ImagesSound' /\ WillBeSaved'
    <2>1. TypeOK'
      BY <1>0, <1>3, <1>a DEF TypeOK
    <2> QED
      BY <1>0, <1>1, <1>3, <1>a, <2>1 DEF SettingsHaveMarked, HasMarked, ImagesSound, WillBeSaved, Sound
  <1>4. CASE step = 1
    <2>1. flash' = [flash EXCEPT ![1] = Erased] /\ step' = 2 /\ writes' = writes
      BY <1>4 DEF FlashWrite
    <2>2. flash' \in [Sectors -> SectorContent] /\ flash'[1] = Erased
      BY <1>1, <2>1
    <2>3. Progress'
      BY <1>1, <2>1, <2>2 DEF Progress
    <2> QED
      BY <1>a, <2>1, <2>2, <2>3 DEF SavingInv
  <1>5. CASE step = 2
    <2>1. flash' = [flash EXCEPT ![2] = Erased] /\ step' = 3 /\ writes' = writes
      BY <1>5 DEF FlashWrite
    <2>2. flash' \in [Sectors -> SectorContent] /\ flash'[1] = Erased
      BY <1>0, <1>1, <1>5, <2>1 DEF Progress
    <2>3. Progress'
      BY <1>1, <2>1, <2>2 DEF Progress
    <2> QED
      BY <1>a, <2>1, <2>2, <2>3 DEF SavingInv
  <1>6. CASE step = 3
    <2>1. flash' = [flash EXCEPT ![1] = writes[1][1]] /\ step' = 4 /\ writes' = writes
      <3>1. Head(writes)[step - 2] = writes[1][1]
        BY <1>1, <1>6
      <3> QED
        <4>1. (step \in {1, 3}) = TRUE /\ (step \in {1, 2}) = FALSE /\ (step % 4) + 1 = 4 /\ step # 4
          BY <1>6
        <4>2. flash' = [flash EXCEPT ![1] = Head(writes)[step - 2]]
          BY <4>1 DEF FlashWrite
        <4>3. step' = 4 /\ writes' = writes
          BY <4>1 DEF FlashWrite
        <4> QED
          BY <3>1, <4>2, <4>3
    <2>2. flash' \in [Sectors -> SectorContent] /\ flash'[1] = writes[1][1]
      BY <1>1, <2>1
    <2>3. Progress'
      BY <1>1, <2>1, <2>2 DEF Progress
    <2> QED
      BY <1>a, <2>1, <2>2, <2>3 DEF SavingInv
  <1>7. CASE step = 4
    <2>1. flash' = [flash EXCEPT ![2] = writes[1][2]] /\ step' = 1 /\ writes' = Tail(writes)
      <3>1. Head(writes)[step - 2] = writes[1][2] /\ (step % 4) + 1 = 1
        BY <1>1, <1>7
      <3> QED
        <4>1. (step \in {1, 3}) = FALSE /\ (step \in {1, 2}) = FALSE /\ step = 4
          BY <1>7
        <4>2. flash' = [flash EXCEPT ![2] = Head(writes)[step - 2]]
          BY <4>1 DEF FlashWrite
        <4>3. step' = 1 /\ writes' = Tail(writes)
          BY <3>1, <4>1 DEF FlashWrite
        <4> QED
          BY <3>1, <4>2, <4>3
    <2>2. flash[1] = writes[1][1]
      BY <1>0, <1>7 DEF Progress
    <2>3. flash' = writes[1]
      BY <1>1, <2>1, <2>2
    <2>4. /\ Tail(writes) \in Seq([Sectors -> SectorContent]) /\ Len(Tail(writes)) = Len(writes) - 1
          /\ \A i \in 1..Len(Tail(writes)) : Tail(writes)[i] = writes[i + 1]
      BY <1>1, FirstImage
    <2>5. Tail(writes) = <<>> <=> Len(writes) = 1
      BY <1>1, <2>4
    <2>6. TypeOK'
      <3>1. flash' \in [Sectors -> SectorContent] /\ writes' \in Seq([Sectors -> SectorContent])
        BY <1>1, <2>1, <2>3, <2>4
      <3>2. step' \in 1..4 /\ Len(writes') <= 2 /\ up'
        <4>1. Len(writes') = Len(writes) - 1
          BY <2>1, <2>4
        <4>2. Len(writes) \in 1..2 /\ up' = up /\ up
          BY <1>1, <1>3
        <4>3. step' = 1
          BY <2>1
        <4>4. \A n : n \in 1..2 => n - 1 <= 2
          OBVIOUS
        <4>5. step' \in 1..4
          BY <4>3
        <4>6. Len(writes') <= 2
          BY <4>1, <4>2, <4>4
        <4> QED
          BY <4>2, <4>5, <4>6
      <3> QED
        BY <1>0, <1>3, <3>1, <3>2 DEF TypeOK
    <2>7. Sound(writes[1])
      BY <1>0, <1>1 DEF ImagesSound
    <2>8. Progress'
      BY <1>1, <1>3, <2>1, <2>3, <2>7 DEF Progress, Sound
    <2>9. ImagesSound'
      <3>1. \A i \in 1..Len(writes') : Sound(writes[i + 1]) /\ writes'[i] = writes[i + 1]
        <4> SUFFICES ASSUME NEW i \in 1..Len(writes')
                     PROVE  Sound(writes[i + 1]) /\ writes'[i] = writes[i + 1]
          OBVIOUS
        <4>1. i + 1 \in 1..Len(writes)
          BY <1>1, <2>1, <2>4
        <4> QED
          BY <1>0, <2>1, <2>4, <4>1 DEF ImagesSound
      <3> QED
        BY <1>0, <1>3, <3>1 DEF ImagesSound, Sound
    <2>10. WillBeSaved'
      <3>1. CASE Len(writes) = 1
        BY <1>0, <1>1, <1>3, <2>1, <2>3, <2>5, <3>1 DEF WillBeSaved, HasMarked
      <3>2. CASE Len(writes) = 2
        <4>1. Len(writes) > 1
          BY <3>2
        <4>2. Tail(writes) # <<>> /\ Tail(writes)[Len(Tail(writes))] = writes[Len(writes)]
          BY <1>1, <4>1, FirstImage
        <4> QED
          BY <1>0, <1>1, <1>3, <2>1, <4>2 DEF WillBeSaved, HasMarked
      <3> QED
        BY <1>1, <3>1, <3>2
    <2>11. SettingsHaveMarked'
      BY <1>0, <1>3 DEF SettingsHaveMarked, HasMarked
    <2> QED
      BY <2>6, <2>8, <2>9, <2>10, <2>11 DEF SavingInv
  <1> QED
    BY <1>2, <1>4, <1>5, <1>6, <1>7

LEMMA PowerFailsKeepsSavingInv ==
    ASSUME SavingInv, PowerFails
    PROVE  SavingInv'
  <1>1. /\ up' = FALSE /\ writes' = <<>> /\ step' = 1
        /\ interrupted' = (interrupted \/ writes # <<>>)
        /\ UNCHANGED <<flash, settings, config_needs_saving, age, lag, polling_enabled, reset>>
        /\ UNCHANGED <<changes, marked>>
    BY DEF PowerFails
  <1>2. /\ TypeOK
        /\ writes = <<>> => (flash[2] = Erased => flash[1] = Erased \/ interrupted)
    BY DEF SavingInv, Progress
  <1>3. /\ writes' \in Seq([Sectors -> SectorContent]) /\ Len(writes') <= 2
        /\ step' \in 1..4 /\ interrupted' \in BOOLEAN
    BY <1>1, <1>2 DEF TypeOK
  <1>4. TypeOK'
    BY <1>1, <1>2, <1>3 DEF TypeOK
  <1>5. Progress'
    BY <1>1, <1>2 DEF TypeOK, Progress
  <1> QED
    BY <1>1, <1>4, <1>5 DEF SavingInv, SettingsHaveMarked, ImagesSound, WillBeSaved

\* A start with the contents of flash, or with the defaults, which are saved.
LEMMA StartKeepsSavingInv ==
    ASSUME SavingInv, ConfigInit \/ ConfigResetAtStart
    PROVE  SavingInv'
  <1>1. /\ writes = <<>> /\ step = 1 /\ flash \in [Sectors -> SectorContent]
        /\ flash[2] = Erased => flash[1] = Erased \/ interrupted
        /\ changes \in 0..MaxChanges /\ interrupted \in BOOLEAN
    BY DEF ConfigInit, ConfigResetAtStart, Start, SavingInv, TypeOK, Progress
  <1>2. /\ up' = TRUE /\ config_needs_saving' = FALSE /\ age' = 0 /\ lag' = 0
        /\ polling_enabled' = FALSE /\ reset' = FALSE
        /\ marked' = NoneMarked
        /\ UNCHANGED <<flash, step, changes, interrupted>>
    BY DEF ConfigInit, ConfigResetAtStart, Start
  <1>3. SettingsHaveMarked' /\ Progress' /\ WillBeSaved'
    <2>1. \A s \in Sectors : marked'[s] = 0 /\ 0 <= changes'
      BY <1>1, <1>2, NoneMarkedIs
    <2> QED
      BY <1>1, <1>2, <2>1 DEF SettingsHaveMarked, HasMarked, Progress, WillBeSaved
  <1>4. 0 \in 0..(SaveInterval + 1)
    BY ConfigAssumption
  <1>5. CASE settings' = Factory /\ writes' = <<Factory>>
    <2>1. /\ writes' \in Seq([Sectors -> SectorContent]) /\ Len(writes') = 1 /\ writes'[1] = Factory
          /\ settings' \in [Sectors -> SectorContent]
      BY <1>5, FactoryTyped, ImagesTyped
    <2>2. TypeOK'
      <3>1. up' \in BOOLEAN /\ Len(writes') <= 2 /\ step' \in 1..4
        BY <1>1, <1>2, <2>1
      <3> QED
        BY <1>1, <1>2, <1>4, <2>1, <3>1, NoneMarkedIs DEF TypeOK
    <2>3. ImagesSound'
      BY <1>2, <1>5, <2>1, FactoryTyped DEF ImagesSound, Sound
    <2> QED
      BY <1>3, <2>2, <2>3 DEF SavingInv
  <1>6. CASE settings' = flash /\ writes' = <<>> /\ flash[1] # Erased
    <2>1. writes' \in Seq([Sectors -> SectorContent]) /\ Len(writes') = 0
      BY <1>6
    <2>2. TypeOK'
      <3>1. up' \in BOOLEAN /\ Len(writes') <= 2 /\ step' \in 1..4
        BY <1>1, <1>2, <2>1
      <3> QED
        BY <1>1, <1>2, <1>4, <1>6, <2>1, <3>1, NoneMarkedIs DEF TypeOK
    <2>3. ImagesSound'
      BY <1>1, <1>2, <1>6, <2>1 DEF ImagesSound, Sound
    <2> QED
      BY <1>3, <2>2, <2>3 DEF SavingInv
  <1> QED
    BY <1>5, <1>6 DEF ConfigInit, ConfigResetAtStart, Start

\* Changes, while nothing is being written.
LEMMA ChangesKeepSavingInv ==
    ASSUME SavingInv, ChangeSettings \/ ChangeSettingsUnmarked
    PROVE  SavingInv'
  <1>1. PICK S \in SUBSET Sectors \ {{}} :
            /\ Changed(S)
            /\ \/ /\ marked' = [s \in Sectors |-> IF s \in S /\ ~reset THEN changes' ELSE marked[s]]
                  /\ config_needs_saving' = TRUE /\ age' = lag
               \/ UNCHANGED <<marked, config_needs_saving, age>>
    BY DEF ChangeSettings, ChangeSettingsUnmarked, config_mark_for_saving
  <1>2. /\ Ready /\ UNCHANGED <<flash, writes, step, lag, polling_enabled, reset, up, interrupted>>
        /\ TypeOK /\ SettingsHaveMarked /\ Progress /\ ImagesSound /\ WillBeSaved
    BY DEF SavingInv, ChangeSettings, ChangeSettingsUnmarked
  <1>3. /\ changes' = changes + 1 /\ changes' \in 0..MaxChanges /\ changes \in Nat
        /\ changes' # Erased /\ changes' \in SectorContent
    BY <1>1, <1>2, ConfigAssumption DEF Changed, TypeOK, SectorContent
  <1>4. /\ settings' \in [Sectors -> SectorContent]
        /\ \A s \in Sectors : settings'[s] = IF s \in S THEN changes' ELSE settings[s]
        /\ \A s \in Sectors : settings'[s] = Erased => settings[s] = Erased
    BY <1>1, <1>2, <1>3 DEF Changed, TypeOK
  <1>5. /\ marked \in [Sectors -> 0..MaxChanges] /\ marked' \in [Sectors -> 0..MaxChanges]
        /\ \A s \in Sectors : marked'[s] = marked[s] \/ (s \in S /\ marked'[s] = changes' /\ ~reset)
    BY <1>1, <1>2, <1>3 DEF TypeOK
  <1>6. TypeOK'
    BY <1>1, <1>2, <1>3, <1>4, <1>5 DEF TypeOK
  <1>7. SettingsHaveMarked'
    <2> SUFFICES ASSUME NEW s \in Sectors
                 PROVE  /\ marked'[s] <= changes'
                        /\ marked'[s] # 0 => settings'[s] # Erased /\ settings'[s] >= marked'[s]
      BY DEF SettingsHaveMarked, HasMarked
    <2>1. /\ marked[s] <= changes /\ marked[s] \in Nat
          /\ marked[s] # 0 => settings[s] # Erased /\ settings[s] >= marked[s]
      BY <1>2, <1>5 DEF SettingsHaveMarked, HasMarked, Ready
    <2>2. CASE s \in S
      BY <1>3, <1>4, <1>5, <2>1, <2>2
    <2>3. CASE s \notin S
      BY <1>3, <1>4, <1>5, <2>1, <2>3
    <2> QED
      BY <2>2, <2>3
  <1>8. ImagesSound'
    <2>1. 1 \in Sectors /\ 2 \in Sectors
      BY DEF Sectors
    <2> QED
      BY <1>2, <1>4, <2>1 DEF ImagesSound, Sound, Ready
  <1>9. WillBeSaved'
    <2>1. CASE marked' = marked /\ config_needs_saving' = config_needs_saving
      BY <1>2, <2>1 DEF WillBeSaved, HasMarked
    <2>2. CASE ~reset /\ config_needs_saving' = TRUE
      BY <1>2, <2>2 DEF WillBeSaved
    <2>3. CASE reset /\ config_needs_saving' = TRUE
      <3>1. HasMarked(flash) /\ writes = <<>> /\ writes' = <<>> /\ flash' = flash
        BY <1>2, <2>3 DEF WillBeSaved, Ready
      <3>2. \A s \in Sectors : marked'[s] = marked[s]
        BY <1>5, <2>3
      <3>3. HasMarked(flash)'
        BY <3>1, <3>2 DEF HasMarked
      <3> QED
        BY <3>1, <3>3 DEF WillBeSaved
    <2> QED
      BY <1>1, <1>2, <2>1, <2>2, <2>3 DEF TypeOK
  <1>10. Progress'
    BY <1>2 DEF Progress
  <1> QED
    BY <1>6, <1>7, <1>8, <1>9, <1>10 DEF SavingInv

\* The two outcomes of config_ensure_saved().
LEMMA EnsureSaved ==
    ASSUME TypeOK, NEW before, config_ensure_saved(before)
    PROVE  /\ config_needs_saving' = FALSE
           /\ \/ age' = 0 /\ writes' = Append(before, settings)
              \/ ~config_needs_saving /\ age' = age /\ writes' = before
  <1>1. config_needs_saving \in BOOLEAN
    BY DEF TypeOK
  <1> QED
    BY <1>1 DEF config_ensure_saved, config_save

\* A saving, of the defaults, of the settings or of both, that starts while
\* nothing is being written.
LEMMA SavingKeepsSavingInv ==
    ASSUME SavingInv, Ready, NEW before \in {<<>>, <<Factory>>},
           config_needs_saving' = FALSE,
           \/ age' = 0 /\ writes' = Append(before, settings)
           \/ ~config_needs_saving /\ age' = age /\ writes' = before,
           marked' = NoneMarked \/ (before = <<>> /\ marked' = marked),
           UNCHANGED <<flash, step, settings, up, changes, interrupted>>,
           lag' = lag \/ lag' = 0,
           polling_enabled' = polling_enabled \/ polling_enabled' = FALSE,
           reset' = TRUE \/ reset' = reset
    PROVE  SavingInv'
  <1>1. /\ writes = <<>> /\ step = 1 /\ up /\ up' = up
        /\ settings \in [Sectors -> SectorContent] /\ Sound(settings) /\ Sound(Factory)
        /\ Factory \in [Sectors -> SectorContent]
    BY FactoryTyped DEF SavingInv, Ready, Progress, TypeOK, ImagesSound, Sound
  <1>2. /\ age' \in 0..(SaveInterval + 1) /\ lag' \in 0..(SaveInterval + 1)
        /\ 0 \in 0..(SaveInterval + 1)
    BY ConfigAssumption DEF SavingInv, TypeOK
  <1>3. /\ reset' \in BOOLEAN /\ polling_enabled' \in BOOLEAN /\ config_needs_saving' \in BOOLEAN
        /\ up' \in BOOLEAN /\ interrupted' \in BOOLEAN
    <2>1. /\ reset \in BOOLEAN /\ polling_enabled \in BOOLEAN /\ config_needs_saving \in BOOLEAN
          /\ up \in BOOLEAN /\ interrupted \in BOOLEAN
      BY DEF SavingInv, TypeOK
    <2>2. /\ reset' = TRUE \/ reset' = reset
          /\ up' = up /\ interrupted' = interrupted
      OBVIOUS
    <2> QED
      BY <2>1, <2>2, Zenon
  <1>4. /\ flash' \in [Sectors -> SectorContent] /\ settings' \in [Sectors -> SectorContent]
        /\ step' \in 1..4 /\ changes' \in 0..MaxChanges /\ marked' \in [Sectors -> 0..MaxChanges]
    BY NoneMarkedIs DEF SavingInv, TypeOK
  <1>5. /\ writes' \in Seq([Sectors -> SectorContent]) /\ Len(writes') \in 0..2
        /\ \A i \in 1..Len(writes') : writes'[i] = Factory \/ writes'[i] = settings
    <2> DEFINE T == [Sectors -> SectorContent]
    <2>1. Factory \in T /\ settings \in T
      BY <1>1
    <2> HIDE DEF T
    <2>2. CASE writes' = <<>>
      BY <2>2
    <2>3. CASE writes' = <<Factory>>
      <3>1. <<Factory>> \in Seq(T) /\ Len(<<Factory>>) = 1 /\ <<Factory>>[1] = Factory
        BY <2>1, ImagesTyped
      <3> QED
        BY <2>3, <3>1 DEF T
    <2>4. CASE writes' = Append(<<>>, settings)
      <3>1. /\ Append(<<>>, settings) = <<settings>>
            /\ <<settings>> \in Seq(T) /\ Len(<<settings>>) = 1 /\ <<settings>>[1] = settings
        BY <2>1, ImagesTyped
      <3> QED
        BY <2>4, <3>1 DEF T
    <2>5. CASE writes' = Append(<<Factory>>, settings)
      <3> DEFINE both == Append(<<Factory>>, settings)
      <3>1. both \in Seq(T) /\ Len(both) = 2 /\ both[1] = Factory /\ both[2] = settings
        BY <2>1, ImagesTyped
      <3> HIDE DEF both
      <3>2. \A i \in 1..2 : both[i] = Factory \/ both[i] = settings
        BY <3>1
      <3>3. writes' = both
        BY <2>5 DEF both
      <3> QED
        <4>1. writes' \in Seq(T)
          BY <3>1, <3>3
        <4>2. Len(writes') = 2 /\ 2 \in 0..2
          BY <3>1, <3>3
        <4>3. \A i \in 1..Len(writes') : writes'[i] = Factory \/ writes'[i] = settings
          BY <3>2, <3>3, <4>2
        <4> QED
          BY <4>1, <4>2, <4>3 DEF T
    <2> QED
      BY <2>2, <2>3, <2>4, <2>5
  <1>6. Len(writes') <= 2
    BY <1>5
  <1>8. TypeOK'
    BY <1>1, <1>2, <1>3, <1>4, <1>5, <1>6 DEF TypeOK
  <1>9. HasMarked(settings)' /\ SettingsHaveMarked'
    <2>1. /\ settings' = settings /\ changes' = changes /\ changes \in Nat
          /\ HasMarked(settings) /\ \A s \in Sectors : marked[s] <= changes
      BY <1>1, ConfigAssumption DEF SavingInv, SettingsHaveMarked, TypeOK
    <2>2. CASE marked' = marked
      BY <2>1, <2>2 DEF SettingsHaveMarked, HasMarked
    <2>3. CASE marked' = NoneMarked
      <3>1. \A s \in Sectors : marked'[s] = 0 /\ 0 <= changes'
        BY <2>1, <2>3, NoneMarkedIs
      <3> QED
        BY <3>1 DEF SettingsHaveMarked, HasMarked
    <2> QED
      BY <2>2, <2>3
  <1>10. Progress'
    <2>1. step' = 1 /\ flash' = flash /\ interrupted' = interrupted
      BY <1>1
    <2>2. flash[2] = Erased => flash[1] = Erased \/ interrupted
      BY <1>1 DEF SavingInv, Progress
    <2> QED
      BY <2>1, <2>2 DEF Progress
  <1>11. ImagesSound'
    <2>1. settings' = settings /\ interrupted' = interrupted
      OBVIOUS
    <2>2. \A i \in 1..Len(writes') : writes'[i][1] # Erased /\ (writes'[i][2] = Erased => interrupted)
      BY <1>1, <1>5 DEF Sound
    <2> QED
      BY <1>1, <2>1, <2>2 DEF ImagesSound, Sound
  <1>12. WillBeSaved'
    <2>1. CASE marked' = NoneMarked
      <3>1. \A s \in Sectors : marked'[s] = 0
        BY <2>1, NoneMarkedIs
      <3> QED
        BY <3>1 DEF WillBeSaved, HasMarked
    <2>2. CASE before = <<>> /\ marked' = marked /\ writes' = Append(before, settings)
      <3>1. writes' = <<settings>>
        BY <1>1, <2>2, ImagesTyped
      <3>2. writes' # <<>> /\ writes'[Len(writes')] = settings
        BY <1>1, <3>1, ImagesTyped
      <3>3. settings' = settings
        OBVIOUS
      <3> QED
        BY <1>9, <3>2, <3>3 DEF WillBeSaved, HasMarked
    <2>3. CASE before = <<>> /\ marked' = marked /\ ~config_needs_saving /\ writes' = before
      <3>1. HasMarked(flash) /\ flash' = flash
        BY <1>1, <2>3 DEF SavingInv, WillBeSaved
      <3> QED
        BY <2>3, <3>1 DEF WillBeSaved, HasMarked
    <2> QED
      BY <2>1, <2>2, <2>3
  <1> QED
    BY <1>8, <1>9, <1>10, <1>11, <1>12 DEF SavingInv

LEMMA SavesKeepSavingInv ==
    ASSUME SavingInv, ResetRequested \/ FactoryResetRequested \/ OnOtaAutoPerform
    PROVE  SavingInv'
  <1>1. TypeOK /\ Ready /\ UNCHANGED <<flash, step, settings, up, changes, interrupted, lag>>
    BY DEF SavingInv, ResetRequested, FactoryResetRequested, OnOtaAutoPerform, history
  <1>2. CASE FactoryResetRequested
    <2>1. /\ config_ensure_saved(<<Factory>>) /\ marked' = NoneMarked
          /\ polling_enabled' = FALSE /\ reset' = TRUE
      BY <1>2 DEF FactoryResetRequested, system_reset
    <2> QED
      BY <1>1, <2>1, EnsureSaved, SavingKeepsSavingInv
  <1>3. CASE ResetRequested
    <2>1. /\ config_ensure_saved(<<>>) /\ marked' = marked
          /\ polling_enabled' = FALSE /\ reset' = TRUE
      BY <1>3 DEF ResetRequested, system_reset, history
    <2> QED
      BY <1>1, <2>1, EnsureSaved, SavingKeepsSavingInv
  <1>4. CASE OnOtaAutoPerform
    <2>1. /\ config_ensure_saved(<<>>) /\ marked' = marked
          /\ polling_enabled' = polling_enabled /\ reset' = reset
      BY <1>4 DEF OnOtaAutoPerform, history
    <2> QED
      BY <1>1, <2>1, EnsureSaved, SavingKeepsSavingInv
  <1> QED
    BY <1>2, <1>3, <1>4

LEMMA CorePollKeepsSavingInv ==
    ASSUME SavingInv, CorePoll
    PROVE  SavingInv'
  <1>1. /\ Ready /\ lag' = 0
        /\ UNCHANGED <<flash, step, settings, polling_enabled, reset, up, changes, marked, interrupted>>
    BY DEF CorePoll, history
  <1>2. CASE SavingDue
    <2>1. config_needs_saving' = FALSE /\ age' = 0 /\ writes' = Append(<<>>, settings)
      BY <1>2 DEF CorePoll, config_save
    <2> QED
      BY <1>1, <2>1, SavingKeepsSavingInv
  <1>3. CASE ~SavingDue
    <2>1. UNCHANGED <<writes, config_needs_saving, age>>
      BY <1>3 DEF CorePoll
    <2>2. 0 \in 0..(SaveInterval + 1)
      BY ConfigAssumption
    <2>3. TypeOK'
      BY <1>1, <2>1, <2>2 DEF SavingInv, TypeOK
    <2> QED
      BY <1>1, <2>1, <2>3 DEF SavingInv, SettingsHaveMarked, HasMarked, Progress, ImagesSound, WillBeSaved, Sound
  <1> QED
    BY <1>2, <1>3

LEMMA TickKeepsSavingInv ==
    ASSUME SavingInv, Tick \/ EnablePolling \/ SystemRestart
    PROVE  SavingInv'
  <1>1. CASE Tick
    <2>1. age' \in 0..(SaveInterval + 1) /\ lag' \in 0..(SaveInterval + 1)
      BY <1>1, ConfigAssumption DEF Tick, SavingInv, TypeOK
    <2> QED
      BY <1>1, <2>1
         DEF Tick, history, SavingInv, TypeOK, SettingsHaveMarked, HasMarked, Progress, ImagesSound, WillBeSaved, Sound
  <1>2. CASE EnablePolling
    BY <1>2
       DEF EnablePolling, history, SavingInv, TypeOK, SettingsHaveMarked, HasMarked, Progress, ImagesSound, WillBeSaved, Sound
  <1>3. CASE SystemRestart
    BY <1>3
       DEF SystemRestart, Ready, history, SavingInv, TypeOK, SettingsHaveMarked, HasMarked, Progress, ImagesSound, WillBeSaved, Sound
  <1> QED
    BY <1>1, <1>2, <1>3

LEMMA NextKeepsSavingInv == SavingInv /\ [SavingNext]_saving_vars => SavingInv'
  <1> SUFFICES ASSUME SavingInv, [SavingNext]_saving_vars PROVE SavingInv'
    OBVIOUS
  <1>1. CASE UNCHANGED saving_vars
    BY <1>1 DEF saving_vars, history, SavingInv, TypeOK, SettingsHaveMarked, HasMarked, Progress, ImagesSound, WillBeSaved, Sound
  <1>2. CASE SavingNext
    BY <1>2, FlashWriteKeepsSavingInv, PowerFailsKeepsSavingInv, StartKeepsSavingInv, ChangesKeepSavingInv, SavesKeepSavingInv,
       CorePollKeepsSavingInv, TickKeepsSavingInv DEF SavingNext
  <1> QED
    BY <1>1, <1>2

LEMMA AlwaysSavingInv == SavingSpec => []SavingInv
    BY InitSavingInv, NextKeepsSavingInv, PTL DEF SavingSpec

-----------------------------------------------------------------------------
\* The variables keep their types (config.c, flashcfg.c).
THEOREM ConfigTypeCorrect == SavingSpec => []TypeOK
  <1>1. SavingInv => TypeOK
    BY DEF SavingInv
  <1> QED
    BY <1>1, AlwaysSavingInv, PTL

\* Every change that was marked for saving is in flash or is still to be saved,
\* and an orderly restart loses none that was marked before system_reset(),
\* whatever unmarked changes come in between and wherever power fails
\* (config_mark_for_saving, config_save, config_ensure_saved, on_system_reset).
THEOREM ChangesAlwaysKept == SavingSpec => []ChangesKept
  <1>1. SavingInv => ChangesKept
    BY DEF SavingInv, WillBeSaved, ChangesKept, Ready
  <1> QED
    BY <1>1, AlwaysSavingInv, PTL

\* Wherever power fails, a device does not run with an erased first sector as
\* its settings (config_init, flashcfg_save).
THEOREM NeverRunsErased == SavingSpec => []NeverErased
  <1>1. SavingInv => NeverErased
    BY DEF SavingInv, ImagesSound, Sound, NeverErased
  <1> QED
    BY <1>1, AlwaysSavingInv, PTL

-----------------------------------------------------------------------------
(***************************************************************************)
(* The buffer of the UART: the pointers agree with the number of bytes,    *)
(* and the buffer is a queue.                                              *)
(***************************************************************************)
\* What has to be known of a peek between its halves: the head that it has read
\* was the head when at least the bytes that it wants, and at most those that
\* are there now, were available.
PeekAgrees ==
    peek # NoPeek =>
        /\ peek.len \in 1..avail
        /\ \E a \in peek.len..avail : tail + a \in {peek.head, peek.head + Size}

PeekTyped == peek \in [len : Nat, head : 0..(Size - 1)]
DataTyped == data \in [0..(Size - 1) -> Bytes]

RingInv == PointersAgree /\ PeekTyped /\ PeekAgrees /\ DataTyped

-----------------------------------------------------------------------------
\* The two parts of a write: as much as there is room for, the first part up to
\* the end of the buffer when there is a second, which does not reach the tail.
LEMMA WriteParts ==
    ASSUME PointersAgree, NEW len \in Nat
    PROVE  /\ WriteLen1(len) \in Nat /\ WriteLen2(len) \in Nat
           /\ WriteLen1(len) + WriteLen2(len) = MinOf(len, Size - avail)
           /\ head + WriteLen1(len) <= Size
           /\ WriteLen2(len) > 0 => head + WriteLen1(len) = Size
           /\ WriteLen2(len) <= tail
           /\ head < tail => WriteLen2(len) = 0 /\ head + WriteLen1(len) <= tail
    BY RingBufferAssumption DEF PointersAgree, WriteLen1, WriteLen2, MinOf, Full

\* The two parts of a read or a peek, for the head h at which a bytes were
\* available: as much as there was.
LEMMA ReadParts ==
    ASSUME PointersAgree, NEW n \in Nat \ {0}, NEW h \in 0..(Size - 1), NEW a \in 0..avail,
           tail + a \in {h, h + Size}, tail = h => (a = 0 <=> avail = 0)
    PROVE  /\ ReadLen1(n, h) \in Nat /\ ReadLen2(n, h) \in Nat
           /\ ReadLen1(n, h) + ReadLen2(n, h) = MinOf(n, a)
           /\ tail + ReadLen1(n, h) <= Size
           /\ ReadLen2(n, h) > 0 => tail + ReadLen1(n, h) = Size
           /\ ReadLen2(n, h) <= h
           /\ ReadLen2(n, h) > 0 => h <= tail
    BY RingBufferAssumption DEF PointersAgree, ReadLen1, ReadLen2, MinOf

-----------------------------------------------------------------------------
LEMMA InitRingInv == RingInit => RingInv
    BY RingBufferAssumption DEF RingInit, RingInv, PointersAgree, PeekTyped, PeekAgrees, DataTyped, NoPeek

LEMMA WriteKeepsRingInv ==
    ASSUME RingInv, NEW len \in 1..MaxLen, NEW bytes \in [1..len -> Bytes], ring_buffer_write(bytes)
    PROVE  RingInv'
  <1>1. len \in Nat /\ Len(bytes) = len
    BY RingBufferAssumption
  <1> DEFINE l1 == WriteLen1(len)
             l2 == WriteLen2(len)
  <1>2. /\ l1 \in Nat /\ l2 \in Nat
        /\ l1 + l2 = MinOf(len, Size - avail)
        /\ head + l1 <= Size
        /\ l2 > 0 => head + l1 = Size
        /\ l2 <= tail
        /\ head < tail => l2 = 0 /\ head + l1 <= tail
    BY <1>1, WriteParts DEF RingInv
  <1>3. /\ data' = [i \in 0..(Size - 1) |->
                       IF head <= i /\ i < head + l1 THEN bytes[i - head + 1]
                       ELSE IF i < l2 THEN bytes[l1 + i + 1] ELSE data[i]]
        /\ head' = Advanced(head, l1, l2)
        /\ avail' = avail + l1 + l2
        /\ tail' = tail /\ peek' = peek
    BY <1>1 DEF ring_buffer_write
  <1> HIDE DEF l1, l2
  <1>4. /\ head \in 0..(Size - 1) /\ tail \in 0..(Size - 1) /\ avail \in 0..Size
        /\ tail + avail \in {head, head + Size} /\ Size \in Nat \ {0}
    BY RingBufferAssumption DEF RingInv, PointersAgree
  <1>5. l1 + l2 <= Size - avail /\ l1 + l2 <= len
    BY <1>1, <1>2, <1>4 DEF MinOf
  <1>6. PointersAgree'
    BY <1>2, <1>3, <1>4, <1>5 DEF PointersAgree, Advanced
  <1>7. PeekTyped' /\ PeekAgrees'
    <2>1. avail' \in avail..Size
      BY <1>2, <1>3, <1>4, <1>5
    <2>2. PeekTyped'
      BY <1>3 DEF RingInv, PeekTyped
    <2>3. ASSUME peek # NoPeek
          PROVE  PeekAgrees'
      <3>1. PICK a \in peek.len..avail : tail + a \in {peek.head, peek.head + Size}
        BY <2>3 DEF RingInv, PeekAgrees
      <3>2. peek.len \in 1..avail
        BY <2>3 DEF RingInv, PeekAgrees
      <3>3. a \in peek.len..avail' /\ peek.len \in 1..avail'
        BY <1>4, <2>1, <3>1, <3>2
      <3> QED
        BY <1>3, <3>1, <3>3 DEF PeekAgrees
    <2> QED
      BY <1>3, <2>2, <2>3 DEF PeekAgrees, NoPeek
  <1>8. DataTyped'
    <2>1. \A i \in 0..(Size - 1) : head <= i /\ i < head + l1 => bytes[i - head + 1] \in Bytes
      BY <1>1, <1>2, <1>4, <1>5
    <2>2. \A i \in 0..(Size - 1) : i < l2 => bytes[l1 + i + 1] \in Bytes
      BY <1>1, <1>2, <1>4, <1>5
    <2> QED
      BY <1>3, <2>1, <2>2 DEF RingInv, DataTyped
  <1> QED
    BY <1>6, <1>7, <1>8 DEF RingInv

LEMMA ReadKeepsRingInv ==
    ASSUME RingInv, NEW n \in 1..MaxLen, ring_buffer_read(n)
    PROVE  RingInv'
  <1> DEFINE l1 == ReadLen1(n, head)
             l2 == ReadLen2(n, head)
  <1>1. /\ head \in 0..(Size - 1) /\ tail \in 0..(Size - 1) /\ avail \in 0..Size
        /\ tail + avail \in {head, head + Size} /\ Size \in Nat \ {0} /\ n \in Nat \ {0}
    BY RingBufferAssumption DEF RingInv, PointersAgree
  <1>2. /\ l1 \in Nat /\ l2 \in Nat
        /\ l1 + l2 = MinOf(n, avail)
        /\ tail + l1 <= Size
        /\ l2 > 0 => tail + l1 = Size
        /\ l2 <= head
        /\ l2 > 0 => head <= tail
    BY <1>1, ReadParts DEF RingInv
  <1>3. /\ tail' = Advanced(tail, l1, l2)
        /\ avail' = avail - l1 - l2
        /\ head' = head /\ data' = data /\ peek' = peek /\ peek = NoPeek
    BY DEF ring_buffer_read
  <1> HIDE DEF l1, l2
  <1>4. PointersAgree'
    BY <1>1, <1>2, <1>3 DEF PointersAgree, Advanced, MinOf
  <1> QED
    BY <1>3, <1>4 DEF RingInv, PeekTyped, PeekAgrees, DataTyped, NoPeek

LEMMA PeekKeepsRingInv ==
    ASSUME RingInv, (\E n \in 1..MaxLen : PeekBegins(n)) \/ PeekCopies
    PROVE  RingInv'
  <1>1. CASE PeekCopies
    BY <1>1, RingBufferAssumption
       DEF PeekCopies, RingInv, PointersAgree, PeekTyped, PeekAgrees, DataTyped, NoPeek
  <1>2. ASSUME NEW n \in 1..MaxLen, PeekBegins(n)
        PROVE  RingInv'
    <2>1. /\ peek' = [len |-> n, head |-> head]
          /\ head' = head /\ tail' = tail /\ avail' = avail /\ data' = data
          /\ avail >= n /\ n \in Nat \ {0}
      BY <1>2, RingBufferAssumption DEF PeekBegins
    <2>2. /\ head \in 0..(Size - 1) /\ avail \in Nat
          /\ tail + avail \in {head, head + Size}
      BY RingBufferAssumption DEF RingInv, PointersAgree
    <2>3. peek'.len = n /\ peek'.head = head
      BY <2>1
    <2>4. avail \in n..avail /\ n \in 1..avail
      BY <2>1, <2>2
    <2>5. PeekAgrees'
      BY <2>1, <2>2, <2>3, <2>4 DEF PeekAgrees
    <2>6. PeekTyped'
      BY <2>1, <2>2 DEF PeekTyped
    <2> QED
      BY <2>1, <2>5, <2>6 DEF RingInv, PointersAgree, DataTyped
  <1> QED
    BY <1>1, <1>2

LEMMA NextKeepsRingInv == RingInv /\ [RingNext]_ring_vars => RingInv'
  <1> SUFFICES ASSUME RingInv, [RingNext]_ring_vars PROVE RingInv'
    OBVIOUS
  <1>1. CASE UNCHANGED ring_vars
    BY <1>1 DEF ring_vars, RingInv, PointersAgree, PeekTyped, PeekAgrees, DataTyped
  <1>2. CASE RingNext
    BY <1>2, WriteKeepsRingInv, ReadKeepsRingInv, PeekKeepsRingInv DEF RingNext
  <1> QED
    BY <1>1, <1>2

\* The pointers always agree with the number of bytes, however reads, peeks and
\* the interrupt handler's writes alternate (ringbuffer.c).
THEOREM PointersAlwaysAgree == RingSpec => []PointersAgree
  <1>1. RingSpec => []RingInv
    BY InitRingInv, NextKeepsRingInv, PTL DEF RingSpec
  <1>2. RingInv => PointersAgree
    BY DEF RingInv
  <1> QED
    BY <1>1, <1>2, PTL

-----------------------------------------------------------------------------
(* The refinement. *)

LEMMA QueueIsSeq ==
    ASSUME RingInv
    PROVE  Queue \in Seq(Bytes) /\ Len(Queue) = avail /\ (\A i \in 1..avail : Queue[i] = data[Place(i)])
  <1>1. \A i \in 1..avail : Place(i) \in 0..(Size - 1)
    BY RingBufferAssumption DEF RingInv, PointersAgree, Place
  <1>2. \A i \in 1..avail : data[Place(i)] \in Bytes
    BY <1>1 DEF RingInv, DataTyped
  <1>3. avail \in Nat
    BY RingBufferAssumption DEF RingInv, PointersAgree
  <1> QED
    BY <1>2, <1>3 DEF Queue

LEMMA InitMaps == RingInit => Promise!FifoInit
    BY DEF RingInit, Promise!FifoInit, Queue

\* What a read or a peek copies, for the head h at which a bytes were available:
\* the oldest bytes.
LEMMA CopiedIsOldest ==
    ASSUME RingInv, NEW n \in Nat \ {0}, NEW h \in 0..(Size - 1), NEW a \in 0..avail,
           tail + a \in {h, h + Size}, tail = h => (a = 0 <=> avail = 0)
    PROVE  Copied(n, h) = [i \in 1..MinOf(n, a) |-> data[Place(i)]]
  <1>1. /\ ReadLen1(n, h) \in Nat /\ ReadLen2(n, h) \in Nat
        /\ ReadLen1(n, h) + ReadLen2(n, h) = MinOf(n, a)
        /\ tail + ReadLen1(n, h) <= Size
        /\ ReadLen2(n, h) > 0 => tail + ReadLen1(n, h) = Size
    BY ReadParts DEF RingInv
  <1>2. tail \in 0..(Size - 1) /\ Size \in Nat
    BY RingBufferAssumption DEF RingInv, PointersAgree
  <1> DEFINE l1 == ReadLen1(n, h)
             l2 == ReadLen2(n, h)
  <1>3. Copied(n, h) = [i \in 1..(l1 + l2) |-> IF i <= l1 THEN data[tail + i - 1] ELSE data[i - l1 - 1]]
    BY DEF Copied
  <1> HIDE DEF l1, l2
  <1>4. \A i \in 1..(l1 + l2) : Place(i) = IF i <= l1 THEN tail + i - 1 ELSE i - l1 - 1
    BY <1>1, <1>2 DEF Place, l1, l2
  <1>5. l1 + l2 = MinOf(n, a)
    BY <1>1 DEF l1, l2
  <1> QED
    BY <1>3, <1>4, <1>5

LEMMA WriteMaps ==
    ASSUME RingInv, NEW len \in 1..MaxLen, NEW bytes \in [1..len -> Bytes], ring_buffer_write(bytes)
    PROVE  Promise!Writes(bytes)
  <1>1. len \in Nat /\ Len(bytes) = len /\ bytes \in Seq(Bytes)
    BY RingBufferAssumption
  <1> DEFINE l1 == WriteLen1(len)
             l2 == WriteLen2(len)
             F  == Promise!Fitting(bytes)
  <1>2. /\ l1 \in Nat /\ l2 \in Nat
        /\ l1 + l2 = MinOf(len, Size - avail)
        /\ head + l1 <= Size
        /\ l2 > 0 => head + l1 = Size
        /\ l2 <= tail
        /\ head < tail => l2 = 0 /\ head + l1 <= tail
    BY <1>1, WriteParts DEF RingInv
  <1>3. /\ data' = [i \in 0..(Size - 1) |->
                       IF head <= i /\ i < head + l1 THEN bytes[i - head + 1]
                       ELSE IF i < l2 THEN bytes[l1 + i + 1] ELSE data[i]]
        /\ avail' = avail + l1 + l2 /\ tail' = tail /\ got' = got /\ taken' = l1 + l2
    BY <1>1 DEF ring_buffer_write
  <1>4. /\ head \in 0..(Size - 1) /\ tail \in 0..(Size - 1) /\ avail \in 0..Size
        /\ tail + avail \in {head, head + Size} /\ Size \in Nat \ {0}
    BY RingBufferAssumption DEF RingInv, PointersAgree
  <1>5. Queue \in Seq(Bytes) /\ Len(Queue) = avail /\ (\A i \in 1..avail : Queue[i] = data[Place(i)])
    BY QueueIsSeq
  <1>6. F \in Seq(Bytes) /\ Len(F) = l1 + l2 /\ (\A i \in 1..(l1 + l2) : F[i] = bytes[i])
    <2> DEFINE room == Size - avail
    <2>1. room \in Nat /\ F = IF len <= room THEN bytes ELSE SubSeq(bytes, 1, room)
      BY <1>1, <1>4, <1>5 DEF Promise!Fitting
    <2>2. l1 + l2 = IF len <= room THEN len ELSE room
      BY <1>2 DEF MinOf
    <2> HIDE DEF room, l1, l2, F
    <2>3. CASE len <= room
      BY <1>1, <2>1, <2>2, <2>3
    <2>4. CASE ~(len <= room)
      <3>1. /\ SubSeq(bytes, 1, room) \in Seq(Bytes) /\ Len(SubSeq(bytes, 1, room)) = room
            /\ \A i \in 1..room : SubSeq(bytes, 1, room)[i] = bytes[i]
        BY <1>1, <2>1, <2>4
      <3> QED
        BY <2>1, <2>2, <2>4, <3>1
    <2> QED
      BY <2>3, <2>4
  <1> HIDE DEF l1, l2, F
  <1>7. \A i \in 1..avail : data'[Place(i)] = data[Place(i)]
    <2> SUFFICES ASSUME NEW i \in 1..avail PROVE data'[Place(i)] = data[Place(i)]
      OBVIOUS
    <2>1. Place(i) \in 0..(Size - 1) /\ ~(head <= Place(i) /\ Place(i) < head + l1) /\ ~(Place(i) < l2)
      BY <1>2, <1>4, RingBufferAssumption DEF Place, MinOf
    <2> QED
      BY <1>3, <2>1
  <1>8. \A j \in 1..(l1 + l2) : data'[Place(avail + j)] = bytes[j]
    <2> SUFFICES ASSUME NEW j \in 1..(l1 + l2) PROVE data'[Place(avail + j)] = bytes[j]
      OBVIOUS
    <2>1. j <= l1 => Place(avail + j) = head + j - 1
      BY <1>2, <1>4 DEF Place, MinOf
    <2>2. j > l1 => Place(avail + j) = j - l1 - 1 /\ ~(head <= j - l1 - 1) /\ j - l1 - 1 < l2
      BY <1>2, <1>4 DEF Place, MinOf
    <2>3. CASE j <= l1
      BY <1>2, <1>3, <1>4, <2>1, <2>3
    <2>4. CASE j > l1
      BY <1>2, <1>3, <1>4, <2>2, <2>4
    <2> QED
      BY <1>2, <2>3, <2>4
  <1>9. Queue' = [i \in 1..(avail + l1 + l2) |-> data'[Place(i)]]
    BY <1>3 DEF Queue, Place
  <1>10. /\ Queue \o F \in Seq(Bytes) /\ Len(Queue \o F) = avail + l1 + l2
         /\ \A i \in 1..(avail + l1 + l2) :
                (Queue \o F)[i] = IF i <= avail THEN Queue[i] ELSE F[i - avail]
    <2>1. Queue \o F \in Seq(Bytes)
      BY <1>5, <1>6
    <2>2. Len(Queue \o F) = Len(Queue) + Len(F)
      BY <1>5, <1>6
    <2>3. \A i \in 1..(Len(Queue) + Len(F)) :
            (Queue \o F)[i] = IF i <= Len(Queue) THEN Queue[i] ELSE F[i - Len(Queue)]
      BY <1>5, <1>6, ConcatProperties
    <2>4. Len(Queue) + Len(F) = avail + l1 + l2
      BY <1>2, <1>4, <1>5, <1>6
    <2> QED
      BY <1>5, <2>1, <2>2, <2>3, <2>4
  <1>11. \A i \in 1..(avail + l1 + l2) :
            data'[Place(i)] = IF i <= avail THEN Queue[i] ELSE F[i - avail]
    <2> SUFFICES ASSUME NEW i \in 1..(avail + l1 + l2)
                 PROVE  data'[Place(i)] = IF i <= avail THEN Queue[i] ELSE F[i - avail]
      OBVIOUS
    <2>1. CASE i <= avail
      BY <1>4, <1>5, <1>7, <2>1
    <2>2. CASE i > avail
      <3>1. i - avail \in 1..(l1 + l2) /\ avail + (i - avail) = i
        BY <1>2, <1>4, <2>2
      <3> QED
        BY <1>4, <1>6, <1>8, <2>2, <3>1
    <2> QED
      BY <1>4, <2>1, <2>2
  <1>12. Queue' = Queue \o F
    <2>1. Queue' \in Seq(Bytes) /\ Len(Queue') = avail + l1 + l2
      <3>1. \A i \in 1..(avail + l1 + l2) : data'[Place(i)] \in Bytes
        <4>1. \A i \in 1..(avail + l1 + l2) : (Queue \o F)[i] \in Bytes
          BY <1>10, ElementOfSeq
        <4> QED
          BY <1>10, <1>11, <4>1
      <3>2. avail + l1 + l2 \in Nat
        BY <1>2, <1>4
      <3> QED
        BY <1>9, <3>1, <3>2
    <2>2. \A i \in 1..(avail + l1 + l2) : Queue'[i] = (Queue \o F)[i]
      BY <1>9, <1>10, <1>11
    <2> QED
      BY <1>10, <2>1, <2>2, SeqEqual
  <1> QED
    BY <1>3, <1>6, <1>12 DEF Promise!Writes, F

LEMMA ReadMaps ==
    ASSUME RingInv, NEW n \in 1..MaxLen, ring_buffer_read(n)
    PROVE  Promise!Reads(n)
  <1>1. /\ head \in 0..(Size - 1) /\ tail \in 0..(Size - 1) /\ avail \in 0..Size
        /\ tail + avail \in {head, head + Size} /\ Size \in Nat \ {0} /\ n \in Nat \ {0}
    BY RingBufferAssumption DEF RingInv, PointersAgree
  <1> DEFINE l1 == ReadLen1(n, head)
             l2 == ReadLen2(n, head)
             k  == MinOf(n, avail)
  <1>2. /\ l1 \in Nat /\ l2 \in Nat /\ l1 + l2 = k
        /\ tail + l1 <= Size
        /\ l2 > 0 => tail + l1 = Size
        /\ l2 <= head
    <2>1. avail \in 0..avail /\ head \in 0..(Size - 1)
      BY <1>1
    <2> QED
      BY <1>1, <2>1, ReadParts DEF RingInv
  <1>3. /\ tail' = Advanced(tail, l1, l2) /\ avail' = avail - l1 - l2
        /\ data' = data /\ taken' = taken /\ got' = Copied(n, head)
    BY DEF ring_buffer_read
  <1>4. Copied(n, head) = [i \in 1..k |-> data[Place(i)]]
    BY <1>1, CopiedIsOldest
  <1>5. Queue \in Seq(Bytes) /\ Len(Queue) = avail /\ (\A i \in 1..avail : Queue[i] = data[Place(i)])
    BY QueueIsSeq
  <1>6. k \in 0..avail /\ k <= n /\ (n < avail => k = n) /\ (~(n < avail) => k = avail)
    BY <1>1 DEF MinOf
  <1> HIDE DEF l1, l2, k
  <1>7. got' = Promise!First(n)
    <2>1. CASE n < avail
      <3>1. SubSeq(Queue, 1, n) = [i \in 1..n |-> Queue[i]]
        BY <1>1, <1>5, <2>1
      <3> QED
        BY <1>1, <1>3, <1>4, <1>5, <1>6, <2>1, <3>1 DEF Promise!First
    <2>2. CASE ~(n < avail)
      <3>1. Queue = [i \in 1..avail |-> data[Place(i)]]
        BY DEF Queue
      <3> QED
        BY <1>3, <1>4, <1>5, <1>6, <2>2, <3>1 DEF Promise!First
    <2> QED
      BY <2>1, <2>2
  <1>8. Len(got') = k
    BY <1>1, <1>3, <1>4, <1>6
  <1>9. SubSeq(Queue, k + 1, avail) = [i \in 1..(avail - k) |-> Queue[i + k]]
    BY <1>1, <1>5, <1>6
  <1>10. /\ avail' = avail - k
         /\ tail' = IF tail + k >= Size THEN l2 ELSE tail + k
    BY <1>1, <1>2, <1>3 DEF Advanced
  <1>11. \A i \in 1..(avail - k) : Place(i)' = Place(i + k)
    BY <1>1, <1>2, <1>6, <1>10 DEF Place
  <1>12. Queue' = [i \in 1..(avail - k) |-> data[Place(i)']]
    BY <1>3, <1>10 DEF Queue
  <1>13. \A i \in 1..(avail - k) : Queue[i + k] = data[Place(i)']
    BY <1>1, <1>5, <1>6, <1>11
  <1>14. Queue' = SubSeq(Queue, k + 1, avail)
    BY <1>9, <1>12, <1>13
  <1> QED
    BY <1>3, <1>5, <1>7, <1>8, <1>14 DEF Promise!Reads

\* A peek gives the bytes that it was asked for, which were there before it read
\* the head.
LEMMA PeekMaps ==
    ASSUME RingInv, PeekCopies, peek.len <= MaxLen
    PROVE  \E n \in 1..MaxLen : Promise!Peeks(n)
  <1>1. /\ head \in 0..(Size - 1) /\ tail \in 0..(Size - 1) /\ avail \in 0..Size
        /\ Size \in Nat \ {0} /\ MaxLen \in Nat
    BY RingBufferAssumption DEF RingInv, PointersAgree
  <1>2. /\ peek # NoPeek
        /\ got' = Copied(peek.len, peek.head)
        /\ UNCHANGED <<data, tail, avail, taken>>
    BY DEF PeekCopies
  <1>3. peek.len \in 1..avail /\ peek.head \in 0..(Size - 1)
    BY <1>2 DEF RingInv, PeekAgrees, PeekTyped
  <1>4. PICK a \in peek.len..avail : tail + a \in {peek.head, peek.head + Size}
    BY <1>2 DEF RingInv, PeekAgrees
  <1> DEFINE n == peek.len
  <1>5. n \in Nat \ {0} /\ a \in 0..avail /\ n <= a /\ a # 0 /\ avail # 0 /\ n <= avail
    BY <1>1, <1>3, <1>4
  <1>6. MinOf(n, a) = n
    BY <1>5 DEF MinOf
  <1>7. got' = [i \in 1..n |-> data[Place(i)]]
    <2>1. Copied(n, peek.head) = [i \in 1..MinOf(n, a) |-> data[Place(i)]]
      BY <1>3, <1>4, <1>5, CopiedIsOldest
    <2> QED
      BY <1>2, <1>6, <2>1
  <1>8. Queue \in Seq(Bytes) /\ Len(Queue) = avail /\ (\A i \in 1..avail : Queue[i] = data[Place(i)])
    BY QueueIsSeq
  <1> HIDE DEF n
  <1>9. got' = Promise!First(n)
    <2>1. CASE n < avail
      <3>1. SubSeq(Queue, 1, n) = [i \in 1..n |-> Queue[i]]
        BY <1>1, <1>5, <1>8
      <3> QED
        BY <1>1, <1>5, <1>7, <1>8, <2>1, <3>1 DEF Promise!First
    <2>2. CASE n = avail
      <3>1. Queue = [i \in 1..avail |-> data[Place(i)]]
        BY DEF Queue
      <3> QED
        BY <1>1, <1>7, <1>8, <2>2, <3>1 DEF Promise!First
    <2> QED
      BY <1>1, <1>5, <2>1, <2>2
  <1>10. Queue' = Queue
    BY <1>2 DEF Queue, Place
  <1>11. n \in 1..MaxLen
    BY <1>1, <1>5 DEF n
  <1> QED
    BY <1>2, <1>9, <1>10, <1>11 DEF Promise!Peeks

\* Peeks are as long as the bound allows.
PeekBounded == peek.len <= MaxLen

LEMMA NextMaps ==
    ASSUME RingInv, PeekBounded, [RingNext]_ring_vars
    PROVE  [Promise!FifoNext]_<<Queue, got, taken>>
  <1>1. ASSUME NEW len \in 1..MaxLen, NEW bytes \in [1..len -> Bytes], ring_buffer_write(bytes)
        PROVE  Promise!FifoNext
    BY <1>1, WriteMaps DEF Promise!FifoNext
  <1>2. ASSUME NEW n \in 1..MaxLen, ring_buffer_read(n)
        PROVE  Promise!FifoNext
    BY <1>2, ReadMaps DEF Promise!FifoNext
  <1>3. ASSUME NEW n \in 1..MaxLen, PeekBegins(n)
        PROVE  UNCHANGED <<Queue, got, taken>>
    BY <1>3 DEF PeekBegins, Queue, Place
  <1>4. ASSUME PeekCopies
        PROVE  Promise!FifoNext
    BY <1>4, PeekMaps DEF Promise!FifoNext, PeekBounded
  <1>5. CASE UNCHANGED ring_vars
    BY <1>5 DEF ring_vars, Queue, Place
  <1> QED
    BY <1>1, <1>2, <1>3, <1>4, <1>5 DEF RingNext

LEMMA PeekStaysBounded == PeekBounded /\ [RingNext]_ring_vars => PeekBounded'
    BY RingBufferAssumption
       DEF PeekBounded, RingNext, ring_vars, ring_buffer_write, ring_buffer_read, PeekBegins, PeekCopies, NoPeek

\* The buffer is a queue of its size: a peek and a read give the oldest bytes
\* in their order, and a write that does not fit puts in what fits, also when
\* the interrupt handler writes while a peek copies (ringbuffer.c, uart.c).
THEOREM BufferIsQueue == RingSpec => ImplementsFifo
  <1>1. RingSpec => []RingInv
    BY InitRingInv, NextKeepsRingInv, PTL DEF RingSpec
  <1>2. RingInit => PeekBounded
    BY RingBufferAssumption DEF RingInit, PeekBounded, NoPeek
  <1>3. RingSpec => []PeekBounded
    BY <1>2, PeekStaysBounded, PTL DEF RingSpec
  <1>4. RingInv /\ PeekBounded /\ [RingNext]_ring_vars => [Promise!FifoNext]_<<Queue, got, taken>>
    BY NextMaps
  <1> QED
    BY <1>1, <1>3, <1>4, InitMaps, PTL DEF RingSpec, ImplementsFifo, Promise!FifoSpec
=============================================================================
