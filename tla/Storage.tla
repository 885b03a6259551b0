------------------------------ MODULE Storage -------------------------------
(***************************************************************************)
(* What the device is made of - peripherals, the ports they make, virtual  *)
(* ports, its own attributes - and how it is changed as a whole, saved and *)
(* restored: ports.c, virtual.c, peripherals.c, stringpool.c, config.c and *)
(* device.c, with the calls of api.c that add, remove or replace them.     *)
(*                                                                         *)
(* Everything that a call changes is in the record ram, so that a call     *)
(* made by another (a provisioning is a sequence of them) is an operator   *)
(* from a ram to an outcome [ram, ok].  The configuration in flash is the  *)
(* record image; a string is in one cell of its pool, whatever its length. *)
(*                                                                         *)
(* Module Config models when the configuration is saved and what happens   *)
(* when power fails meanwhile; here a save and a restart take one step.    *)
(* All calls are made by an administrator; module Dispatch models who may. *)
(***************************************************************************)
EXTENDS Integers, SequencesExt

CONSTANTS
    Extra0, Virtual0, VirtualMax,  \* PORT_SLOT_EXTRA0, PORT_SLOT_VIRTUAL0, VIRTUAL_MAX_PORTS
    PeripheralMax,                 \* PERIPHERAL_MAX_NUM
    PoolSize,                      \* CONFIG_STR_SIZE, in strings
    PortsOf,                       \* for each type of peripheral, the sequence of ports its make_ports() makes
    Values,                        \* values of ports
    NewPorts, PortChanges, PortConfigs, PeripheralLists, Provisionings, SystemChanges, DeviceChanges,
                                   \* bodies of requests, see the operators that take them
    CustomNames,                   \* names of configurations that begin with "custom/"
    NoPart,                        \* a part that a request, or the image, does not have
    Budget                         \* bound: number of requests, changes of values and restarts

ASSUME StorageAssumption ==
    /\ Extra0 \in Nat /\ Virtual0 \in Nat /\ Extra0 <= Virtual0
    /\ VirtualMax \in Nat \ {0} /\ PeripheralMax \in Nat \ {0} /\ PoolSize \in Nat \ {0} /\ Budget \in Nat

NoString == "NULL"   \* a string that is not set

\* The flags that a port has from its driver and that no request changes.
DriverFlags == {"virtual", "writable", "number"}

\* The bodies of requests: no attribute of a port that is its driver's, strings for
\* those of the device, and only types of peripherals that there are.  Anything else
\* makes them not valid, or is a change of "invalid".
IsSeq(s) == s \in Seq(Range(s))
PortChangesOk(changes)   == IsSeq(changes) /\ \A c \in Range(changes) : c[1] \notin DriverFlags
PortConfigsOk(configs)   == IsSeq(configs) /\ \A c \in Range(configs) : PortChangesOk(c.changes)
DeviceChangesOk(changes) ==
    IsSeq(changes) /\ \A c \in Range(changes) :
        c[1] # "invalid" => c[1] \in {"name", "display_name", "config_name"} /\ c[2] # NoString
PeripheralListOk(list)   ==
    IsSeq(list) /\ \A p \in Range(list) :
        p.valid => p.type \in DOMAIN PortsOf /\ [type |-> p.type, params |-> p.params] # NoPart
ProvisioningOk(config)   ==
    /\ config.device # NoPart => DeviceChangesOk(config.device)
    /\ config.peripherals # NoPart => PeripheralListOk(config.peripherals)
    /\ config.ports # NoPart => PortConfigsOk(config.ports)

ASSUME RequestsAssumption ==
    /\ \A type \in DOMAIN PortsOf :
           IsSeq(PortsOf[type]) /\ \A p \in Range(PortsOf[type]) :
               p.slot \in -1..(Virtual0 - 1) /\ p.flags \subseteq DriverFlags \ {"virtual"}
    /\ \A changes \in PortChanges : PortChangesOk(changes)
    /\ \A configs \in PortConfigs : PortConfigsOk(configs)
    /\ \A list \in PeripheralLists : PeripheralListOk(list)
    /\ \A changes \in DeviceChanges : DeviceChangesOk(changes)
    /\ \A config \in Provisionings : ProvisioningOk(config)

VARIABLES
    ram,     \* the state in memory; and, as system_slot, FLASH_CONFIG_SLOT_SYSTEM
    image,   \* FLASH_CONFIG_SLOT_DEFAULT
    request, \* config_start_auto_provisioning() waits for its answer
    stored,  \* history: what the last save had to save and whether it all fitted
    budget

vars == <<ram, image, request, stored, budget>>

Undefined == "undefined"   \* a value of a port
Default   == "espqtoggle"  \* the name of a device that has none

VirtualSlots == Virtual0..(Virtual0 + VirtualMax - 1)
Slots        == 0..(Virtual0 + VirtualMax - 1)
Device       == -1         \* in a location of the image, in the place of a slot

DummyId(slot) == "port" \o ToString(slot)
-----------------------------------------------------------------------------
(***************************************************************************)
(* The string pool.  A location is a field of a port's or of the device's  *)
(* part of the image, which holds the offset of its string; 0 for none.    *)
(***************************************************************************)
Locations == Slots \X {"id", "display_name"} \cup {Device} \X {"name", "display_name", "config_name"}

string_pool_read(img, location) ==
    IF img.offset[location] = 0 THEN NoString ELSE img.pool[img.offset[location]]

\* A string that does not fit leaves at its location the offset that was there.
string_pool_write(img, location, string) ==
    IF string = NoString THEN [img EXCEPT !.offset[location] = 0]
    ELSE IF img.strings_offs > PoolSize THEN [img EXCEPT !.fits = FALSE]
    ELSE [img EXCEPT !.offset[location] = img.strings_offs, !.pool[img.strings_offs] = string,
                     !.strings_offs = @ + 1]

\* The image of a device with its defaults: zeros.
Zeros == [peripherals |-> [i \in 1..PeripheralMax |-> NoPart],
          flags |-> [s \in Slots |-> {}], value |-> [s \in Slots |-> Undefined],
          version |-> 0, offset |-> [l \in Locations |-> 0], pool |-> [o \in 1..PoolSize |-> NoString],
          strings_offs |-> 1, fits |-> TRUE]

-----------------------------------------------------------------------------
(***************************************************************************)
(* Ports.  A virtual port has no peripheral: 0.                            *)
(***************************************************************************)
IsVirtual(p) == "virtual" \in p.flags

port_new == [slot |-> -1, id |-> NoString, peripheral |-> 0, flags |-> {}, value |-> Undefined,
             display_name |-> NoString, integer |-> FALSE]

HasId(r, id)  == \E i \in DOMAIN r.ports : r.ports[i].id = id
Find(r, id)   == SelectInSeq(r.ports, LAMBDA p : p.id = id)
Busy(r, slot) == slot \in r.used_slots

port_register(r, p) ==
    [r EXCEPT !.ports = Append(@, IF p.id = NoString THEN [p EXCEPT !.id = DummyId(p.slot)] ELSE p),
              !.used_slots = @ \cup {p.slot}]

\* Mutant: the slot stays busy.
port_unregister_KeepsSlot(r, i) == [r EXCEPT !.ports = RemoveAt(@, i)]

port_unregister(r, i) == [r EXCEPT !.ports = RemoveAt(@, i), !.used_slots = @ \ {r.ports[i].slot}]

\* The slot for a port of a peripheral: an extra one, or else a regular one.
FreeSlots(r)       == (0..(Virtual0 - 1)) \ r.used_slots
ports_next_slot(r) ==
    LET extra == {s \in FreeSlots(r) : s >= Extra0}
    IN  Min(IF extra = {} THEN FreeSlots(r) ELSE extra)

virtual_find_unused_slot(r) == Min(VirtualSlots \ r.used_slots)

\* virtual_port_register() and port_register()
RegisterVirtual(r, p) ==
    port_register(r, [p EXCEPT !.slot = IF p.slot < 0 THEN virtual_find_unused_slot(r) ELSE p.slot,
                               !.flags = @ \cup {"virtual", "writable"}])

-----------------------------------------------------------------------------
(***************************************************************************)
(* Peripherals.  ids are those for the ports, as far as there are any.     *)
(* When slots run out the port without one is freed and those after it are *)
(* not registered.  (The code then sets the freed port's id too, if there  *)
(* is one for it; that is undefined, and shows, if at all, as a restart.)  *)
(***************************************************************************)
RegisterPort(r, p, index, id) ==
    LET wanted == p.slot >= 0 /\ ~Busy(r, p.slot)
    IN  IF FreeSlots(r) = {} THEN r
        ELSE port_register(r, [port_new EXCEPT !.slot = IF wanted THEN p.slot ELSE ports_next_slot(r),
                                               !.id = id, !.peripheral = index, !.flags = p.flags])

peripheral_make_ports(r, index, type, ids) ==
    FoldLeftDomain(LAMBDA s, i : RegisterPort(s, PortsOf[type][i], index,
                                              IF i <= Len(ids) THEN ids[i] ELSE NoString),
                   r, PortsOf[type])

peripheral_register(r, peripheral) == [r EXCEPT !.peripherals = Append(@, peripheral)]

-----------------------------------------------------------------------------
(***************************************************************************)
(* Loading, when the device starts.                                        *)
(***************************************************************************)
device_load(img) ==
    LET name   == string_pool_read(img, <<Device, "name">>)
        String(field) == LET s == string_pool_read(img, <<Device, field>>) IN IF s = NoString THEN "" ELSE s
    IN  [name |-> IF name = NoString THEN Default ELSE name, display_name |-> String("display_name"),
         config_name |-> String("config_name"), version |-> img.version]

\* Peripherals are those before the first index that has none.
peripherals_init(r, img) ==
    LET count == Cardinality({i \in 1..PeripheralMax : \A j \in 1..i : img.peripherals[j] # NoPart})
    IN  FoldLeftDomain(
            LAMBDA s, i : peripheral_make_ports(peripheral_register(s, img.peripherals[i]), i,
                                                img.peripherals[i].type, <<>>),
            r, SubSeq(img.peripherals, 1, count))

init_virtual_port(r, img, slot) ==
    RegisterVirtual(r, [port_new EXCEPT !.slot = slot, !.flags = img.flags[slot] \cap {"number"},
                                        !.integer = "integer" \in img.flags[slot]])

virtual_ports_init(r, img) ==
    FoldLeft(LAMBDA s, slot : IF "virtual" \in img.flags[slot] THEN init_virtual_port(s, img, slot) ELSE s,
             r, [n \in 1..VirtualMax |-> Virtual0 + n - 1])

port_load(p, img) ==
    LET id    == string_pool_read(img, <<p.slot, "id">>)
        flags == p.flags \cup img.flags[p.slot]
    IN  [p EXCEPT !.id = IF id = NoString THEN DummyId(p.slot) ELSE id,
                  !.display_name = string_pool_read(img, <<p.slot, "display_name">>),
                  !.flags = flags,
                  !.value = IF "persisted" \in flags THEN img.value[p.slot] ELSE @]

\* A port that cannot be written starts without a value.  (What a port of a
\* peripheral that can be written reads is left out: it is Undefined.)
InitialValue(p) == [p EXCEPT !.value = IF "writable" \in p.flags THEN @ ELSE Undefined]

ports_init(r, img) ==
    LET all == virtual_ports_init(r, img)
    IN  [all EXCEPT !.ports = [i \in DOMAIN @ |-> InitialValue(port_load(@[i], img))]]

\* The state in memory after config_init() and, for slot, the system's part of
\* the flash, system_config_load().
Loaded(img, slot) ==
    ports_init(peripherals_init([ports |-> <<>>, used_slots |-> {}, peripherals |-> <<>>,
                                 device |-> device_load(img), system |-> slot, system_slot |-> slot,
                                 provisioning |-> FALSE, needs_saving |-> FALSE, connected |-> FALSE], img), img)

-----------------------------------------------------------------------------
(***************************************************************************)
(* Saving, over what the flash holds.                                      *)
(***************************************************************************)
peripherals_save(r, img) ==
    [img EXCEPT !.peripherals = [i \in 1..PeripheralMax |->
                                     IF i <= Len(r.peripherals) THEN r.peripherals[i] ELSE NoPart]]

port_save(img, p) ==
    string_pool_write(
        string_pool_write([img EXCEPT !.flags[p.slot] = p.flags, !.value[p.slot] = p.value],
                          <<p.slot, "id">>, p.id),
        <<p.slot, "display_name">>, p.display_name)

\* Mutant: the slots that are not busy keep their mark.
virtual_ports_save_KeepsMarks(r, img) ==
    [img EXCEPT !.flags = [s \in Slots |->
        IF s \in VirtualSlots /\ Busy(r, s) THEN @[s] \cup {"virtual"} ELSE @[s]]]

virtual_ports_save(r, img) ==
    [img EXCEPT !.flags = [s \in Slots |->
        IF s \notin VirtualSlots THEN @[s]
        ELSE IF Busy(r, s) THEN @[s] \cup {"virtual"} ELSE @[s] \ {"virtual"}]]

ports_save(r, img) == virtual_ports_save(r, FoldLeft(port_save, img, r.ports))

device_save(r, img) ==
    FoldLeft(LAMBDA i, field : string_pool_write(i, <<Device, field>>, r.device[field]),
             [img EXCEPT !.version = r.device.version], <<"name", "display_name", "config_name">>)

Saved(r, img) == device_save(r, ports_save(r, peripherals_save(r, img)))

\* config_save() loads the image, and the pool is written from its beginning.
Flash(img) == [img EXCEPT !.strings_offs = 1, !.fits = TRUE]

\* config_factory_reset(): nothing is kept but the name of the configuration.
FactoryImage(r) ==
    Flash(string_pool_write(Zeros, <<Device, "config_name">>, r.device.config_name))

-----------------------------------------------------------------------------
(***************************************************************************)
(* The calls.  An outcome is [ram, ok]: ok for a status of 2xx.            *)
(***************************************************************************)
Refused(r) == [ram |-> r, ok |-> FALSE]
Done(r)    == [ram |-> r, ok |-> TRUE]
Marked(r)  == Done([r EXCEPT !.needs_saving = TRUE])

\* The members of seq that pass the test, in order.
Those(Test(_), seq) == FoldLeft(LAMBDA kept, e : IF Test(e) THEN Append(kept, e) ELSE kept, <<>>, seq)

\* The outcome of doing Step for each member of seq, up to the first that fails.
InTurn(Step(_, _), r, seq) ==
    FoldLeft(LAMBDA outcome, e : IF outcome.ok THEN Step(outcome.ram, e) ELSE outcome, Done(r), seq)

\* A new port: its id, whether it is a number and an integer, and whether its
\* fields are valid.
PostRefused(r, new) == VirtualSlots \subseteq r.used_slots \/ ~new.valid \/ HasId(r, new.id)

api_post_ports(r, new) ==
    IF PostRefused(r, new) THEN Refused(r)
    ELSE Marked(RegisterVirtual(r, [port_new EXCEPT !.id = new.id, !.integer = new.integer,
                    !.flags = {"enabled"} \cup IF new.number THEN {"number"} ELSE {}]))

api_delete_port(r, i) ==
    IF IsVirtual(r.ports[i]) THEN Marked(port_unregister(r, i)) ELSE Refused(r)

\* A change of a port: the name of an attribute and its value; no value is valid
\* for "invalid".
Flag(p, flag, on) == [p EXCEPT !.flags = IF on = "true" THEN @ \cup {flag} ELSE @ \ {flag}]

api_patch_port(r, i, changes) ==
    LET Change(s, c) ==
            CASE c[1] = "invalid"      -> Refused(s)
              [] c[1] = "display_name" -> Done([s EXCEPT !.ports[i].display_name = c[2]])
              [] OTHER                 -> Done([s EXCEPT !.ports[i] = Flag(@, c[1], c[2])])
        changed == InTurn(Change, r, changes)
    IN  IF changed.ok THEN Marked(changed.ram) ELSE changed

DeviceChange(r, c) ==
    CASE c[1] = "invalid"     -> Refused(r)
      [] c[1] = "config_name" -> Done([r EXCEPT !.device.config_name = c[2], !.device.version = 0])
      [] OTHER                -> Done([r EXCEPT !.device[c[1]] = c[2]])

\* The device, with the changes in order, is marked for saving in any case.
api_patch_device(r, changes) == [InTurn(DeviceChange, r, changes) EXCEPT !.ram.needs_saving = TRUE]

\* The name and version of the configuration are for what a provisioning made.
ClearConfigName(r) == [r EXCEPT !.device.config_name = "", !.device.version = 0]
Unprovisioned(r)   == IF r.provisioning THEN r ELSE ClearConfigName(r)

system_config_save(r) == [r EXCEPT !.system_slot = r.system]

\* A change of the system: the pins of the button and of the LED.  An LED that
\* is not given takes the pin of the button.
api_patch_system(r, change) ==
    LET button == [r EXCEPT !.system.button = change.button]
        led    == [button EXCEPT !.system.led = IF change.led = NoPart THEN change.button ELSE change.led]
    IN  IF change.button = "invalid" THEN Refused(r)
        ELSE IF change.led = "invalid" THEN Refused(button)
        ELSE Done(system_config_save(Unprovisioned(led)))

\* A list of peripherals: for each its type and parameters, the ids of its
\* ports, and whether its fields are valid.
RemovePorts(r, removed) ==
    [r EXCEPT !.ports = Those(LAMBDA p : p \notin removed, @),
              !.used_slots = @ \ {p.slot : p \in removed}]

CreatePeripheral(r, p) ==
    IF ~p.valid THEN Refused(r)
    ELSE Done(peripheral_make_ports(peripheral_register(r, [type |-> p.type, params |-> p.params]),
                                    Len(r.peripherals) + 1, p.type, p.ids))

api_put_peripherals(r, list) ==
    LET removed == [RemovePorts(r, {p \in Range(r.ports) : ~IsVirtual(p)}) EXCEPT !.peripherals = <<>>]
        created == InTurn(CreatePeripheral, removed, list)
    IN  IF Len(list) > PeripheralMax THEN Refused(r)
        ELSE IF created.ok THEN Marked(Unprovisioned(created.ram)) ELSE created

\* The configuration of a port: its id, if it has one, whether it is virtual and
\* then what a new port has, and the changes to make.  (Its value is left out.)
ApplyPort(r, config) ==
    LET here    == HasId(r, config.id)
        deleted == IF config.virtual /\ here THEN api_delete_port(r, Find(r, config.id)) ELSE Done(r)
        posted  == IF config.virtual THEN api_post_ports(deleted.ram, config) ELSE deleted
        patched == IF HasId(posted.ram, config.id)
                   THEN api_patch_port(posted.ram, Find(posted.ram, config.id), config.changes) ELSE posted
    IN  IF config.id = NoString THEN Done(r)
        ELSE [patched EXCEPT !.ok = deleted.ok /\ posted.ok /\ patched.ok]

ApplyPorts(r, configs) == InTurn(ApplyPort, r, configs)

\* PUT /ports makes the ports anew: those of peripherals, with the ids they had,
\* and then what is asked for.
\* Mutant: the ids of all peripherals in one list.
PortIds_OneList(r, index) ==
    LET owned == Those(LAMBDA p : ~IsVirtual(p), r.ports)
    IN  [i \in DOMAIN owned |-> owned[i].id]

PortIds(r, index) ==
    LET owned == Those(LAMBDA p : p.peripheral = index, r.ports)
    IN  [i \in DOMAIN owned |-> owned[i].id]

Recreated(r) ==
    FoldLeftDomain(LAMBDA s, i : peripheral_make_ports(s, i, r.peripherals[i].type, PortIds(r, i)),
                   RemovePorts(r, Range(r.ports)), r.peripherals)

api_put_ports(r, configs) ==
    LET applied == ApplyPorts(Recreated(r), configs)
    IN  IF applied.ok THEN Marked(applied.ram) ELSE applied

-----------------------------------------------------------------------------
(***************************************************************************)
(* Provisioning: a version, whether it needs a newer firmware, and parts   *)
(* for the device, the peripherals, the system and the ports, in order.    *)
(***************************************************************************)
ProvisionDevice(r, changes) ==
    api_patch_device(r, Those(LAMBDA c :
        c[1] # "name" /\ (c[1] = "display_name" => r.device.display_name = ""), changes))

ProvisionPart(r, config, part) ==
    IF config[part] = NoPart THEN Done(r)
    ELSE CASE part = "device"      -> ProvisionDevice(r, config.device)
           [] part = "peripherals" -> api_put_peripherals(r, config.peripherals)
           [] part = "system"      -> api_patch_system(r, config.system)
           [] part = "ports"       -> ApplyPorts(r, config.ports)

\* Mutant: a part that fails returns at once.
config_apply_json_provisioning_Returns(r, config, force) ==
    LET begun   == [r EXCEPT !.provisioning = TRUE, !.device.version = config.version]
        applied == InTurn(LAMBDA s, part : ProvisionPart(s, config, part), begun,
                          <<"device", "peripherals", "system", "ports">>)
    IN  IF r.provisioning \/ (~force /\ (config.newer \/ config.version = r.device.version)) THEN Refused(r)
        ELSE [applied EXCEPT !.ram.provisioning = ~applied.ok]

config_apply_json_provisioning(r, config, force) ==
    LET begun   == [r EXCEPT !.provisioning = TRUE, !.device.version = config.version]
        applied == InTurn(LAMBDA s, part : ProvisionPart(s, config, part), begun,
                          <<"device", "peripherals", "system", "ports">>)
    IN  IF r.provisioning \/ (~force /\ (config.newer \/ config.version = r.device.version)) THEN Refused(r)
        ELSE [applied EXCEPT !.ram.provisioning = FALSE]

api_put_provisioning(r, config) ==
    LET applied == config_apply_json_provisioning(r, config, TRUE)
    IN  IF applied.ok THEN Done(ClearConfigName(applied.ram)) ELSE applied

-----------------------------------------------------------------------------
(***************************************************************************)
(* The behaviour.                                                          *)
(***************************************************************************)
\* What the image is to hold of a state: the ports without order and without the
\* values that are not persisted, the peripherals and the device.  Whether a
\* virtual port is an integer is not in the image.
Content(r) ==
    [ports |-> {[slot |-> p.slot, id |-> p.id, peripheral |-> p.peripheral, flags |-> p.flags,
                 display_name |-> p.display_name,
                 value |-> IF {"persisted", "writable"} \subseteq p.flags THEN p.value ELSE Undefined]
                : p \in Range(r.ports)},
     peripherals |-> r.peripherals, device |-> r.device]

Init ==
    /\ image = Zeros
    /\ ram = Loaded(image, [button |-> NoPart, led |-> NoPart])
    /\ request = FALSE /\ budget = Budget
    /\ stored = [content |-> Content(ram), fits |-> TRUE]

Spend == budget > 0 /\ budget' = budget - 1

\* A call of the API by itself.
Call(outcome) == Spend /\ ram' = outcome.ram /\ UNCHANGED <<image, request, stored>>

PostPorts(new)       == Call(api_post_ports(ram, new))
DeletePort(i)        == Call(api_delete_port(ram, i))
PatchPort(i, c)      == Call(api_patch_port(ram, i, c))
PutPorts(configs)    == Call(api_put_ports(ram, configs))
PutPeripherals(list) == Call(api_put_peripherals(ram, list))
PatchSystem(change)  == Call(api_patch_system(ram, change))
PutProvisioning(c)   == Call(api_put_provisioning(ram, c))

\* config_start_auto_provisioning(): ask for the configuration that is named,
\* unless an answer is awaited.
Starts(r)   == ~r.provisioning /\ r.device.config_name \notin CustomNames \cup {""}
Started(r)  == [r EXCEPT !.provisioning = @ \/ Starts(r)]
Requested(r) == request' = (request \/ Starts(r))

\* A new name of the configuration, even if a later change is invalid, starts
\* provisioning.
PatchDevice(changes) ==
    LET r == api_patch_device(ram, changes).ram
        renamed == \E i \in DOMAIN changes : /\ changes[i][1] = "config_name"
                                             /\ \A j \in 1..i : changes[j][1] # "invalid"
    IN  /\ Spend
        /\ ram' = IF renamed THEN Started(r) ELSE r
        /\ IF renamed THEN Requested(r) ELSE UNCHANGED request
        /\ UNCHANGED <<image, stored>>

\* The first connection to the network after the device started.
Connect ==
    /\ ~ram.connected
    /\ ram' = [Started(ram) EXCEPT !.connected = TRUE] /\ Requested(ram)
    /\ UNCHANGED <<image, stored, budget>>

\* on_provisioning_config_response(): a configuration, or an answer that is none.
ProvisioningResponse(config) ==
    /\ request
    /\ request' = FALSE
    /\ LET r == [ram EXCEPT !.provisioning = FALSE]
       IN  ram' = IF config = NoPart THEN r ELSE config_apply_json_provisioning(r, config, FALSE).ram
    /\ UNCHANGED <<image, stored, budget>>

\* A poll sees a new value of a port; it is to be saved if it is persisted, and
\* polling did not begin just before.
ValueChange(i, v, early) ==
    /\ Spend
    /\ "enabled" \in ram.ports[i].flags /\ v # ram.ports[i].value
    /\ ram' = [ram EXCEPT !.ports[i].value = v,
                          !.needs_saving = @ \/ ("persisted" \in ram.ports[i].flags /\ ~early)]
    /\ UNCHANGED <<image, request, stored>>

Save ==
    /\ ram.needs_saving
    /\ ram' = [ram EXCEPT !.needs_saving = FALSE]
    /\ LET saved == Saved(ram, image)
       IN  /\ image' = Flash(saved)
           /\ stored' = [content |-> Content(ram), fits |-> saved.fits]
    /\ UNCHANGED <<request, budget>>

\* The device is reset, or loses power, at any time.
Restart ==
    /\ Spend
    /\ ram' = Loaded(image, ram.system_slot) /\ request' = FALSE
    /\ UNCHANGED <<image, stored>>

\* POST /reset with factory: the defaults are saved, and the device restarts.
FactoryReset ==
    /\ Spend
    /\ image' = FactoryImage(ram)
    /\ ram' = Loaded(image', ram.system_slot) /\ request' = FALSE
    /\ stored' = [content |-> [ports |-> {}, peripherals |-> <<>>,
                               device |-> [name |-> Default, display_name |-> "", version |-> 0,
                                           config_name |-> ram.device.config_name]], fits |-> TRUE]

Next ==
    \/ \E new \in NewPorts : PostPorts(new)
    \/ \E i \in DOMAIN ram.ports :
          \/ DeletePort(i)
          \/ \E c \in PortChanges : PatchPort(i, c)
          \/ \E v \in Values, early \in BOOLEAN : ValueChange(i, v, early)
    \/ \E configs \in PortConfigs : PutPorts(configs)
    \/ \E list \in PeripheralLists : PutPeripherals(list)
    \/ \E change \in SystemChanges : PatchSystem(change)
    \/ \E changes \in DeviceChanges : PatchDevice(changes)
    \/ \E c \in Provisionings : PutProvisioning(c)
    \/ \E c \in Provisionings \cup {NoPart} : ProvisioningResponse(c)
    \/ Connect
    \/ Save
    \/ Restart
    \/ FactoryReset

\* The HTTP client answers every request, be it with a failure (HttpRequests).
Fairness == WF_vars(\E c \in Provisionings \cup {NoPart} : ProvisioningResponse(c))

Spec == Init /\ [][Next]_vars /\ Fairness

-----------------------------------------------------------------------------
(***************************************************************************)
(* Properties.                                                             *)
(***************************************************************************)
\* Every port has a slot of its own, of the kind its kind of port has, and the
\* busy slots are those of the ports, through any sequence of adding, removing
\* and replacing ports and peripherals: an expression refers to a port by the
\* bit of its slot, and the image has one part for each slot.
SlotsConsistent ==
    /\ ram.used_slots = {p.slot : p \in Range(ram.ports)}
    /\ IsInjective([i \in DOMAIN ram.ports |-> ram.ports[i].slot])
    /\ \A p \in Range(ram.ports) : p.slot \in Slots /\ (p.slot \in VirtualSlots <=> IsVirtual(p))

\* What a restart makes of the image is what config_save() had to save, whatever
\* the image held before: the same ports with the same ids, names, flags and
\* persisted values in the same slots, the same peripherals and the same device;
\* unless there was a string that did not fit in the pool.
RestoredAsSaved == stored.fits => Content(Loaded(image, ram.system_slot)) = stored.content

\* PUT /ports, which removes the ports of the peripherals and makes them again,
\* leaves them the ids and slots they had, even if it fails.
PeripheralPorts(r) ==
    {[id |-> p.id, slot |-> p.slot, peripheral |-> p.peripheral] : p \in {q \in Range(r.ports) : ~IsVirtual(q)}}

PortsRecreated ==
    [][(\E configs \in PortConfigs : PutPorts(configs)) => PeripheralPorts(ram') = PeripheralPorts(ram)]_vars

\* A provisioning ends, whatever the answer and wherever applying it fails: while
\* it lasts no event is pushed and no other can begin.
ProvisioningEnds == ram.provisioning ~> ~ram.provisioning

\* api.c, line 1538, of PUT /ports: "Save, but only if everything went well".
SavedOnlyIfWell ==
    [][\A configs \in PortConfigs :
           PutPorts(configs) /\ ~api_put_ports(ram, configs).ok => ram'.needs_saving = ram.needs_saving]_vars
=============================================================================
