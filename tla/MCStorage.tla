----------------------------- MODULE MCStorage ------------------------------
(***************************************************************************)
(* The instances of Storage and Config that TLC checks.  They share no     *)
(* state: a behaviour is one of one of the two.  Storage has one regular   *)
(* and two extra slots, two virtual ports, and two peripherals of types    *)
(* with one port that wants the regular slot and with two that want none.  *)
(***************************************************************************)
EXTENDS Storage, Config

VARIABLE part

MCPortsOf == [gpio  |-> <<[slot |-> 0, flags |-> {"writable"}]>>,
              meter |-> <<[slot |-> -1, flags |-> {"number"}], [slot |-> -1, flags |-> {"number"}]>>]

New(id, number, valid) == [id |-> id, number |-> number, integer |-> FALSE, valid |-> valid]
MCNewPorts == {New("v", TRUE, TRUE), New("w", FALSE, TRUE)}

MCPortChanges == {<<<<"persisted", "true">>>>,
                  <<<<"enabled", "false">>, <<"display_name", "d">>, <<"invalid", "">>>>}

Virtual(id, list)  == New(id, FALSE, TRUE) @@ [virtual |-> TRUE, changes |-> list]
Physical(id, list) == New(id, FALSE, TRUE) @@ [virtual |-> FALSE, changes |-> list]
MCPortConfigs == {<<Virtual("v", <<<<"persisted", "true">>>>), Physical("p", <<<<"display_name", "d">>>>)>>,
                  <<Virtual("w", <<>>), Virtual("p", <<>>)>>}

Peripheral(type, ids, valid) == [type |-> type, params |-> 0, ids |-> ids, valid |-> valid]
MCPeripheralLists == {<<Peripheral("gpio", <<"p">>, TRUE), Peripheral("meter", <<"q">>, TRUE)>>,
                      <<Peripheral("meter", <<>>, TRUE), Peripheral("gpio", <<>>, FALSE)>>,
                      <<Peripheral("meter", <<"p", "q">>, TRUE), Peripheral("meter", <<"v">>, TRUE)>>}

MCSystemChanges == {[button |-> "pin1", led |-> NoPart], [button |-> NoPart, led |-> "invalid"]}

MCDeviceChanges == {<<<<"name", "n">>, <<"config_name", "c">>>>, <<<<"config_name", "custom/c">>, <<"invalid", "">>>>}

MCProvisionings ==
    {[version |-> 1, newer |-> FALSE, device |-> <<<<"name", "m">>, <<"display_name", "d">>>>,
      peripherals |-> <<Peripheral("gpio", <<"p">>, TRUE)>>, system |-> NoPart,
      ports |-> <<Virtual("v", <<>>)>>],
     [version |-> 1, newer |-> FALSE, device |-> NoPart, peripherals |-> NoPart,
      system |-> [button |-> "pin1", led |-> "pin2"], ports |-> <<Virtual("w", <<<<"invalid", "">>>>)>>],
     [version |-> 2, newer |-> TRUE, device |-> NoPart, peripherals |-> <<>>, system |-> NoPart, ports |-> NoPart]}

-----------------------------------------------------------------------------
StorageInit ==
    /\ part \in {"contents", "saving"} /\ Init /\ SavingInit
    /\ part = "contents" => flash = Factory

StorageNext ==
    \/ part = "contents" /\ Next /\ UNCHANGED <<part, saving_vars>>
    \/ part = "saving" /\ SavingNext /\ UNCHANGED <<part, vars>>

StorageSpec ==
    StorageInit /\ [][StorageNext]_<<part, vars, saving_vars>> /\ Fairness /\ SavingFairness
=============================================================================
