------------------------------- MODULE Config -------------------------------
(***************************************************************************)
(* Persistence of the configuration: config_save() and the factory reset   *)
(* of config.c, the flash of flashcfg.c, the delayed saving of core.c, and *)
(* the resets of system.c, with power failing at any moment.               *)
(*                                                                         *)
(* The configuration slot is two flash sectors, which flashcfg_save()      *)
(* erases one after the other and writes in one call.  What a sector holds *)
(* is abstracted to a number: Defaults for the defaults, and a new one for *)
(* each change of the settings in it.                                      *)
(*                                                                         *)
(* Saving is synchronous: nothing but a power failure happens while there  *)
(* are writes to do.                                                       *)
(***************************************************************************)
EXTENDS Integers, Sequences

CONSTANTS
    SaveInterval,  \* CONFIG_SAVE_INTERVAL, in ticks
    Erased,        \* an erased sector, all 0xFF
    MaxChanges     \* bound: number of changes of the settings in a behaviour

ASSUME ConfigAssumption == SaveInterval \in Nat /\ MaxChanges \in Nat /\ Erased \notin Nat

VARIABLES
    flash,                 \* the sectors of FLASH_CONFIG_SLOT_DEFAULT
    writes,                \* images that remain to be saved, by the running callback
    step,                  \* the next flash operation of flashcfg_save() for the first of them
    settings,              \* the settings in RAM, as they would be saved
    config_needs_saving,
    age,                   \* time since last_config_save_time, up to SaveInterval + 1
    lag,                   \* time since `now` was updated, up to SaveInterval + 1
    polling_enabled,
    reset,                 \* system_reset() was called and the restart is to come
    up,                    \* running, with power
    changes,               \* number of changes so far; numbers them
    marked, interrupted    \* history: the last change of each sector that was marked for
                           \* saving before system_reset() was called; a save was cut short

history == <<changes, marked, interrupted>>
saving_vars == <<flash, writes, step, settings, config_needs_saving, age, lag, polling_enabled, reset, up, history>>

Sectors == 1..2
Defaults == 0
Factory == [s \in Sectors |-> Defaults]
SectorContent == {Erased} \cup 0..MaxChanges
NoneMarked == [s \in Sectors |-> 0]

\* The types of the variables; no save outlives the run of the device.
TypeOK ==
    /\ flash \in [Sectors -> SectorContent] /\ settings \in [Sectors -> SectorContent]
    /\ writes \in Seq([Sectors -> SectorContent]) /\ step \in 1..4
    /\ Len(writes) <= 2 /\ (~up => writes = <<>>)
    /\ age \in 0..(SaveInterval + 1) /\ lag \in 0..(SaveInterval + 1)
    /\ changes \in 0..MaxChanges /\ marked \in [Sectors -> 0..MaxChanges]
    /\ config_needs_saving \in BOOLEAN /\ polling_enabled \in BOOLEAN /\ reset \in BOOLEAN /\ up \in BOOLEAN
    /\ interrupted \in BOOLEAN

\* A device fresh from the factory, or one with its defaults saved.
SavingInit ==
    /\ flash \in {[s \in Sectors |-> Erased], Factory}
    /\ writes = <<>> /\ step = 1 /\ settings = Factory
    /\ config_needs_saving = FALSE /\ age = 0 /\ lag = 0
    /\ polling_enabled = FALSE /\ reset = FALSE /\ up = FALSE
    /\ changes = 0 /\ marked = NoneMarked /\ interrupted = FALSE

Ready == up /\ writes = <<>>

-----------------------------------------------------------------------------
(***************************************************************************)
(* The flash.                                                              *)
(***************************************************************************)
\* flashcfg_save(): two erasures, then the write, whose first half may be
\* there without the second.
FlashWrite ==
    /\ up /\ writes # <<>>
    /\ flash' = [flash EXCEPT ![IF step \in {1, 3} THEN 1 ELSE 2] =
                     IF step \in {1, 2} THEN Erased ELSE Head(writes)[step - 2]]
    /\ step' = (step % 4) + 1
    /\ writes' = IF step = 4 THEN Tail(writes) ELSE writes
    /\ UNCHANGED <<settings, config_needs_saving, age, lag, polling_enabled, reset, up, history>>

PowerFails ==
    /\ up
    /\ up' = FALSE
    /\ interrupted' = (interrupted \/ writes # <<>>)
    /\ writes' = <<>> /\ step' = 1
    /\ UNCHANGED <<flash, settings, config_needs_saving, age, lag, polling_enabled, reset,
                   changes, marked>>

\* The device starts with the settings `read`, after saving `images`.
Start(read, images) ==
    /\ ~up
    /\ up' = TRUE
    /\ settings' = read /\ writes' = images
    /\ config_needs_saving' = FALSE /\ age' = 0 /\ lag' = 0
    /\ polling_enabled' = FALSE /\ reset' = FALSE
    /\ marked' = NoneMarked
    /\ UNCHANGED <<flash, step, changes, interrupted>>

ConfigInit_TrustsFlash == Start(flash, <<>>)

\* config_init(): an erased first sector means an erased slot, which is
\* replaced with the defaults.
ConfigInit ==
    IF flash[1] = Erased THEN Start(Factory, <<Factory>>) ELSE Start(flash, <<>>)

\* system_check_reboot_loop() after too many unexpected resets, and
\* check_update_fw_config() with an invalid version: flashcfg_reset().
ConfigResetAtStart == Start(Factory, <<Factory>>)

-----------------------------------------------------------------------------
(***************************************************************************)
(* Changes and saving (core.c).                                            *)
(***************************************************************************)
Tick ==
    /\ Ready
    /\ age <= SaveInterval \/ lag <= SaveInterval
    /\ age' = IF age <= SaveInterval THEN age + 1 ELSE age
    /\ lag' = IF lag <= SaveInterval THEN lag + 1 ELSE lag
    /\ UNCHANGED <<flash, writes, step, settings, config_needs_saving, polling_enabled, reset, up, history>>

\* A change of the settings in the sectors S, with its number.
Changed(S) ==
    /\ changes < MaxChanges
    /\ changes' = changes + 1
    /\ settings' = [s \in Sectors |-> IF s \in S THEN changes' ELSE settings[s]]

\* config_mark_for_saving(): counts from `now`, the time of the last poll.
config_mark_for_saving == config_needs_saving' = TRUE /\ age' = lag

\* A request, a sequence or a poll that changes settings and marks them.
ChangeSettings ==
    /\ Ready
    /\ \E S \in SUBSET Sectors \ {{}} :
           /\ Changed(S)
           /\ marked' = [s \in Sectors |-> IF s \in S /\ ~reset THEN changes' ELSE marked[s]]
    /\ config_mark_for_saving
    /\ UNCHANGED <<flash, writes, step, lag, polling_enabled, reset, up, interrupted>>

\* Changes of settings that the code does not mark.  A PATCH /system or a PUT
\* /provisioning clears the name of the configuration, or takes its version
\* over, which is marked only if another of its parts marks; a value persists
\* in the first two seconds of polling; and a request that is refused for one of
\* its fields, after the ones before it have been applied, as in
\* api_patch_port(), returns before it marks.
ChangeSettingsUnmarked ==
    /\ Ready
    /\ \E S \in SUBSET Sectors \ {{}} : Changed(S)
    /\ UNCHANGED <<flash, writes, step, config_needs_saving, age, lag, polling_enabled, reset, up,
                   marked, interrupted>>

\* config_save(), after the images `before` have been written.
config_save(before) == writes' = Append(before, settings)

config_ensure_saved_OnlyWhenPolling(before) ==
    IF config_needs_saving /\ polling_enabled
    THEN config_needs_saving' = FALSE /\ age' = 0 /\ config_save(before)
    ELSE writes' = before /\ UNCHANGED <<config_needs_saving, age>>

\* config_ensure_saved(), after the images `before` have been written.
config_ensure_saved(before) ==
    IF config_needs_saving
    THEN config_needs_saving' = FALSE /\ age' = 0 /\ config_save(before)
    ELSE writes' = before /\ UNCHANGED <<config_needs_saving, age>>

SavingDue_FromLastPoll == config_needs_saving /\ lag > SaveInterval
SavingDue == config_needs_saving /\ age > SaveInterval

\* core_poll(), as far as the configuration is concerned.  (During an OTA
\* download it returns at once, and is no poll here.)
CorePoll ==
    /\ Ready /\ polling_enabled
    /\ lag' = 0
    /\ IF SavingDue
       THEN config_needs_saving' = FALSE /\ age' = 0 /\ config_save(<<>>)
       ELSE UNCHANGED <<writes, config_needs_saving, age>>
    /\ UNCHANGED <<flash, step, settings, polling_enabled, reset, up, history>>

\* core_enable_polling(): when the network is connected, or late.
EnablePolling ==
    /\ Ready /\ ~polling_enabled
    /\ polling_enabled' = TRUE
    /\ UNCHANGED <<flash, writes, step, settings, config_needs_saving, age, lag, reset, up, history>>

-----------------------------------------------------------------------------
(***************************************************************************)
(* Resets.                                                                 *)
(***************************************************************************)
\* system_reset() and its callback on_system_reset(), or on_system_sleep().
system_reset(before) ==
    /\ polling_enabled' = FALSE
    /\ config_ensure_saved(before)
    /\ reset' = TRUE

\* POST /reset, a PATCH /device that needs one, leaving the setup mode, a
\* finished or failed OTA, or going to sleep.
ResetRequested ==
    /\ Ready
    /\ system_reset(<<>>)
    /\ UNCHANGED <<flash, step, settings, lag, up, history>>

\* POST /reset with "factory", or the setup button held: the defaults are
\* written by config_factory_reset(), before system_reset().
FactoryResetRequested ==
    /\ Ready
    /\ system_reset(<<Factory>>)
    /\ marked' = NoneMarked
    /\ UNCHANGED <<flash, step, settings, lag, up, changes, interrupted>>

\* on_ota_auto_perform()
OnOtaAutoPerform ==
    /\ Ready
    /\ config_ensure_saved(<<>>)
    /\ UNCHANGED <<flash, step, settings, lag, polling_enabled, reset, up, history>>

\* on_system_reset() of system.c, or the deep sleep and its end.
SystemRestart ==
    /\ Ready /\ reset
    /\ up' = FALSE
    /\ UNCHANGED <<flash, writes, step, settings, config_needs_saving, age, lag, polling_enabled, reset, history>>

SavingNext ==
    \/ FlashWrite \/ PowerFails \/ ConfigInit \/ ConfigResetAtStart
    \/ Tick \/ ChangeSettings \/ ChangeSettingsUnmarked \/ CorePoll \/ EnablePolling
    \/ ResetRequested \/ FactoryResetRequested \/ OnOtaAutoPerform \/ SystemRestart

\* The flash operations of a callback follow each other, time passes, and the
\* poll task posts itself again.
SavingFairness == WF_saving_vars(FlashWrite) /\ WF_saving_vars(Tick) /\ WF_saving_vars(CorePoll)

SavingSpec == SavingInit /\ [][SavingNext]_saving_vars

-----------------------------------------------------------------------------
(***************************************************************************)
(* Properties.                                                             *)
(***************************************************************************)
\* An image has every change of settings that was marked for saving.
HasMarked(image) == \A s \in Sectors : marked[s] # 0 => image[s] # Erased /\ image[s] >= marked[s]

\* Every change that was marked is in flash, or is still to be saved; and once an
\* orderly reset or sleep is under way and its saving is over it is in flash:
\* whatever unmarked changes, polls, resets and saves came since, the restart
\* loses no change that was marked before system_reset().  (A factory reset takes
\* the marks back.  A restart loses the unmarked changes that came after the last
\* save, and may lose the changes made between system_reset() and it: the code
\* keeps neither.)
ChangesKept == Ready => HasMarked(flash) \/ (config_needs_saving /\ ~reset)

\* A device never runs with the contents of an erased sector as its settings,
\* unless power failed while it was saving, and even then not in the sector
\* that holds the passwords, flags and ports.
NeverErased == up => settings[1] # Erased /\ (settings[2] = Erased => interrupted)

\* While core_poll() runs and no further change comes, marked settings are
\* saved, without a reset.
EventuallySaved ==
    (<>[](up /\ polling_enabled)) => [](config_needs_saving => <>(~config_needs_saving))

\* The last that a factory reset writes are the defaults, whatever was changed
\* before it.
FactoryResetSticks == [][FactoryResetRequested => writes'[Len(writes')] = Factory]_saving_vars

=============================================================================
