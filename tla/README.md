# Formal model of android_device_asus_sm8250-common

TLA+ models of the programs in this device tree that keep state and have to
get an order of steps right: the failsafe update of the boot images, the audio
policy that keeps calls, playback and capture apart and routes them to devices
that come and go, the service that binds the listener of the grip sensor, the
key handler's sensors, and the settings of the touch panel. TLC
checks them on small instances; TLAPS proves the most important results for
every value of the constants.

Paths below are relative to `src/`; Java sources are in
`DeviceParts/src/org/omnirom/device/`.

## 1. Inventory

### 1.1 Components

| component | source | state it keeps | operations | hard about it | modelled by |
|---|---|---|---|---|---|
| Failsafe boot update | `gpt-utils/gpt-utils.cpp` | on disk: two GPTs per LUN, the UFS boot LUN attribute; nothing in memory between calls | `prepare_boot_update` in the stages `UPDATE_MAIN`, `UPDATE_BACKUP`, `UPDATE_FINALIZE` | crash or failed access between any two writes; a short write taken for whole; the stage is read back from two signatures; several LUNs in one call; page cache | `FailsafeUpdate`, `BootUpdate`, `BootUpdateInvariant`, `BootUpdateCached` |
| Boot chain swap | same file | an entries array in memory | `gpt_pentry_seek`, `gpt_boot_chain_swap` | names that are prefixes of each other or end in "bak", entries that are missing, xbl on UFS | `PartitionTable` |
| GPT editing | same file | `struct gpt_disk`, both GPTs of a disk | `gpt_disk_alloc`, `free`, `get_disk_info`, `get_pentry`, `update_crc`, `commit` | four reads and four writes, any of which may fail or fall short unnoticed; handles that are read again; retries; an update that is under way; no sync | `GptDisk`, `GptDiskCached` |
| LUNs of an update | same file | the list that one call makes | the loop of `prepare_boot_update`, `add_lun_to_update_list` | duplicates, a list with a last row | `UpdateList` |
| Partition lookup | same file | none | `gpt_utils_get_partition_map`, `get_scsi_node_from_bootdevice` | paths and links only | not modelled |
| Audio policy: concurrency | `policy_hal/AudioPolicyManager.cpp`, `APMConfigHelper.cpp` | open outputs with their use counts, inputs, phone mode, five flags that are carried from call to call | `setPhoneState`, `getOutputForDevices`, `isOffloadSupported`, `releaseOutput`, `getInputForAttr`, `startInput`, `stopInput`, `releaseInput` | decisions taken in one call and used in a later one; outputs closed while they are listed; starts that fail; build-time features that meet | `AudioOutputs`, `AudioConcurrency` |
| Audio policy: device connections | same file | the devices that are listed, two flags about HDMI, open outputs | `setDeviceConnectionStateInt` with `checkOutputForAttributes` | what the HAL was told has to be taken back; reports in any order; tracks that must move and outputs that must close | `AudioRouting` |
| Audio policy: tracks that start and stop | same file | activity per stream and output, mute counts, each output's devices and patch, the last voice volume | `startSource`, `stopSource`, `checkAndSetVolume`, `setForceUse`, the routing in `setPhoneState` | outputs that share a backend; mute requests that have to balance; a volume with two owners | `AudioRouting` |
| Grip sensor service | `GripSensor.java`, `GripsensorListener.java`, `GripSensorServiceMain.java` | `mServiceState`, `mRemoteMsgService`, the messages of its handler | start, register, bind with retries, reset, connect, disconnect, a squeeze | two threads, a remote process that dies, delayed messages that are never withdrawn, restarts | `GripBinding` |
| Touch panel settings | `GestureSettings.java`, `GloveMode*.java`, `Startup.java`, part of `KeyHandler.java` | each user's stored settings, files of the driver, `gestureMode` of a page, `mRestoreUser` | change a gesture, a switch or the tile; restore at boot and after a switch of users | the same fact in three places, several users, broadcasts that come late, pages that outlive their data | `DriverSettings` |
| Key handler | `KeyHandler.java` | registered sensors, proximity, the fingerprint area, an executor's queue | key events, screen on and off, settings observer, readings of the sensor | callbacks, an executor and broadcasts that interleave | `KeyHandler`; its restore in `DriverSettings` |
| Other settings | `DeviceSettings.java`, `DozeSettings.java`, `AudioSettings.java`, tiles, `Airtrigger.java`, ... | one stored value each | store and pass on | little: each value is stored and passed on in one call | not modelled |
| Settings pages | `AppSelectListPreference.java`, the activities, `Utils.java` | none that outlives a call | | | not modelled |
| Boot properties | `init/init_sm8250.cpp` | none | a sequence of assignments | | not modelled |
| CRC | `gpt-utils/sparse_crc32.cpp` | none | a checksum by table | | taken as right exactly for the contents it was made from |
| Boot control packaging, fingerprint interface, overlays, permissions, policies, build files | `bootctrl/`, `interfaces/`, `overlay/`, `sepolicy/`, `*.mk` | none | | configuration, or interfaces without an implementation here | not modelled |

### 1.2 How the components interact

- An installer, outside this repository, calls `prepare_boot_update` once for
  each stage and writes the images in between. `prepare_partitions` uses the
  boot chain swap for the entries array and the boot LUN switch for xbl. The
  boot loader, outside too, reads what they leave. Another client (boot control
  HAL) edits the same GPTs through the `gpt_disk` functions.
- The audio service calls the policy manager, one call at a time under its
  lock. The calls of one client are not atomic together: a player asks
  `isOffloadSupported` and asks for its output later; a recorder opens an
  input and starts it later. In between the phone mode can change.
- `Startup` starts the grip service and restores the driver at a boot;
  `KeyHandler` (in the system server) makes `Startup` restore it when the
  system user comes back. The pages and the tile write to the same settings
  and the same files of the driver.

### 1.3 What makes each component correct

- Boot update: the device can start at every instant (`Bootable`), a caller
  that is told to write does not write what is in use (`ReadyMeansSwitched`),
  damage is never covered by a new CRC (`DamageNeverBlessed`), there is always
  a valid table that is not being written (`OneTableAtATime`), an update can
  be finished (`UpdateCompletes`) and then leaves things as shipped
  (`FinalizeRestores`). With a page cache the same of what is on the medium
  (`BootableAfterPowerLoss`, `ReadyIsDurable`).
- Boot chain swap: exactly the listed images that have a backup change places,
  and a second swap undoes the first.
- GPT editing: a commit is atomic, is there when it returned 0, and leaves the
  stage of a boot update alone, whatever a failed read left in the handle.
- Audio: playback that calls and captures shut out stays out until they are
  over; direct outputs are counted right; what is offered is given;
  the HAL and the sound trigger service are told of captures and of their end.
- Audio routing: the HAL knows the devices that are listed; HDMI is used only
  while plug and speakers are on; whatever plays is heard where the engine
  wants it, although outputs share backends; call volume and direct
  outputs are right; a change of devices takes no playback away.
- Key handler: the sensors that report are those the settings want for the
  display as it is, and the light of the fingerprint area goes with the finger.
- Grip service: it does not wait for ever, and sends squeezes exactly to a
  service that is bound.
- Touch panel: the gestures in force are those that one user has stored, and
  after a boot the system user's.

The list of single hazards, each at its line and with the properties that would
catch it, is in `PROJECT.json`.

## 2. Plan

Written in this order, the most important behaviour first:

1. `FailsafeUpdate`, what a boot update promises, and `BootUpdate`, which is
   shown to implement it; `BootUpdateCached` extends it with the page cache.
   `BootUpdateInvariant` and `BootUpdate_proofs` for both. *Done.*
2. `PartitionTable`, extended by `UpdateList`, with `PartitionTable_proofs`;
   `GptDisk`, extended by `GptDiskCached` with the page cache, with
   `GptDisk_proofs` for both. *Done.*
3. `AudioOutputs` (the rules as operators) and `AudioConcurrency`, which
   extends it with the state and the calls; `AudioConcurrency_proofs`. *Done.*
4. `GripBinding` with `GripBinding_proofs`. *Done.*
5. `DriverSettings` with `DriverSettings_proofs`. *Done.*
6. `AudioRouting` with `AudioRouting_proofs`: device connections, tracks that
   start and stop, force use, the routing half of `setPhoneState`. *Done.*
7. `KeyHandler` with `KeyHandler_proofs`. *Done.*

Left, in the order of their weight:

8. One specification of `AudioConcurrency` and `AudioRouting` together: both
   have the whole of the outputs they need, and TLC cannot hold the product.
9. `GripBinding`: a second `onStart` in one process. `DriverSettings`: the
   death of the process within a handler.
10. Proofs: the type invariant of `AudioRouting` as a whole, and the two
   invariants of the medium, `BootableAfterPowerLoss` and `PowerLossIsAtomic`.
   Every other safety invariant of a passing run is a theorem.

Abstract specifications worth stating beside `FailsafeUpdate`: an atomic edit
for `GptDisk` (now the invariant `CommitIsAtomic`), and a pair of a stored and
an effective value for `DriverSettings`.

## 3. The models and the code

Every definition that models code is listed in `PROJECT.json` ("map") with its
source lines. A definition named `X_Word` is a plausible mistake in `X`, used by
no specification: put in its place, it must violate a property ("mutants").

### 3.1 FailsafeUpdate, BootUpdate, BootUpdateInvariant

`FailsafeUpdate` knows units of images with two copies, of which one is live:
only the other may be written, and the live copy moves only to a whole one. Its
`cut` are the units whose table a short write has cut off unnoticed: for them,
until the table is written again, the last promise is suspended.

`BootUpdate` is `prepare_boot_update` and `prepare_partitions` at the grain of
single block accesses. The state:

| variable | code |
|---|---|
| `primary[l]`, `secondary[l]` | the GPTs of a LUN: signature right (`signed`), header CRC right (`crc`), header of this disk (`sound`), the array the header's CRC was made from (`tableCrc`), the array (`table`: images first, backups first, garbage, or cut short by a write that was taken for whole) |
| `bootLun` | the UFS attribute that `gpt_utils_set_xbl_boot_partition` writes |
| `pc`, `stage`, `todo`, `lun`, `is_error` | where the call is, its argument, the LUNs its loop has left, its locals |
| `content`, `result`, `reached` | the installer's: what is in the copies, what the last call returned to it, its note of the stage |

Each action is one access or one early return: `StageAlreadySet`, `RefuseStage`
and `EnterStage` are the comparison of the internal with the requested stage
after `gpt_get_state` of both headers; `SetBootLun`; `KeepChain`,
`WriteChainHeader` and `WriteChainTable` are
`gpt2_set_boot_chain` (header first, then the array, which a crash can leave
torn); `SetPrimary` and `SetSecondary` are `gpt_set_state`. `WriteFallsShort` is a
`write` of the array that does less than it was asked to: `blk_rw` (160-171)
returns 0 for that, and the stage goes on over it. `AccessFails` is an
error of any `open`, `ioctl`, `read` or `write`, `Crash` the death of program or
device at any point. The boot loader (`Usable`, `LiveTable`, `LiveCopy`) and the
installer (`Call`, `StartWrite`, `FinishWrite`, `NextPackage`) are external and
say so in the map. `Caller` is how the installer goes on after an interruption:
with any stage, with the one it had reached or the next, or in turn.

`BootUpdateInvariant` holds the inductive invariant, for TLC and the proofs:
`LunInv`, what holds of each LUN, and `TornOn(set)`, where a torn copy can be on
a set of LUNs, which `BootUpdateCached` needs for a smaller set.

### 3.2 BootUpdateCached

Extends `BootUpdate`: `primary` and `secondary` are what a read returns, `dirty`
the block writes that are not yet on the `medium`. Every exit of
`prepare_partitions` goes through `fsync` (`Exits`, `FsyncReturns`), whose
result is ignored (`FsyncGivesUp`). `Killed` leaves the cache, `PowerLoss` only
the medium. Blocks reach the medium in any order (`Next2Go`: but for two writes of
one block); `crossed` notes the LUNs on which a write to one GPT got there ahead
of an earlier one to the other, which nothing in the code prevents.

### 3.3 PartitionTable

`gpt_pentry_seek` and `gpt_boot_chain_swap` over arrays of names; one step for
each name in `PTN_SWAP_LIST`. A name is a sequence of pieces, and `Matches` is
the comparison of the code: the name begins with the one that is sought, and
after that ends or has "bak" left. What it is to find, the name and that of its
backup, is said by `AreTwins` with a concatenation. Some of the listed names are
prefixes of others, in the code (cmnlib, cmnlib32, cmnlib64, mdtp, mdtpsecapp)
as in the instance. `ListAssumption` is what the proofs need of the list, and
the code's meets it: no name twice, none the backup's name of another. The
module justifies that `BootUpdate` knows two states of
a good array only.

`UpdateList` extends it with the first half of `prepare_boot_update`: for each
name in `PTN_SWAP_LIST` the link of its backup is followed to a LUN (`Where`),
which `add_lun_to_update_list` adds to the list unless it is there. It justifies
that a call of `BootUpdate` goes through a set of LUNs, each of them once. The loop
over the names is a recursive function of how many of them it has seen.

### 3.4 GptDisk, GptDiskCached

A handle (`struct gpt_disk`), the disk, and a client that allocates, reads (four
reads), edits, has the CRCs computed and commits (four writes), on a disk that
may be in the middle of a boot update. `Edits` are the changes of entries; an
array is the set of edits it contains, and a mark if a failure or a crash cut it
off (`Torn`), or a write (`Short`) or a read (`Cut`) that fell short and that
`blk_rw` took for whole (`SetFallsShort`, `GetFallsShort`). A handle may be read
again at any time: after a read that fails (`GetFails`) it keeps what it had, a
NULL pointer in the field that was read, and `is_initialized` from the first time
(1403), so that `gpt_disk_update_crc` follows the pointer (`FollowsNull`) or
`gpt_disk_commit` refuses a write halfway (`SetRefuses`).

`GptDiskCached` puts a page cache under it: `primary` and `secondary` are what a
read returns, `cached` the writes that have not reached the `medium`.
`gpt_disk_commit` opens without `O_SYNC` and closes without `fsync`, so
`Writeback` may come at any time and `PowerLoss` leaves what the medium has.
`versions` are the arrays the disk has had, `sound` tells whether every commit
began on an intact disk, `crossed` whether a write to one GPT got to the medium
ahead of an earlier one to the other. Every step of `GptDiskCached` that is not the kernel's is
a step of `GptDisk`.

### 3.5 AudioOutputs, AudioConcurrency

`AudioOutputs` has the rules that turn a request into flags, in the order of
`getOutputForDevices` (`VoipFlags`, `VrFlags`, `VoiceConcFlags`, `RecPlayFlags`,
`DirectFlags`, `StreamFlags`, `ForcedDeep`), and `isOffloadSupported`, with the
flags of `APMConfigHelper` as the constant `mConfigs`. `AudioConcurrency` has the
calls. `mOutputs` holds the open direct outputs with `mDirectOpenCount`
(`opens`); the mixed ones (primary, deep, fast) are always open. `offers` is
what a player was told by `isOffloadSupported`, and `tracks` what it plays on
and whether it was sent back (`stale`). `inputs`, `recPlayConc` (the HAL's
`rec_play_conc_on`), `capture` (what the sound trigger service knows) and
`mIsInputRequestOnProgress` belong to captures. `StopInput` comes for any input
that was opened, as AudioFlinger also stops one whose start has failed.
`setPhoneState(new)` is the
whole function: captures cut, loops over the outputs with their index that
passes over the neighbour of a closed one (`CloseLoop`), streams invalidated,
the primary output suspended or restored. `CloseLoop` says in closed form which
places of the list are closed (`ClosedAt`: those at an odd distance from the last
one that is to stay) and picks the others (`Pick`, `Rank`); the loop itself is in
`MCAudioConcurrency`, with the assertion that the two agree on all lists of up to
five outputs. `AskedAssumption` is what `AudioTrack` asks for: compressed data is
for offload, a fast track asks for nothing direct, and the flag of VoIP comes with
the stream of calls.

### 3.6 AudioRouting

The other half of the policy manager, on a fixed set of outputs that each reach
some devices (`Supports`) and belong to a module (`Module`). One action is one
call, under the lock of the service.

| variable | code |
|---|---|
| `mAvailableOutputDevices`, `mAvailableInputDevices` | the lists of the same names |
| `hal` | what `broadcastDeviceConnectionState` has told the HAL |
| `mHdmiAudioDisabled`, `mHdmiAudioEvent`, `reported` | the two flags, and what the last reports really said |
| `mOutputs`, `mDirectOpenCount`, `dsd` | the outputs that are open, the clients of each direct one, those whose format is DSD |
| `route` | each output's devices, and the order in which the outputs got their patches: the last one decides where its module plays (`Backend`) |
| `active`, `invalid`, `alarmMutes` | the clients that are active, those that were told to start anew, the mute count of alarms on each output |
| `phone`, `forceUse`, `dpForVoice` | what the engine was told |
| `mLastVoiceVolume` | whose volume the HAL has |

`ConnectRefused`, `ConnectFails`, `Connect`, `DisconnectRefused` and `Disconnect`
are the ways through the output half of `setDeviceConnectionStateInt`, with
`checkOutputForAttributes` (`MovesMedia`), `checkCloseOutputs` (`OnlyQueried`) and
the loop that routes every output anew (`RerouteAll`); `ConnectInput`,
`ConnectInputFails` and `DisconnectInput` the input half. `StartSource` and
`StopSource` carry the two searches for outputs beside the one that changes
(`ForcedByOther`, `Rest`), `setForceUse` its loop backwards (`RerouteActive`).
`checkAndSetVolume` is in `VoiceVolume`. The engine's choice of devices and
`setOutputDevices` are the platform's, and external; `Only` filters the platform's
lists of outputs. `AudioConcurrency` and
`AudioRouting` share the outputs: what `setPhoneState` closes and suspends is in
the first, where it routes in the second.

### 3.7 KeyHandler

`stored` is what the user has set, `pending` the changes that `SettingsObserver`
has yet to be told of, `mUse` the flags it sets. `onDisplayOn` and `onDisplayOff`
put work into `tasks`, the queue of the executor, whose thread takes the oldest
(`RunTask`); `onSensorChanged` is a reading of the proximity sensor, which
writes `proximity_state`. `FodPressed` and `FodUp` are `canHandleKeyEvent` for the
fingerprint area: each posts a piece of work that calls the daemon and writes
the light (`Lit`), and that is done by `RunPost`. The area is there on the ROG
Phone 3 alone (`DeviceSettings.isRog3`).

### 3.8 GripBinding

`queue` holds the messages of `SensorServiceHandler` with `arg1` and the seconds
until they are due. `HandleMessage` is `handleMessage` with `RegisterGripsensor`,
the three cases of `MSG_BIND_SERVICE` and `MSG_RESET_BINDINGSTATE`;
`onServiceConnected`, `onServiceDisconnected` and
`updateSensorEventToRemoteLocked` are the callbacks; `link` is the connection as
the system sees it. `Restart` is a new process (`START_STICKY`).

### 3.9 DriverSettings

`settings[u]` is what a user has stored: the gestures with an app, the mask
written to the driver, swipe up, glove mode (also in the old preferences).
`driver` are the files under `/proc/driver`, `page[u]` the field `gestureMode`
of a page. The mask is written as binary digits and what the driver answers goes
through `Integer.decode` (258): what becomes of it is left open, `Decoded` being
any masks or none that is a number, which ends the page (`PageDies`). Nothing makes
a page wait for `Startup`. `ChangeGesture`, `ChangeSwipeUp`, `ChangeGlove`, `ClickGloveTile` and
`OpenPage` are the pages and the tile, `Startup_onReceive` is `Startup`,
`onUserSwitched` the receiver of `KeyHandler`; `SwitchUser` and `Reboot` are the
platform, whose broadcasts wait in `inbox`.

## 4. The runs

`tlc -config <name>.cfg <module>`; all pass but the one marked "violated".

| run | module | question | bounds, and why they are enough |
|---|---|---|---|
| `ufs_resume` | `MCBootUpdate` | Can the device always start, is a caller told to write only what is not in use, is damage never blessed, is there always a valid table, does UPDATE_FINALIZE restore, and do the stages implement `FailsafeUpdate`? | Two LUNs, so that they can be in different stages, and xbl; each LUN with any single damage; three faults, short writes among them: one to leave the LUNs apart, one in the call that repairs it, one in the next |
| `cached_power` | `MCBootUpdateCached` | Does the same hold of the medium when power goes, and is a call that returned 0 durable? | Two LUNs and one without backups, any order of stages, two faults (deaths, failed accesses, short writes, failed `fsync`s, losses of power), blocks written back in any order: one fault leaves its traces in the cache, the other meets them |
| `update_completes` | `MCBootUpdate` | Does an interrupted update end? | Two LUNs, three faults, an installer that goes on in turn |
| `xbl_restart` | `MCBootUpdate` | Violated: is a caller that starts over told the truth on UFS? | One LUN, one fault |
| `gpt_disk` | `MCGptDisk` | Is a commit atomic, present when it returned 0, and harmless to an update, and is it atomic on the medium too? | One edit, which a commit has or has not: what else a commit can meet are the remains of another, with a mark; five writes in the cache, the four of a commit and the first of its retry; two faults, one for a read or a commit and one for the retry, any of them a short transfer or a loss of power; any number of reads into one handle; spoiled signatures of either table |
| `partition_table` | `MCPartitionTable` | Are exactly the listed images with a backup swapped, is it told if there was none, does xbl stay? Does the list of LUNs have each of them once? | All arrays of up to four out of eleven names: five that are listed, of which two begin with another one, those of their backups, and one that begins with a backup's, so that a pair that is to be swapped can have a third beside it that is not; three LUNs and every place of the backups on them, five rows; two calls, as the second is to undo the first. It may stop: the calls are bounded |
| `audio_voice` | `MCAudioConcurrency` | Does a call keep compressed and deep buffer playback out; are direct outputs counted right; is offload offered only where it is given? | Two tracks of one session (they may share an output), one microphone, the settings of the voice concurrency feature, fast fallback |
| `audio_record` | `MCAudioConcurrency` | Does a capture keep compressed playback out; are the HAL and the sound trigger service told? | Two tracks of one session, two microphone clients, so that one starts or stops while the other runs, and a client of another module, both features, fast fallback. Microphones and tracks are interchangeable |
| `grip_binding` | `GripBinding` | Is the state BINDING always watched, and does it end? | The code's own ten retries and thirty seconds; two messages, so that two chains of retries overlap |
| `driver_users` | `MCDriverSettings` | Are the gestures in force always what one user has stored, and does the driver follow the system user after a boot? | Two users, two gestures (one that changes and one beside it), three broadcasts on their way; the driver's answer is taken for the mask, for quite another or for none |
| `audio_routing` | `MCAudioRouting` | Are HAL and policy agreed on the devices, HDMI only used when it is on, every track heard where it should be, and call volume and direct outputs left right? Does playback outlive a change of devices? | Four outputs: three on the primary module, of which one is direct, so that one that stops, one that plays and one that rests share a backend, and one on a module of its own for USB; three tracks, two of music on different modules and an enforced sound; calls. The view leaves out the mutes of alarms and the force use for the system, which nothing else in the model depends on |
| `key_handler` | `KeyHandler` | Do the sensors follow the display and the settings, also in the end, and does the light go with the finger? | Three settings: one of its own, two of the string of doze settings, of which one asks for the tilt sensor; four tasks, so that two changes of the display wait at a time; two posts, a press and its end |

The bounds in the modules are: `MaxFaults` (crashes and failed accesses),
`MaxEntries` and `MaxCalls` (`PartitionTable`), `Handles` (direct outputs that
are open at one time) and `MaxSuspends` (`AudioConcurrency`), `Slots` (messages
that wait), `MaxInbox` (broadcasts on their way), `MaxCached` (writes in the cache
of `GptDiskCached`), `MaxTasks` and `MaxPosts` (`KeyHandler`). Symmetry is declared where the cfg says so: LUNs,
message slots, gestures, microphones and tracks of one session are interchangeable, and no run with a
liveness property uses it.

### Fairness

- `update_completes` (`FairSpec` of `BootUpdate`): a call that was made goes on
  to its next access, and an installer with an update under way makes its next
  call or writes its next copy. The first is a program that is scheduled; the
  second is what an installer is for. Nothing is assumed of faults, which the
  bound ends.
- `grip_binding` (`FairSpec` of `GripBinding`): the looper handles a message that
  is due and the clock goes on, as the platform's `Handler` promises. Nothing is
  assumed of the remote service, of squeezes or of restarts.
- `key_handler` (`FairSpec` of `KeyHandler`): the executor's thread takes its next
  task, the looper its next post, and the observer is called for a change that
  was made. Nothing is assumed of the user, the display or the sensors.

### Type invariants

Every module has one. Those of `BootUpdate`, `BootUpdateCached`, `GptDisk` (within
`IInv`), `PartitionTable` (within `SwapInv`), `AudioConcurrency`, `GripBinding`,
`DriverSettings` and `KeyHandler` are theorems, and so are the parts of
`AudioRouting`'s that its other theorems need; that of `AudioRouting` as a whole
is stated and holds on the instance of `audio_routing`, whose cfg leaves it out
for the time it takes.

## 5. The theorems

`tlapm <module>` proves all of them, from the assumptions on the constants that
their modules state.

**BootUpdate_proofs.** `TypeCorrect`, then `SafeInvHolds`, from which
`StaysBootable`, `StaysSwitched`, `NoBlessing`, `Restored`, `WritesInOrder` and
the refinement `Refinement` follow, for any set of LUNs, any that lack backups,
any damage and any number of faults. They assume `Covered`: no xbl, or an
installer that resumes where it was. `xbl_restart` shows that it is needed.
`Bootable` is not inductive. Whether a write is safe depends on which LUNs the
stage is through with, on what the call has found and written on this one, and
on what the installer had written when it made the call. `SafeInv` says so in
parts: the shapes a LUN can have (`TablesInv`), what holds at each access
(`AccessInv`), what the caller had done (`CallInv`), which LUNs are ready
(`VisitedInv`), which boot LUN is selected (`XblInv`) and where a torn copy can be
(`TornInv`). There is a lemma for each action.

The second half is about `BootUpdateCached`, with a cache of any size. `CacheInv`
adds to the types that what is read of each block is the last write of it that
waits, or the medium if none does (`CoherentInv`), and that nothing waits of a
LUN that the call is through with (`DurableInv`). `ReadyDurable` follows without any
hypothesis: for any order in which blocks reach the medium, with xbl or without,
killed calls, failed accesses and short writes included.

**GptDisk_proofs.** `CommitAtomic`, `CommittedThere` and `StageKept` from `IInv`,
for any set of edits and any number of faults, whatever the handle was read from
before. The invariant has to know that the headers in the handle, where it has
any, are those of the disk but for the CRCs of the arrays, and which of
the two tables is good as the commit goes on, also over what an earlier attempt
left. `CachedClients` states the three
for `GptDiskCached`, where power may go between any two steps, in whatever order
blocks reach the medium; for that the signatures on the medium and in the writes
that wait have to be those of the disk (`CachedInv`).

**PartitionTable_proofs.** `Swapping`, `Telling`, `XblPut` for an array of any length
and any number of calls, and `EachLunListed` for any list of names, any LUNs and
any place of the backups, as long as the list has the rows for them. After `n`
calls an entry is where it was shipped if `n` is even and in its twin's place if it
is odd, one more exchange for the names that the loop of the call under way is
through with: that is `SwapInv`. It rests on two facts about names: the test of
`gpt_pentry_seek` lets just the name and that of its backup pass (`MatchesWhole`),
and no entry passes it for two listed names (`OneListedName`). What the loop over the names has gathered
after each of them is an induction over data: it is done by the least name for
which it would fail (`LeastNat`).

**AudioConcurrency_proofs.** All invariants of the two runs, for any tracks, sessions, requests, capture clients and settings.

- `TypeCorrect` and `CountsRight`: the count of every direct output is the number
  of tracks that hold it. The strengthening (`Counted`) is that every output in the
  list has its own handle and every track on a direct output finds it there;
  closing by index, with neighbours passed over, keeps it.
- `OfferHonoured` needs the counts: `isOffloadSupported` and `getOutputForDevices`
  look at different variables for calls and captures, which agree in every state.
- `NoOffload` assumes that the fallback is not the deep buffer and that offload
  sessions are not multiple. With either reversed a call has more than one output
  to close, and the loop passes over an offload output that follows a closed one
  (`audio_all_sessions`).
- `NoDeep` assumes that not both concurrency features are on: a recording in a
  call sends music to the deep buffer.
- `Announces` needs nothing. `NoOffloadInCapture` assumes
  that offload sessions are not multiple, for the same reason as `NoOffload`.
- `CaptureKnown` assumes that no client is off the primary module where the voice
  assistant feature is on; `audio_va` shows the need.

**GripBinding_proofs.** `TypeCorrect` (the count of a chain stops at the limit)
and `Watched`, for any number of waiting messages, limit and delay. The two are
inductive together.

**DriverSettings_proofs.** `TypeCorrect`, `SystemUserFollowed` and `InForceStored`, for
any gestures and users, both kinds of device, any answers of the driver and pages
used however early. The
strengthening is `SystemFollowed`: as long as no other user has run, no broadcast
is for another one, and the driver has what is stored or, until `Startup` has run,
what it was loaded with. `InForceStored` needs nothing either: what a page stores
it writes in the same step, and a restore writes the whole of a mask that is
stored.

**AudioRouting_proofs.** `HalKnows`, `HdmiFollowed`, `DirectForClients`,
`PlaybackFollowed`, `VolumeFollows` and `Routed`, for any outputs, modules, devices they
reach, tracks and modes.
`HalKnows` needs what is listed to be devices (`DevicesTyped`): a device that is
refused must not be among them. `HdmiFollowed` needs the flags to agree with
the reports, which they do only because a refused call keeps its report too.
`DirectForClients` rests on `OutputsTyped`, that the outputs opened at boot stay
and the others are counted.

`PlaybackFollowed` and `VolumeFollows` are about devices that no output may
reach, so they assume something of the audio policy configuration, which is not
in this repository: an output that reaches one of the phone's own devices
reaches the speaker (`OwnSpeaker`) and one that is opened at boot reaches HDMI and
not USB (`HdmiAtBoot`); the primary output reaches all that a call can go to
(`CallReach`), and outputs with enforced sounds the speaker (`EnforcedReach`). They
are what such configurations have, and those of the run do. Without the first
two, music can be left behind: `checkOutputForAttributes` moves tracks only if
some output reaches the new device, and not if the old device's outputs are the
same. Both rest on `OutputsReach`: the open outputs reach a device that is there.
`VolumeFollows` is about every call that routes anything: some output that is
routed in a call reaches its device, and the volume is sent with it.

`Routed` is `RoutedAsWanted`: what plays is heard where the engine wants it. The
backend of a module plays to the devices of the output patched last, and
`startSource`, `stopSource`, `setForceUse` and `setPhoneState` patch only some of
them, so the invariant is about the end of the list of patches (`HeardInv`): for
an output `o` that is heard, the list ends with a part that has an output of the
module whose patch lasts as long as it is needed (`o` itself, or one that is not
direct and so is not closed under it), and in which each output of the module has
the devices wanted of `o`. Such a list still ends well when outputs are closed
(`OnlyJoin`: what is kept of a list in two parts is what is kept of each) and when
others of the same devices are patched behind. Three more parts are needed. In a
call the list ends with outputs that reach the call's devices, playing or not
(`CallInv`): `startSource` forces a patch only against outputs that do. An output
with a sound other than music has the speaker (`SoundInv`), so that the end of the
sound is a change and is patched. An output with music has some device
(`MusicInv`), so that `stopSource` finds it among the rest to be routed. TLC checked
each of these on the instance of the run, and for some minutes on two larger ones that it
did not finish, before it was proved.

It assumes `OneBackend` of the configuration: the outputs heard in a call are on one
module and reach all that a call goes to (`OneCallModule`), only music plays on
direct outputs and everything else on ones with the speaker (`MixedSounds`), the
outputs of a module reach the devices for media alike (`ModuleReach`), and those
beside the primary one earpiece and headset (`CallReachTogether`). Each is needed:
with an instance that lacks one of them TLC finds `RoutedAsWanted` violated in a
few steps: enforced sounds on a deep buffer that does not reach the earpiece
(`OneCallModule`) or on a direct output (`MixedSounds`), a deep buffer that reaches USB
beside a primary output that does not (`ModuleReach`), or one that reaches the
headset but not the earpiece, in a voice call over IP (`CallReachTogether`). The run's own instance meets
all of these hypotheses, which `MCAudioRouting` states as an assumption that TLC
evaluates.

**KeyHandler_proofs.** `TypeCorrect`; `LightEnds`; and `SensorsFollow`, which assumes
`~ChangesWhileOff` and `SettlesFirst` (`key_settings` shows the
need; either alone breaks it). The strengthening says, for each sensor, that the last task
about it that waits, or its registration if none waits, agrees with the display
and with the settings of the time at which the display last went off, which are
still those of now. It holds for any settings and any length of the queue.

**Only model-checked.** Liveness (`UpdateCompletes`, `BindingEnds`, `SensorsSettle`),
which is out of the prover's reach under fairness, and the two invariants of the
medium, `BootableAfterPowerLoss` and `PowerLossIsAtomic`.

## 6. Where the code departs from what it says

The first of these is a run; the others are configurations that end with a
counterexample of a few steps (`tlc -config <name>.cfg <module>`). Their
properties are in the MC modules where no run checks them.

| configuration | module | what it shows |
|---|---|---|
| `xbl_restart` | `MCBootUpdate` | "Stage already set - ready for update" (gpt-utils.cpp:822) is decided without a look at the boot LUN. If UPDATE_BACKUP is cut short between line 888 and line 899, the main boot LUN is selected again, and UPDATE_MAIN still returns 0 |
| `power_loss` | `MCBootUpdateCached` | Nothing between the write of the secondary GPT (line 856) and the spoiling of the primary (869) waits for the first to be on the medium. Blocks may be written back in any order, so a loss of power can leave no valid table: `BootableInAnyOrder`, where `BootableAfterPowerLoss` excepts the LUNs whose writes have crossed |
| `grip_stale_reset` | `GripBinding` | The reset after the last retry is never withdrawn (GripSensor.java:130, 141): a service that connects late is put back to UNBOUND while it is connected |
| `gpt_durable` | `MCGptDisk` | `gpt_disk_commit` (1563) returns 0 without `fsync`: a loss of power can take the commit away. (Nor is it atomic on the medium once writes to the two GPTs have crossed, which `PowerLossIsAtomic` excepts) |
| `partition_list_full` | `MCPartitionTable` | "Check if the current LUN is not already part of the lun list" (970) ends at `MAX_LUNS - 1` entries, and nothing looks at the end of the list (983): it is overrun, or a LUN listed twice. It takes more LUNs than a device of this family has |
| `audio_enforced` | `MCAudioRouting` | FORCE_FOR_SYSTEM that changes while an enforced sound plays (1092, 1253): alarms are left muted, or unmuted too early |
| `key_settings` | `KeyHandler` | What is registered at display off and what is unregistered at display on are decided by the settings of the two moments (KeyHandler.java:453, 478): one that changes in between, or of which the observer hears too late, leaves a sensor registered with the display on |
| `key_blocked` | `KeyHandler` | Nothing resets `proximity_state` (186) when the proximity sensor is unregistered: a phone taken out of a pocket too late keeps its fingerprint sensor blocked. `mProxyIsNear` is as stale in `isDisabledKeyEvent` (369) |
| `key_light` | `KeyHandler` | The end of a press is only heard while the display is off (346): one that comes on under the finger leaves the area lit |
| `audio_restore` | `MCAudioConcurrency` | The primary output is restored only on a change from a call straight to NORMAL (AudioPolicyManager.cpp:780): through RINGTONE it stays suspended |
| `audio_all_sessions` | `MCAudioConcurrency` | "Close compress all sessions" (753) closes outputs by index while the list shrinks, and passes over the next one |
| `audio_early_input` | `MCAudioConcurrency` | "Need to block input request" (1873) is asked when an input is opened; one opened before the call can be started in it |
| `audio_failed_start` | `MCAudioConcurrency` | A start that fails (2024) leaves `mIsInputRequestOnProgress` set, and compressed playback refused |
| `audio_va` | `MCAudioConcurrency` | The parenthesis of the condition at 2095 makes it true for clients that are not on the primary module |
| `driver_rog3` | `MCDriverSettings` | On the ROG phone `gestureMode` starts at zero with every page (GestureSettings.java:257): the first change turns off all other gestures (`OneAtATime`) |
| `driver_early` | `MCDriverSettings` | A page used after a boot before `Startup` reads an empty mask from the driver and stores it over the other gestures (`OneAtATime`). The driver is taken to answer with the number of the mask; with the binary digits it is given, `Integer.decode` (258) makes another number of them |
| `driver_switch` | `MCDriverSettings` | `restoreAfterUserSwitch` (Startup.java:139) writes only what is enabled: what the other user turned on stays on |
| `driver_glove` | `MCDriverSettings` | The tile stores glove mode where it is read only once (GloveModeTileService.java:67) |

A short write needs no configuration of its own: the properties of the passing
runs name it. `blk_rw` (gpt-utils.cpp:160-171) takes any transfer for a whole one.
A secondary table that falls short in UPDATE_MAIN is followed by the spoiling of
the primary (869), and that LUN has no valid table until UPDATE_BACKUP puts the
primary right: `Bootable` excepts it (`CutOff`) and holds of all others. A commit
returns 0 with an array that fell short, of which only the CRC tells:
`CommitIsAtomic`, `CommittedIsThere` and `PowerLossIsAtomic` say `Short`. Leaving out
that exception makes each of them fail.

## 7. Limits

- Boot update: a header is one block and atomic, an array is not; a CRC is as
  good as the array it was made from. The boot loader and the installer are models
  of what this code expects of them.
- GPT editing: clients compute the CRCs before they commit, as the comment of
  `gpt_disk_update_crc` asks. A header is one block, read and written whole or not
  at all. What the calls leak is left out.
- Audio concurrency: text-to-speech, wireless display, haptics, music into
  a call and `vendor.audio.pcm.direct.disable` are left out, and so are compressed
  requests for DIRECT without COMPRESS_OFFLOAD. `NoDeepInCall` is checked with the
  voice feature alone: with both, a recording in a call sends music to the deep
  buffer. DSD is refused by `isOffloadSupported`
  (492), but not by `getOutputForDevices` to a player that asked before the call: no
  property promises otherwise. Opening a direct output may fail at any time, mixed
  outputs are always open. The runs have the fast fallback; with the deep buffer,
  which the constructor may also take when it misreads the property (61), calls
  pass over an offload output as in `audio_all_sessions`. The theorems say which of
  them need the fast one. The platform's part of `stopInput` does not fail.
- Audio routing: three devices of the phone itself, one display and one USB
  device, one of each; preferred devices, dynamic policies, remote submix, the
  beacon, duplicated outputs, waiting times, volume curves and the captures in
  `setForceUse` are left out, and so are the returns of NO_MEMORY (172, 354), of
  which the second leaves the HAL with an input that is not listed. Music on a module of its own is not held to
  `RoutedAsWanted` in a call: the code does not look at it then.
- Key handler: what a gesture launches, doze pulses, the names in the watched
  file and the driver's double tap are left out. Broadcasts and observers run on
  one thread each; a reading is handled in one go.
- Grip service: the death of the remote process and its callback are one step,
  the main thread keeps up with the clock, what a squeeze says and wake locks are
  left out. A second `onStart` in one process is planned.
- Touch panel: handlers are atomic, so a process that dies within one is not
  modelled; the display rate and the double tap are left out.
- Not modelled: partition lookup (paths only), settings that store one value and
  pass it on, the pages that show them, and what is configuration (section 1.1).
  `init_sm8250.cpp` assigns properties by the contents of three files it reads once, and
  `sparse_crc32.cpp` is a table of 256 constants and a loop over bytes: models of
  them would be those tables again.
