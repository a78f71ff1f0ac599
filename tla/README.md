# Verification of Mu-Barley

Mu-Barley is a UEFI firmware for the Lenovo Tab M11 ("barley", MediaTek
MT6768), a descendant of the Mu-Silicium multi-device firmware. The EDK2/Mu
core (DXE dispatcher, task-priority levels, event services, the SD and eMMC bus
drivers) lives in submodules; what this repository adds are the silicon and
platform drivers. This directory holds TLA+ specifications of that added code,
the TLC runs that check them on small instances and the TLAPS proofs of the
properties that matter most.

## 1. Inventory

Paths are relative to `src/Silicon` unless they begin with `Platforms`.

| Component | State it keeps | Operations | Interacts with |
|---|---|---|---|
| MSDC command engine, `MediaTek/MediaTekPkg/Drivers/MsdcDxe` | controller registers (command line, data phase, FIFO, write-one-to-clear interrupt status, reset and clear bits), the packet in progress | `MsdcPassThru` and the polling loops below it | called by the SD/eMMC bus drivers and by bring-up; the controller runs concurrently |
| MSDC bring-up, same file, and `MediaTek/MT6768Pkg/Library/MsdcImplLib` | per host: rails, clock gates, bus width and clock of host and card, `mMsdcHosts` | `InitMsdc`, identification, `CardSetBusMode`, `MsdcExitBootServices` | command engine, clock driver, PMIC regulators, GPIO; the card, which may lose commands or responses |
| Clock driver, `MediaTek/MediaTekPkg/Drivers/ClockDxe`, with the tables of `MT6768Pkg` and `MT6789Pkg` (`Library/ClockImplLib`) | gates, muxes and PLLs of the SoC | `SetEnable`, `SetParent`, `SetFrequency`, `Get*` | every driver that needs a clock; parents are shared, there are no reference counts |
| PMIC wrapper, `MediaTek/MediaTekPkg/Drivers/PmicWrapperDxe` | the WACS2 state machine | `Read`, `Write` of a PMIC register | PMIC driver; the wrapper hardware may answer late |
| PMIC driver, `MediaTek/MediaTekPkg/Drivers/MT6358PmicDxe` | regulator enables and voltages, button status | `SetEnable`, `SetVoltage`, `PowerButtonPressed`, ... | PMIC wrapper; MSDC bring-up, keypad, touch power |
| Keypad console, `Silicium/SiliciumPkg/Drivers/KeypadDxe` | two key rings, lock state, the list of key notifications, four events | `ReadKeyStroke(Ex)`, `SetState`, `RegisterKeyNotify`, `UnregisterKeyNotify`, timer and notify callbacks, `Start`, `Stop` | console splitter (caller), keypad device (polled every 20 ms) |
| Keypad device, `Platforms/Lenovo/barleyPkg/Library/KeypadDeviceLib` | per key: state, time held, long-press flag | `Reset`, `GetKeys` | PMIC buttons, keypad console |
| UFS driver, `Samsung/SamsungPkg/Drivers/UfsDxe` | one UTP slot and its descriptors in memory, UIC commands, flags, attributes and unit descriptors read from the device, the units installed | `InitUfsDriver`, `UfsReadBlocks`, `UfsWriteBlocks` | the controller and device run concurrently and share the descriptors; callers of block I/O |
| GPIO driver, `MediaTek/MediaTekPkg/Drivers/GpioDxe` | pin direction, level, mode | `Set*`, `Get*` | MSDC bring-up |
| Touch power, `Platforms/Lenovo/barleyPkg/Drivers/BarleyTouchPowerDxe` | one rail | entry point | PMIC driver |
| Boot graphics, `Platforms/Lenovo/barleyPkg/Drivers/BarleyLkGopDxe`, `SimpleFbDxe`, `FrameBufferSerialPortLib` | frame buffer, cursor | `Blt`, `Write` | the display the boot loader left on |
| Boot flow, `BootManagerLib`, `DeviceBootManagerLib`, `MsBootOptionsLib`, `SecureBootHandlerLib`, `UFPLoader` | boot options, key variables | platform hooks | UEFI variables |
| Memory, `RamManagerDxe`, `MemoryInitPeiLib`, `MemoryMapLib` | memory map | one pass at boot | PEI/DXE cores |
| Tables, `SmBiosTableDxe`, `AslUpdateLib`, `AcpiTableUpdateLib` | ACPI and SMBIOS tables | one pass at boot | table protocols |
| MUSB, `MtkMusbHostDxe`, `MtkMusbDeviceDxe`, `MtkMusbCoreLib` | none kept | scaffold that probes registers | - |
| Other Samsung, Qualcomm and NVIDIA drivers | SD, I2C, SPEEDY, SMMU, ... | see `PROJECT.json` | other devices than barley |

### Behaviours that are hard

* The MSDC controller runs while the driver polls it. It may answer a command
  the driver has given up on, raise a ready and an error status together, end a
  data phase in the middle, keep a reset pending for longer than the driver
  waits, and run an automatic CMD12 after a transfer has been reported done.
* A card may act on a command whose response the host never sees. Host and card
  then disagree about bus width, and the driver must end in a state that the
  card shares.
* Rails and clocks are shared; enabling is a sequence of steps any of which may
  fail, and host 0 must keep what the boot loader set up.
* Keypad callbacks run at two task-priority levels and preempt the console
  calls; notify functions may register and unregister notifications.
* A key is made of polls 20 ms apart, some of which fail; a press may begin
  before a reset, end between two polls, or become a long one in the middle.
* A UFS request the driver has given up on is not aborted. The controller may
  carry it out later, into memory that is in use again by then.
* Key rings, FIFOs and poll budgets have limits.

What makes a component correct is said property by property in section 3; the
hazards each property is for are in `PROJECT.json`, at their lines.

## 2. Modules

```
MsdcTransaction  <--implements--  MsdcHost  <--  MCMsdcHost, MsdcHost_proofs
ClockTree  <--extends--  MtkClock     <--  MCMtkClock, MtkClock_proofs
           <--extends--  MsdcBringUp  <--  MCMsdcBringUp, MsdcBringUp_proofs
ClockEntries  <--  Mt6768Clocks, Mt6789Clocks  <--  ClockTables
ClockTables  <--extends--  ClockRates  <--  MCClockRates, ClockRates_proofs
RegisterBus  <--implements--  PmicWrapper  <--extends--  Mt6358Regulator
                    MCMt6358Regulator, Mt6358Regulator_proofs  --^
KeyQueue  <--implements--  KeyRing  <--extends--  BarleyKeys
                    MCBarleyKeys, BarleyKeys_proofs  --^
KeypadConsole    <--  MCKeypadConsole, KeypadConsole_proofs
KeypadLifecycle  <--  MCKeypadLifecycle, KeypadConsole_proofs
UfsTransport  <--extends--  UfsDriver  <--  MCUfsDriver, UfsDriver_proofs
```

Abstract specifications: `MsdcTransaction` (what the pass-through protocol
promises the bus drivers), `RegisterBus` (what the PMIC wrapper promises the
PMIC driver) and `KeyQueue` (what the key ring promises the console).
`ClockTree!BitsAfter` is the contract between the two clock models: one
`SetEnable` call, made of many register writes, ends as `BitsAfter` says
(`EnabledTicks`, checked by the clock run and proved for every table), and
`MsdcBringUp` uses that as one step.

### How state and actions correspond to the code

**MsdcHost.** The controller registers are variables: `int` is `MSDC_INT`
(write one to clear), `cmd` the command line, `data` and `left` the data phase,
`stop` the automatic CMD12, `rx` and `tx` the FIFO, `rst` and `clr` the
self-clearing bits, `dat0` the busy line. `pc` is the place in `MsdcSendCmd` and
in the loops it calls, `poll` the iterations left, `obs` the status a loop has
read and is about to acknowledge. There is one action per loop or routine
(`MsdcWaitReady`, `CheckFifo`, `MsdcReset`, `MsdcClearFifo`,
`MsdcClearInterrupts`, `WriteCommand`, `MsdcPollInterrupts`, `MsdcPioRead`,
`MsdcPioWrite`), taken once per iteration, so that the controller moves between
any two register accesses. Register contents carry the number of the transaction
they belong to; nothing in the driver or the controller looks at it.

**ClockTree, MtkClock.** A `SetEnable` call is turned into the list of register
writes of the recursion, the root's first, and `ClockWrite` performs one write
per step. A mux has the selector the CPU reads and the one that is latched by the
update strobe. **ClockRates** is the arithmetic: the PLL value and post-divider,
the frequency read back, the MSDC divider and the data timeout, with 64-bit
intermediate values split to stay within TLC's integers.

**ClockEntries, Mt6768Clocks, Mt6789Clocks, ClockTables.** The two `gClocks`
tables entry by entry, 215 clocks of the MT6768 and 226 of the MT6789, with the
register fields, types and parents `ClockDxe` uses. An entry stands for the
lines of its initialiser; what the macros and defaults of `MTK_CLOCK_DESC` give
all entries of a kind is said once in `ClockEntries`. `ClockTables` walks from a
clock to a parent as every recursion of `ClockDxe` does.

**MsdcBringUp.** `at` is the next step of `InitMsdc`, of an identification
routine or of the `ExitBootServices` callback for host `cur`. The card has a bus
state, a width and the effect of CMD55; every command may be lost, be obeyed with
its answer lost, or be answered. Regulator writes may fail with or without
effect. `Undo` is the tail of `InitMsdc` for a host that failed.

**PmicWrapper.** `fsm` and `rdata` are the fields of `WACS2_RDATA`; `call[l]` is
the call made at priority level `l`, with a step for each access of
`WacsCommand`, `PmicWrapperImplRead` and `PmicWrapperImplWrite`. The bounded polls
are an action that sees the state waited for and one that gives up.
**Mt6358Regulator** adds the calls of the PMIC driver as sequences of wrapper
calls at level 1 (`job`), and the key reads of the timer at level 2.

**KeyRing** is the ring with its two indices. **KeypadConsole** keeps what the
ring implements, a bounded sequence: a console routine raises the TPL around its
accesses and is one step; the notify handler walks the list entry by entry and
the functions it calls use the console in between. Freed entries keep their link,
as freed pool does. **BarleyKeys** puts the buttons in front of the ring: a poll
reads one button per step, each with its `KEY_CONTEXT`, so that the user presses
and releases in the middle of a poll; time is counted in ticks between polls and
saturates at the hold threshold, since nothing tells longer times apart. What
the latest press of each button has led to is recorded beside it. **KeypadLifecycle**
has one action per boot service that
`Start` calls, each of which may fail.

**UfsTransport** is the command engine of `UfsDxe`: `mem` is the command
descriptor with the status and response in it, `door` and `is` the doorbell and
interrupt status, `run` the request the controller is carrying out, which it
took from `mem` when it looked. One action per routine below
`UfsUtpQueryRetry`, `UfsUtpCmdProcess`, `UfsUtpNopProcess` and `UfsSendUicCmd`,
one per iteration of a wait, so that the controller fetches, executes, clears
the doorbell and raises its status between any two. A late request may find its
buffer freed and in use again. **UfsDriver** is `UfsInitInterface` as a sequence
of steps, the loop over units of `InitUfsDriver`, and block I/O calls in chunks.

Code outside `src/` is modelled from its use and marked external in the map: the
MSDC controller and the cards, the UFS controller and device, the WACS2 channel, the clock hardware, what LK
leaves behind, and the task-priority and list rules of the EDK2 core.

## 3. Runs

Every run ends with the whole state space explored. The three marked "refutes"
show that the code does not do what one of its comments or notes says.

| Run | What is checked | Instance |
|---|---|---|
| `host` | `StatusIsOwn`: a loop acts on status of its own transaction only; `CleanIssue`: nothing earlier runs when `SDC_CMD` is written; `ReadIsOwn`, `WriteIsOwn`: a success moved all units of this transaction and no leftover; `ErrorsWin`; `Returns`; `ContractSpec`: implements `MsdcTransaction` | one packet of each class the code tells apart, three transactions (one to leave something behind, one to meet it, one after the recovery), a block of three units over a FIFO of two, polls of two to four |
| `clock` | `PllSequenced` at every register write; `EnabledTicks`; `EnableOnlyStarts`: an enable stops no clock; `SwitchesOnce`: a mux is never latched on a cleared selector. `EnabledTicks` also says that the many writes of a call end as `BitsAfter` does | the MSDC, AES and AXI branches of the MT6768 table, a selector with a value beyond `ParentCount`, any initial state of PLLs and selectors, every other stage on at first |
| `rates` | `PllRateKept`: what a PLL was set to is what is read back, with its VCO within limits; `CardRateKept`: the card clock is never faster than asked and the data timeout never shorter; `TablesSound`: from every clock and over every selector the walk meets no clock twice and ends at a fixed one, and no control bit belongs to two clocks or two fields | the limits of the MT6768 PLLs, every frequency at which the post-divider changes and its neighbours, source clocks of 26 to 416 MHz, the three card rates the driver asks for; both tables whole |
| `bringup` | `InstalledReady`: an installed host is powered, selected, no wider than its card and clocked up to the root, but for the stages it shares with a later host that was given up; `RailsSafe`: a failed host is off and never back-powered; `PreservedKept`; `HandoffSafe`; `InitReturns` | the two hosts of barley, eMMC preserved, two OCR retries |
| `width_fallback` | refutes `WidthsAgree` | same |
| `pmic` | `SuccessIsOwn`, `CleanSucceeds`, `BusSpec` (implements `RegisterBus`) of the wrapper; `SuccessSticks`: a SetEnable that succeeded is not undone by a late write; `OnlyItsBits`; `GateFollowsRail`; `JobsReturn` | every content of the two registers of the gated card supply, timer reads between any two wrapper calls |
| `pmic_nested` | refutes `EnabledIsTrue` | the timer may also preempt a wrapper call |
| `ufs` | `SlotFree`: as long as nothing was given up the slot is the driver's alone when the doorbell rings; `InitFinished`; `InstalledIsEnabled`; `DataIsOwn`: sizes and transferred blocks are those asked for; `CleanBringUp`: nothing but a failure elsewhere makes the driver give up; `Returns` | two units of which one is enabled, two blocks, chunks of one, one poll after the first, two tries and two reads of fDeviceInit, one call, one failure besides slowness |
| `keys` | `EachPressOnce`: a press is one key, and Escape only when held long enough; `QueueSpec` (implements `KeyQueue`) | the power button, a ring of four slots, a long press of two ticks, one failed read or reset per press |
| `keypad_console` | `SignalsAgree`: no key waits without a signal and no signal is without a key; `NotifiedAll`; `PressesServed` | two keys and the key that cannot be converted, queues of two, two notify entries, functions that read, wait, reset and register |
| `keypad_unregister` | refutes `UnregisteredSilent` | one key, functions that unregister |
| `keypad_lifecycle` | `InstalledWorks`: an installed console has its memory and events, and its timer unless a Stop failed on it; `CanRetry`: after a failure its fields still name what exists and the device is held only for an installed console | three starts |

### Why the bounds are enough

* `host`: a leftover needs an earlier transaction, and an error in the recovery
  from one needs a third. Block and FIFO sizes are chosen so that a transfer
  needs more than one FIFO fill and ends with a partial one. Poll counts
  only decide whether a loop gives up before or after the controller moves; two
  give both, the data phase needs one per chunk.
* `bringup`: hosts interact through the clock tree and through `InitMsdc`'s order
  only; two hosts have every ordered pair.
* `pmic`: values are sets of two bits, the one the driver writes and one that it
  must leave alone. A third level of preemption does not exist in the code.
* `rates`: the tables are finite and whole; the call that is made is one of a
  PLL, a card clock or a walk, since none depends on what an earlier one wrote.
* `ufs`: one failure besides slowness and two tries let a request be given up,
  retried and answered late; a second unit, not enabled, is what a late or wrong
  answer could confuse with the first, and two blocks in chunks of one are what
  a wrong offset needs.
* `keys`: buttons share nothing but the queue, so one is enough for TLC, and it
  is the one with everything (long press, reads that fail). With four slots the
  ring is empty, full, wrapped and not. The theorems cover every other choice.
* `keypad_console`: an overflow, a second signal and a second entry need two of
  each.

`CHECK_DEADLOCK FALSE` stands where the system really stops: `host` after
`MaxTxn` transactions, `bringup` after the handoff or an unloaded driver, `ufs`
after a failed bring-up or the last call, `rates` after its one call. The other
runs check for deadlock.

### Fairness

The driver code runs on one processor and never blocks: weak fairness on its
steps (`Driver`, `InitMsdc` and the handoff, `HandlerStep`). Nothing is assumed of
the MSDC controller, the cards, the callers or the user. In `ufs` the waits for a
reset or enable bit have no bound in the code, so the bit is taken to change in
the end (`HwReady`); of the way requests are carried out nothing is assumed. In `pmic`, a channel that
is not `slow` answers, since the code's 10 ms bound presupposes that; a slow one
may never do. Level 1 is interrupted again and again by the timer, so its steps
have strong fairness: the callback returns, its own polls being bounded, and the
interrupted code goes on before the next tick.

## 4. Proofs

TLAPS checks these for every value of the constants that the named assumptions
allow.

| Module | Theorem | Statement |
|---|---|---|
| `MsdcHost_proofs` | `TypeCorrect` | types, and the FIFO never exceeds its size |
| | `StatusOwned` | `StatusIsOwn` |
| | `IssueClean` | `CleanIssue` |
| | `ErrorWins`, `OwnRead`, `OwnWrite` | `ErrorsWin`, `ReadIsOwn`, `WriteIsOwn` |
| | `ContractTheorem` | the command engine implements `MsdcTransaction` |
| | `DriverConverges`, `CallBounded` | every driver step brings the call nearer to its end; the number of steps it can take |
| `MsdcBringUp_proofs` | `InstalledHostIsReady` | `InstalledReady`, its exception for shared stages included, for any hosts, tree, widths and retries |
| | `RailsAreSafe` | `RailsSafe` |
| | `HandoffIsSafe` | `HandoffSafe` |
| | `PreservedIsKept` | `PreservedKept` |
| | `BringUpBounded` | the number of steps of bring-up and handoff, for any hosts and retries |
| `MtkClock_proofs` | `PllsAreSequenced` | `PllSequenced`, for any table without a cycle and any calls |
| | `EnabledClockTicks` | `EnabledTicks` |
| | `EnableStopsNothing` | `EnableOnlyStarts` |
| | `SwitchesAsAsked` | `SwitchesOnce` |
| `ClockRates_proofs` | `PllReadsBack` | `PllRateKept`, for any VCO limits, parent clock and field widths |
| | `CardRateIsKept` | `CardRateKept`, for any source clock and rate the divider field can hold |
| `Mt6358Regulator_proofs` | `SuccessTheorem` | serial calls that succeed were carried out and return what their own command found |
| | `CleanTheorem` | a call on a channel that owes no answer fails only when its own command is late |
| | `BusTheorem` | serial calls implement `RegisterBus` |
| | `SuccessIsFinal` | `SuccessSticks`, for registers of any width |
| | `BitsAreKept` | `OnlyItsBits` |
| | `GateIsSequenced` | `GateFollowsRail` |
| | `AnswerIsTrue` | `EnabledIsTrue`, under the condition `pmic_nested` shows to be needed |
| | `SharedSuccess`, `SharedClean`, `SharedBus` | the wrapper's own properties when regulator calls and key reads share it |
| | `JobsBounded` | the number of steps of a regulator call and of a key read, preempted or not |
| `BarleyKeys_proofs` | `TypeCorrect` | indices stay in the ring |
| | `QueueTheorem` | for every number of slots the ring implements `KeyQueue` |
| | `PressOnce` | `EachPressOnce`, for any buttons, threshold and bound on failures |
| | `PollsQueue` | the ring with the buttons in front of it still implements `KeyQueue` |
| `KeypadConsole_proofs` | `Signals` | `SignalsAgree`, for any keys, capacity, registrations and functions |
| | `AllNotified` | `NotifiedAll`, if no function unregisters: the condition `keypad_unregister` shows to be needed |
| | `Works`, `Retry` | `InstalledWorks` (the timer only of consoles on which no Stop failed) and `CanRetry`, for any number of starts |
| `UfsDriver_proofs` | `UnitsEnabled` | `InstalledIsEnabled`, for any units, sizes, budgets and failures |
| | `SlotIsTheDrivers` | `SlotFree`, for any budgets and any order of the controller's steps |
| | `BootIsOver` | `InitFinished` |
| | `DataIsMoved` | `DataIsOwn`, for any units, sizes, chunks and calls |
| | `CleanBringsUp` | `CleanBringUp` |
| | `CallsBounded` | the number of driver steps of bring-up and of a call, for any units, sizes, retries and polls |

*Host.* `StatusIsOwn` is not inductive: that a status belongs to the current
transaction depends on what can still be running when `MSDC_INT` is cleared. The
invariant `Safe` follows the path of `MsdcSendCmd`: after the wait for the busy
flags no earlier command is on the line (`QuietInv`); after the FIFO check and
the resets nothing earlier moves data (`DrainInv`); after `MsdcClearInterrupts`
no earlier status is raised (`IssueInv`); and during the command and the data
phase every status bit, and every phase that can raise one, is the current
transaction's (`CommandInv`, `DataInv`, `SampleInv`). A lemma sums up what any
step of the controller can do (`ControllerSummary`), so that each part is
shown once for the controller and once for each driver action.

*Transfers.* `TransferInv` adds two parts to that. `ErrInv` is about status: what is
raised for the current transaction was raised when the phase concerned ended, so
nothing is added to it afterwards (`NumberInv`); until it is seen it stays in
`MSDC_INT` (`PendingInv`); and so a loop that sees the end of a phase sees every
error of that phase with it (`SeenInv`). `UnitInv` counts units: got and still
to come for a read, sent, in the FIFO and still to come for a write add up to the
length, and all are the transaction's own. A by-product, `IdleFifoInv`: no
transaction leaves units in the transmit FIFO, so of the two FIFO counts
`MsdcSendCmd` checks before a command only the receive count is ever not zero.
The refinement needs in addition that while the engine recovers, and after it has
returned an error, what still goes to the wire stays within the transfer
(`MoveInv`).

*Bring-up.* `IInv` has the script as its backbone. `Order` says which hosts have
been dealt with; `Supply`, `Script` and `Gates` say for the host at hand, step by
step, which rails are on, what the card has been brought to and which clocks run;
`Ready` and `RailsSafe` say what holds of the hosts that are installed or given up,
and `Handoff` how far the callback has come. `Cards` adds the facts that hold at
any time, among them that a card is off exactly while its main supply is. One
lemma per kind of step (commands, regulator writes, the rest) says what it changes
of the host at hand, and `Kept` that it changes nothing of another one. The last
is where sharing matters: a host switches whole paths of the clock tree, and the
gates of one host are on no path of another (`HostClocksAssumption`, which TLC
evaluates on the barley instance). PLLs and bus clocks are shared, and nobody
counts who uses them: giving up on a host stops them under the hosts installed
before it (section 5). `InstalledReady` says that this is all that is lost. Its
part `Clocked` has an invariant of its own, `ClockInv`: an enable of other clocks
only starts stages, and a disable stops those of the host given up, whose gates
stay closed from then on, so that it remains in `GivenUpAfter`. `HandoffSafe` excepts the cards that lost a
command of the callback, `PreservedKept` holds of each step by its own.

*Clock tree.* A call is a list of writes, the concatenation of those of every clock
on the path, and the invariant `ClockInv` says of the ones left: each comes after
those its bit has to wait for, either because the bits they write have moved
already or because they are earlier in the list (`InOrder`); and every bit of
every clock on the path has moved or is in the list (`Covers`). So the next write
never breaks the sequence of a PLL, and when none is left the path is as
`BitsAfter` says. Writes of an enable move bits one way only, which is why none
of them stops a clock. For `SetParent`, `Switching` says what is left of the three
writes and what the selector reads. That the list of a call has these properties
goes over the depth of the tree. The provers have no induction over data, but the
table has no cycle: of the clocks for which a statement fails there is one whose
parent is not among them (`Rootward`), and that one is refuted. That the recursive
functions `path` and `writes` exist at all is shown in the same way
(`TreeRecursion`). The assumptions are `ClockAssumption` and `TableAssumption`:
types, one parent for what is not a mux, no cycle, and a reset bit or a sense only
where the descriptors have them; `TablesSound` checks the walk on the real tables.

*Rates.* A call programs whole fields, so `RatesInv` only says that what is
programmed is what the last request computes; the work is in the arithmetic. The
smallest shift that lifts a request above FMin leaves it below twice FMin
(`PostDivIs`), so the VCO never passes FMax. The multiplier rounds the VCO down by
less than a third of a unit, because the fraction has room for three times the
parent's rate; dividing it up again and rounding to 100 kHz returns the request
(`RoundTrip`). `MclkIs` bounds the card clock in each of the three branches of
`MsdcSetMclk`, and `TimeoutIs` the units of 2^20 clocks. `VcoAssumption` and
`CardAssumption` state the limits within which this holds, and TLC evaluates them
for the PLL limits and the source clocks of the run. Outside them a rate below 1 Hz
leaves `Sclk` zero, which `MsdcSetTimeout` refuses; a source above 1 GHz makes the
period it divides by zero; and a divider above 4095 spills into `CKMOD`. None of
the three rates the driver asks for meets any of these.

*PMIC wrapper.* `Phase` says for each step of the call where the answer to its
command can be: not yet issued, pending in the channel, in `WACS2_RDATA`, or
taken. The refinement maps a call to the state `called`, `done`, or its result,
and the write of a call that was given up to the `orphan` of `RegisterBus`; the
step that carries out a command is `Execute` or `Land`, every other step of the
driver is a stutter, `Begin`, `Succeed` or `Fail`. All of it is shown for steps of
serial calls (`SerialNext`): a call begins only while no other level is in one,
and level 2 only reads. The theorems about the wrapper alone have `Levels = {1}`.

*Regulators.* The theorems assume `Separate`: the timer callback does not begin a
wrapper call in the middle of another one, which is the condition `pmic_nested`
shows to be needed. Then every step makes serial calls, and the argument is about
the register bus only. `JobInv` says which commands a call of the PMIC driver is
made of (`Script`, `Command`), what the earlier ones of them have achieved
(`Progress`, `Begun`, `Reached`) and what a call that succeeded has (`Settled`). What
makes it inductive is `Left`: a write that was given up and can still land is an
update of what its register holds now, so that landing late it can neither bring
back an old value nor touch another rail's bits, and it is one that is safe in the
order of gate and rail (`Wise`). This needs each call to read the register again
before it writes it. The registers may have any width; that they hold every
combination of their bits is `RegulatorAssumption`.

*Key ring.* The abstract queue is the sequence of the `Size` slots from `head`
on. The lemmas relate the modular indices to positions of that sequence; each of
push, pop and clear is then the action of `KeyQueue` of the same name.

*Barley keys.* `EachPressOnce` speaks of the keys a press has led to; what makes
it true is that the history of a button and its `KEY_CONTEXT` follow each other.
`KeysInv` has the types, `Follows` ties the two together for each button
(`Reported`: how many keys, given whether the context is pressed and long) and
bounds the context's time by the time the button has been held (`InTime`). One
lemma per step, and one per branch of `UpdateKey`. `PollsQueue` is a composition:
each step of `BarleyKeys` is a step of `KeyRing` or leaves it alone, and
`QueueTheorem` does the rest.

*Keypad console.* `SignalInv` adds to `SignalsAgree` the types: a poll leaves the
notify queue empty or its event signalled, and popping, dropping partial keys and
resetting never takes the last full key away and leaves `WaitForKey` signalled.
`NotifiedAll` is about a walk that other calls interrupt. `WalkInv` says that the
list has no entry twice, that the walk is at an entry of it or past its end, and
that the functions of all matching entries before that place have been called;
a registration appends, so it moves neither. Only unregistering takes an entry
away, which is why the theorem assumes that no function does so.

*Keypad lifecycle.* `LifeInv` says what the console under construction has at each
step (`Made`): the events created so far exist, and its fields name them. Cleaning
up and `Stop` take away only what the fields name. `halted` is a history variable:
the consoles a `Stop` has failed on. On those the timer is gone although the
protocols are still there (`KeypadDxe.c:381-393`); on all others `InstalledWorks`
has it.

*UFS.* `InstalledIsEnabled` needs that a unit descriptor, in whichever answer it
arrives, says of the unit in its own index field what is true of it
(`Truthful`), for the answer in memory and for the descriptors kept; and that the
loop is past that descriptor when it installs (`AtUnit`). No assumption is made
about which request an answer belongs to.
`SlotFree` rests on `Slot`: while no request is given up, the status is clear of
the completion bit when the doorbell is rung, so during the wait that bit and the
doorbell together say how far the controller is, and the two checks of
`UfsHandleUtpInt` let the driver go on only when nothing is left of the request.
Before the reset the status is the boot loader's; nothing is rung there.
The other three are about requests that were not given up and failures that were
not taken for successes. `Places` ties the stage, the step and the request in memory
together; `Wait` says that during a wait the request the controller has is the one
the driver waits for, and that its answer, once there, is the answer to that. On
top of it `Boot` follows the flag `fDeviceInit` from the write to the reads (for
`InitFinished`), `Sized` the capacity of the unit the loop is at, and `Moved` the
blocks of a call, those of the chunks so far and of the one at hand (for
`DataIsOwn`). `Calm` is what holds as long as nothing but slowness has happened:
every wait ends with the result it is for, or by giving up, which counts as a
failure (for `CleanBringUp`).

*Bounded work.* That a call returns is a liveness property, and its temporal
conclusion is out of the prover's reach. What is hard in it is not: that no loop
starts another one over, whatever the hardware answers. Four theorems say so.
Each is about the component's specification with one more variable, `steps`, a
count of the driver's steps since the call began that no action reads
(`CountSpec`), and says that the count stays below a bound made of the bounds in
the code. The invariant behind it adds to the count what is left, a sum over the
place of the driver and its loop counters, and every driver step moves at least
one from one to the other.

| Theorem | Bound | Where it comes from |
|---|---|---|
| `CallBounded` | `BusyPolls + 4 * ControlPolls + 2 * CommandPolls + 2 * DataPolls + 4` | a command that uses every poll, fails on its last and is recovered from with both resets timing out |
| `BringUpBounded` | `2 * MaxRetry + 26` for each host, two more to hand it over, and one | a host that goes through its whole script with the OCR loop to its last turn, and is undone |
| `CallsBounded` | `Timeout + 5` for an attempt; attempts times retries for a request; requests times units, steps or chunks | every attempt times out |
| `JobsBounded` | 60 for a regulator call, 8 for a key read | three updates of fifteen steps each, the last failing at its end, and the rollback |

The bounds are attained on the instances of `host` (26 steps) and `pmic` (60 and
8). `JobsBounded` does not assume `Separate`: a
preempted wrapper call may take the wrong data, but it does not take longer.
`CallsBounded` leaves out the steps of the hardware (`HwReady`), for which the
code waits without a bound, and `BringUpBounded` counts a whole identification
command as one step, which `CallBounded` bounds in turn.

Only model-checked: the real clock tables (`TablesSound`), which are data without
a parameter that TLC walks as a whole, so a proof would say nothing more; and the
temporal part of liveness (`Returns` of `host` and `ufs`, `InitReturns`,
`JobsReturn`, `PressesServed`). For the first four the theorems above leave to TLC
that a call that is not over always has a next step to take, which is about
ENABLED, and that fairness takes it. `PressesServed` has no such bound: the notify
functions may register more functions while the list is walked.

## 5. Where code and comments disagree

Refuted by a run: the width fallback (`width_fallback`), the preempted wrapper
call (`pmic_nested`) and the notify function that unregisters
(`keypad_unregister`); `PROJECT.json` has the lines.

Seen while modelling, without a run of their own (paths as in `PROJECT.json`):

* `ClockDxe.c:292-313` opens a gate that has only a status register with the sense
  opposite to the one `ClockIsEnabled` (362-369) reads.
* `MsdcDxe.c:1930`: giving up on the microSD host disables `AP_MSDCPLL` and
  `TOP_AXI_SEL`, from which the eMMC host runs; the clock driver counts no
  references. The comment at 426 says LK may still have consumers on that tree.
* `MsdcDxe.c:429`: when the source clock cannot be enabled during a change of
  rate, `CCKPD` stays cleared and the card clock off.
* `MT6768Pkg/.../ClockImplLib.c:604-624`: `AP_APLL1` names neither `Parent` nor
  `PcwiBits`; its parent is the clock with id 0, the 32 kHz RTC, and its frequency
  is computed with 32 fraction bits.
* `MT6789Pkg/.../ClockImplLib.c:1118-1142`: base, power and multiplier register of
  the USB PLL are one word; 1342: the update register -1 of `TOP_MFG_PLL_SEL` is
  written by `ClockDxe.c:601`, 4 GB past the controller. `TablesSound` names both
  clocks as exceptions. Sixteen MT6768 gates share one register for set, clear and
  status, which is not an overlap of two clocks.
* `ClockDxe.c:127-132`: below `FMin / 16` the PLL is programmed with the divider 16
  and a value computed for 32; the output is twice the request.
* `MsdcDxe.c:992`: a preserved host that failed identification is not handed over
  at `ExitBootServices`, against `Docs/TB330XU-M2.62-HANDOFF.md:118-120`.
* `MsdcImplLib.c:209-214`: when enabling the I/O supply reports an error with the
  supply on, the rollback removes the card supply under it, against the comment at
  218-219.
* `MsdcDxe.c:1869`: out of memory on the second host, `InitMsdc` fails and is
  unloaded with the first host's protocols installed, against 1958-1959.
* `MT6358PmicDxe.c:659`: the status of the rollback is dropped; a late channel
  fails it as well and the rail stays on, against 634.
* `KeypadDxe.c:178`: with two entries that match a key, a press calls each
  function twice, against 167.
* `KeypadTextIn.c:457-465`: `SetState` sets the first of several flags only.
* `KeypadTextIn.c:530`: a function that is registered for a key with any shift
  state, and then for the key with one of them, gets the handle of the first
  registration again, so that undoing one undoes both.
* `KeypadController.c:68`: the first poll measures its time from (UINT64)-1. No
  harm comes of it: a released button starts its time at zero.
* `KeypadDeviceLib.c:40-48, 168`: a reset, or a read that fails, in the middle of a
  press lets the rest of it count as another press, after an Escape as well; a
  release and press between two polls is not seen. `EachPressOnce` excuses both.
* `GpioDxe` `SetMode` clears the mode field before it writes the new one, so a pin
  passes through mode 0.
* `UfsDxe.c:404`: an OCS other than SUCCESS is an error only if the response byte
  is not zero, for every request, although the comment at 401 excuses the NOP.
* `UfsDxe.c:886`: the gear asked for is fixed, whatever `MaxGear` was read; 1342:
  the LBA is cut to 32 bits; 1452: a failed allocation fails the entry point with
  the protocols of earlier units installed.
* `KeypadDxe.c:314-336`: a failed `Start` closes one event, and frees the console
  that an armed timer goes on using; without a console it walks a list at an
  offset of NULL. `KeypadDxe.c:381-393`: a `Stop` that fails leaves the console
  installed without its timer, so that no key comes any more; 400-409: one that
  succeeds leaves two events behind.
* `HsI2c.c:298`: the FIFO-empty bit does not fit the BOOLEAN it is stored in.

## 6. Not modelled

The reasons are in `PROJECT.json` for each component. In short: code without
state or control of its own (tables, memory map, frame buffers, scaffolds),
drivers of other devices, and the EDK2 core. Within the modelled components: the
response words and descriptors of cards, UPIU layout and the calibration tables
of UFS, the voltage tables and names of regulators, lookups by clock name or id,
and the translation of Ctrl letters. Integers that can wrap in the code but not
within its limits are natural numbers; the PLL value keeps its width
(`% 2^PcwBits`).

Left out of a handler that is modelled, because no property tells it apart:

* `MsdcPassThru`: the checks of its arguments and the `Event` path (121-148).
  `WriteCommand`: `SDC_BLK_NUM` is written before the wait for the busy flags
  (894-900), here with the command.
* `InitMsdc`: a failing `CreateEventEx` (1845-1848) ends it before any host is
  touched. `SetMclk`: a source clock whose rate cannot be read (387-390). `ClockOn`:
  a clock that cannot be enabled (1036-1039). The last two depend on the clock
  table only, and with barley's they cannot happen.
* `UfsHandleUtpInt`: `INTERRUPT_STATUS` and the doorbell are read one after the
  other (136-150), here in one step, as is the acknowledge. `UfsBlocks`: the
  checks of the arguments (1334-1337, 1359-1363).
* `RegisterKeyNotify`: running out of memory (541-545) and the entry that exists
  (528-533), which change nothing.

Properties with an exception, which therefore say nothing of the hazard's last
part: `PllRateKept` (a request below `FMin / 16`), `TablesSound` (the clocks named in
section 5), `RailsSafe` (an I/O supply left on by an enable that reports an error),
`InstalledReady` (stages shared with a later host that was given up),
`GateFollowsRail` and `SuccessSticks` (a rail left on by a rollback that fails: a call
that fails promises nothing), `DataIsOwn` and `InitFinished` (UFS requests given up, and
failures taken for success), `NotifiedAll` (a function called more than once),
`InstalledWorks` (the timer after a `Stop` that failed). What the code does
in each of them is in section 5 or with the hazard in `PROJECT.json`.

The map is a small share of the repository's C lines, and cannot be a large one:
most of them are OpenSSL and its glue (`Silicium/OpensslPkg`, vendored and
generated), protocol headers of Qualcomm without code, copies of drivers kept
for builds, and tables. What remains once those are set aside is named in the
plan.

## 7. Plan

Done: the modules above. What remains, in this order:

1. `SecureBootKeys`: the order of variable writes of `SecureBootHandlerLib` with
   a failure or reset between two.
2. `HsI2c` and `Speedy`: polled transfers with a FIFO, interrupt status and poll
   bounds, as `MsdcHost` has them.
3. `RamManager`: interval arithmetic against a reference definition.
