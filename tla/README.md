# Verification of the Mica boards repository

TLA+ models of the parts of this repository that keep state across failures and
concurrency, TLC runs that check them on small instances, and TLAPS proofs for every
value of the constants. Source paths below are relative to the repository.
`PROJECT.json` names, for every definition, the lines it models.

## 1. Inventory

| Component | State | Operations | Talks to | What is hard | What makes it correct |
|---|---|---|---|---|---|
| Deployment records (`common/uboot/mica-records.h`) | at most two records; a text of at most 512 bytes | parse, render, next, slot | the loaders | limits, one text per value, flag wraparound | canonical and complete scanner; the newer copy wins |
| Signed-file boot (`boards/{cx3576,s905x5m}/loader/mica-file-boot.c`) | two redundant copies on the medium, RAM buffers, the watchdog | gate, watchdog, disk, read, select and pay, load, bootm, retire, reset | the medium, the kernel, the running system, RockUSB recovery | power loss at every step, a volatile write cache, torn and failed writes, read errors, reset loops | a candidate is paid for before it is launched; records survive; a bad image does not hold the board |
| RockUSB flash service (`boards/cx3576/loader/patches/0001..0004, 0010`) | 1 MiB write cache, a sticky failure, the watchdog | write, flush, barrier commands, idle flush, disable | the USB host, the block device | the host is answered before the data is stored | acknowledged data is stored before any later command is answered, or the failure is reported |
| Bluetooth bridge (`boards/s905x5m/userland/skw_bridge`) | two threads, vendor socket, vHCI, a signal pipe, reassembly buffers | bring-up with retries, handshake, two forwarding loops, teardown | libskwbt, the kernel, signals | two threads, one signal pipe; reads and writes split anywhere | frames forwarded once, whole and in order; both threads end and nothing stays open |
| H4 framing (`userland/skwbt/include/skw_h4.h`) | bytes not yet consumed | decode, append, consume | bridge, libskwbt | packets split anywhere, lengths at the limit | what comes out is what went in, whole |
| libskwbt (`userland/skwbt/src`) | ports with a device, a socket pair and threads; one write lock | open, close, failure of a port | the bridge, device nodes | every port's thread writes to port 0's socket; failure and close from any thread | open ends with every port running or an error; no thread uses a closed port |
| BM201 front panel (`kernel/front-panel`, `components/bm201-front-panel`) | cached text, symbols, brightness; the controller's RAM; the service's last values | stores, probe, remove, shutdown, suspend, resume; the clock service | sysfs, driver core, systemd | concurrent writers, removal, a controller that loses its supply | what is shown is what was written last; off means dark |
| Platform driver, SDIO (`drivers/seekwaveplatform/sdio`, `skwutil`) | the chip's state and services, ports with ring buffers, the receive thread, images and NV data | boot, service start and stop, recovery, port open, read, write and close, suspend, binding | the chip, skwifi, user space | firmware asserts, a recovery that starts in three places, a shared completion, removal under readers | one recovery at a time; no packet or wakeup lost; buffers outlive their users; images arrive whole |
| Platform driver, USB (`drivers/seekwaveplatform/usb`) | URB pools, the tasklet, the boot ROM protocol, the exception work | reads, writes, kick, suspend, download, reset | the chip, skwifi | completions in interrupts against suspend and kick; a chip that hangs | no URB lost, no transfer out of order, only whole images started |
| Wi-Fi driver (`drivers/skwifi`) | commands, transmit queues and credits, reorder windows, scans, stations, access-point clients, keys, interfaces, regulatory domain, recovery | the cfg80211 operations, firmware events, workers and timers | cfg80211, hostapd, wpa_supplicant, the firmware | three locking regimes, refused commands, a firmware that restarts, answers that come late | driver, firmware and kernel agree; each request is answered once; nothing waits for ever |
| Release pipeline (`tools/`, `tools/deb/`, `.github/workflows`) | registry tags, locks, package pools | build, reuse, publish, lock | the OCI registry | two runs at once, a run that stops half way | not modelled, see 7 |
| Board tools, start-up scripts, device-tree, clock and kernel patches | files, registers | | | | not modelled, see 7 |

The Wi-Fi, SDIO and USB drivers are in this repository
(`boards/s905x5m/kernel/third/seekwave`). The models follow the configuration that its
`Makefile`, `include/linux/platform_data/skw6160_config.h` and
`boards/s905x5m/kernel/hooks/modules.sh` build:

- kernel 6.12, so `skw_wdev_lock` is the wiphy lock;
- skwifi with `SAP_SME_EXT`, `STA_SME_EXT`, the transmit work queue and a self-managed
  regulatory domain;
- the platform driver without `CONFIG_SEEKWAVE_PLD_RELEASE` and without
  `CONFIG_BT_SEEKWAVE`: Bluetooth is bound by `skw_sdio_bind_BT_driver`, after Wi-Fi, for
  BlueZ to attach, and the debugfs file `recovery` turns recovery on and off. It starts on
  over SDIO and off over USB (`skw_usb_io.c:2541-2542`);
- over SDIO the receive and Wi-Fi transmit paths with ADMA, the default of `skw_boot.c`
  (`TX_DMA_TYPE` of `boot_config.h` is the one of the USB driver);
- the chip SV6160, so the handler `skw_sdio_handle_packet` (`skw_sdio_main.c:1699-1703`
  chooses): the images in `boards/s905x5m/firmware/SWT6621_*_SDIO.bin` name it, and say
  `BTEXIT` and `slp=`, which only that handler reads. For this chip the handler recovers
  after a dump without `PLD_RELEASE` as well (`skw_sdio_rx.c:544` and `563`); for others
  it would not;
- the USB HAL: `kernel-s905x5m.config` has `CONFIG_SKW_USB=m`, the modules' Makefile
  passes `CONFIG_SKW_SDIOHAL=m` only. Its models are of the code as shipped.

## 2. Modules

| Module | Models |
|---|---|
| `BootRecords` | the values of `mica-records.h`: parse, render, next, slot |
| `RecordParser` | the byte scanner, one step per scanned piece |
| `FileBoot`, `BootLedger` | `mica_file_boot` of both boards; what the transaction promises, as an abstract specification |
| `RockUsb` | the RockUSB write cache, its handlers, the host and the device |
| `H4Frames`, `VhciBridge` | `skw_h4.h`; the bridge process with its two threads |
| `SkwTransport` | libskwbt's ports, threads, host socket and its lock |
| `FrontPanel` | the HT1628 driver and the clock service |
| `SkwModem`, `SkwPort`, `SkwSdio`, `SkwBind`, `SkwImage` | the SDIO platform driver: services and recovery; one user port; the receive path; the port devices; firmware images and download |
| `SkwUsb`, `SkwUsbBoot` | the USB HAL: URBs and suspend; download, LOOP thread and reset |
| `SkwCmd`, `SkwTx`, `SkwRx`, `SkwFrag`, `SkwKeys` | skwifi's command channel, transmit path, reordering, defragmentation, keys and replay detection |
| `SkwScan`, `SkwSta`, `SkwAp`, `SkwIface`, `SkwRecovery` | scans and the timer list; station; access point; interfaces and driver life; recovery after a crash |
| `SkwRegd`, `SkwMbssid`, `SkwWow` | regulatory domain; multiple-BSSID parser; wake-up rules |
| `MCFileBoot`, `MCLoader`, `MCVhciBridge`, `MCSkwChip`, `MCSkwData`, `MCSkwControl`, `MCSkwTables`, `MCSkwSta` | instances for TLC |
| `BootRecordsProofs`, `FileBootProofs`, `RockUsbProofs`, `VhciBridgeProofs`, `SkwChipProofs`, `SkwDataProofs`, `SkwTablesProofs`, `SkwControlProofs` | lemmas, theorems and their proofs (section 6) |

Names of actions and operators are those of the code where one exists. An operator
commented `Fault:` before a definition is a wrong variant of it that a run must refute.

### FileBoot

The two files differ in the gate before the watchdog, the device they accept, the
cache flush and the recovery they enter; `Board` selects. One action per step that
can be separated from the next by a power loss:

| Action | Code |
|---|---|
| `CheckRecoveryKey`, `CheckBoot0` | the verify policy, then the key (cx3576) or the boot source (s905x5m) |
| `StartWatchdog`, `OpenDisk` | watchdog; device, `valid_layout`, buffer |
| `ReadEnvironment` | `read_environment`: two reads, CRC, `mica_boot_slot`, decode |
| `SelectNext` | `mica_boot_next`, the decrement, and `persist_environment` up to the write |
| `WriteSd` / `WriteEmmc`, `FlushCache`, `ReadBack` | the rest of `persist_environment` |
| `LoadFit`, `Bootm` | the file checks; `bootm`, which returns only on failure |
| `SelectedFailed`, `Reset` | retirement of a confirmed image; `do_reset` |

`media` is what survives a power loss, `seen` what a read returns; they differ only
while the eMMC holds a copy in its cache. A write may land, leave the old copy or
leave one whose CRC is wrong, whatever it reports. `blkcache_invalidate` is what
lets a read see the device, so it has no state of its own. External: `Writeback`,
`Outage` (from recovery it also stands for the operator's reset or the watchdog's),
`WatchdogReset`, `Hang`, `Reboot`, and the running system's `Confirm` and `Install`,
which write the records by the loader's own rule. The CRC covers the bytes after the
flag. The model gives a copy one CRC bit and a flag, and a copy with a wrong CRC is
never looked at further.

### RecordParser

Tokens stand for bytes: an id token for the 65 bytes of 64 hexadecimal digits and a
comma. The reference definition (`item`, `denotes`) is what `mica_boot_render`
writes; the scanner must accept exactly that.

### VhciBridge

`mpc` and `rpc` say where the main thread and the reader are. A step is one system
call with the straight code after it: `SetupSignals` to `StartReader` are the
bring-up with its retries and one `controller_command` each, `Reader...` are
`chip_to_kernel`, `Kernel...` are `kernel_to_chip`, `JoinReader` to
`cleanup_signal_handling` the end of `main`. External: libskwbt (`ChipSend`,
`ChipHangUp`), the kernel (`KernelSend`, `KernelHangUp`), signals to either thread,
full descriptors (`Stall`, `Drain`). Abstractions:

- A byte is a pair of its frame and its place in it; a decoder that starts anywhere
  but at the first byte of a frame finds an invalid type, and `WholeFrames` shows that
  it does not come to it.
- The exchange inside `controller_command` is its result.
- A poll reports one ready descriptor at a time; libskwbt hands out one socket for all
  channels, so there is one.
- `interrupted` lets a system call end with EINTR at any time after a signal.
- Draining the signal pipe and `request_shutdown` are one step.
- Left out: failure of `pthread_join`, which the code logs and goes on from.
- Bytes the reader has not read when libskwbt hangs up may be lost with the process;
  `Delivered` is about what is in the reader's buffer.

### RockUsb

The unit is a block. `dev` is the device, `start` and `cache` the write cache, `ideal`
what the host has been told the device holds. `WriteChunk` is `rx_handler_dl_image`,
`Command` any command but `WRITE_LBA` (the flush, then the handler),
`rockusb_flush_write_cache_if_idle` the loop of `do_rockusb`, `rockusb_disable` the
flush and the free. A device write that fails may have stored any of its blocks. The
other handlers are upstream U-Boot and appear as what they return after the flush.
`get_rkusb` may find no memory (`OutOfMemory`): its callers use the NULL, the loader aborts and
the board starts again. `write_cache_failed` is never cleared: after a failed flush every later command fails
until the board is switched off and on, which the model does not follow.

### libskwbt and the platform drivers

- `SkwTransport`: `skwbt.conf` configures ports over SDIO; the UART and
  `SKW_LEGACY_FW_CFG` are not built. Frames travel in chunks, as `write_transport`
  sends what the socket takes. Closing port 0 first leaves a window in which another
  port's thread finds the host socket shut; it is harmless.
  A send to the host may fail for good inside a frame (`cut`).
- `SkwModem`: registers, the download and the power sequence are their results.
  `skw_sdio_recovery_debug` is the debugfs switch; a recovery that finds it off gives up
  (`lost`), and switching it on again does not make up for it.
  `UnderWay` is the one timing assumption: a wait of seconds does not end while the
  chip is in the middle of answering it. Both directions are queues: the chip handles
  its commands in the order they were written.
- `SkwPort`: one user port with bytes numbered in the order they were accepted. Access to
  the flow-control register may fail, which the callers ignore: port and chip then differ
  (`skewed`). A write to the bus may fail as well.
- `SkwBind`: the service ports at the probe, Wi-Fi and then Bluetooth at the end of the
  first boot, Wi-Fi again by hand, in both port layouts. Where a binding ends, at which
  device and with which buffers, is free.
- `SkwImage`: a word of an image is four bytes, a memory region an address. The off and
  on of a power cycle is one step.
- `SkwUsb`: two URBs of each kind (the code has three and more); the USB core flushes
  the URBs before `disconnect`. `SkwUsbBoot`: `chip_en` may or may not be wired; the
  bus does not write short without an error. Recovery is off until `skw_usb_recovery_debug`.

### The Wi-Fi driver

- `SkwCmd`: a caller's flags, its callback and its sending are steps of their own, with
  the assert's abort in between.
- `SkwTx`: one call of the stack at a time, as the transmit lock of a queue gives. The
  queue of acknowledgements (`netdev_get_tx_queue(ndev, 4)`) is not stopped in the model.
- `SkwRx`: a frame before the window that the firmware marks `EXCL` is delivered at once,
  past the window and the replay check; the properties count it apart.
- `SkwSta`: the supplicant makes one request at a time; cfg80211 refuses to
  authenticate with the connected BSS; the firmware uses the same peer index again.
- `SkwScan`: kernel timers fire promptly once due; `SCAN_COMPLETE` names no request.
- `SkwKeys`: one peer; frames marked `EXCL`, which skip the check, are those of `SkwRx`; a network has WEP keys or others, never both; the firmware forgets keys
  with the network and the peer.
- `SkwFrag`: one sender. `SkwRecovery`: one peer per interface, and a station that
  reconnects does so to the same BSS.
- `SkwMbssid`: `skw_mbssid.c` is called on kernels before 5.1; later ones do this in
  cfg80211. It is an algorithm checked against a definition.
- `SkwRegd`: cfg80211 takes a domain at once or, without the rtnl lock, queues it for its
  `reg_work` (`requested`); `RegAssumption` is what the table `skw_db.c` satisfies (rules increasing
  in both ends).
- `SkwWow`: `WowAssumption` leaves out texts with one pattern more than the message has
  room for, which the loop of `skw_wow_filter_set` accepts.

### FrontPanel

A step is one transaction on the wires or one system call of the service; the
assignments under `panel->lock` are made when the lock is taken, and `todo` is what its
holder has still to send. The controller is external: it has a data mode, a RAM and a
display control. A store the driver refuses changes nothing and is left out. The panel
has a few RAM bytes between and behind the digits; they stand for all the others.

## 3. Runs

| Run | Bounds | Shows |
|---|---|---|
| `fileboot_cx3576` | 2 ids, generations to 3, one outage, no read error, flags from 0 and 254 | `TrialBudget`, `RecordsSurvive`, `InactiveOnly`, `ImplementsLedger` |
| `fileboot_s905x5m` | the same on SD, over legal and illegal partition tables | `ImplementsLedger` |
| `fileboot_liveness` | one read error, one outage, fairness | `TrialBudget`, `Settles`, `CandidateResolved` |
| `fileboot_threetrials` | one read error | violated: see findings |
| `bridge_safety` | 2 frames in all, of every kind and length; 2 attempts, 1 signal, 1 stall, a failure at every call | `FramesKept`, `BridgeSafe` |
| `bridge_liveness` | 2 short frames, 2 attempts, 1 signal, 1 stall, fairness | `BridgeProgress` |
| `loader` | texts around two records with generation limit 12; a device of 3 blocks, a cache of 2, one block in a chunk, writes of up to 2 | `ParserExact`, `CacheSafe`, `Truthful`, `LoaderProgress` |
| `chip` | `SkwModem` (2 calls, an assert, a crash, a bus fault), `SkwPort` (a ring of 7), `SkwSdio` (3 packets, 2 sleeps, a fault), `SkwUsbBoot` (2 crashes, a fault), `SkwTransport` (2 ports, a frame, a fault) | `ModemSafe`, `PortSafe`, `SdioAccounted`, `BootSafe`, `TrSafe`, `ChipProgress` |
| `wifi_data` | `SkwTx` (3 frames), `SkwRx` (sequence numbers modulo 8, window 2, 2 sessions), `SkwCmd` (2 callers, 2 faults), `SkwScan`, `SkwUsb` | `TxSafe`, `RxSafe`, `CmdSafe`, `ScanSafe`, `UsbSafe`, `DataProgress` |
| `wifi_control` | `SkwSta` (2 networks, 3 requests), `SkwAp` (2 stations), `SkwRecovery` (an interface of each kind, 2 crashes), `SkwIface` (3 interfaces) | `StaSafe`, `ApSafe`, `RecoverySafe`, `IfaceSafe`, `ControlProgress` |
| `tables` | `SkwKeys`, `SkwFrag`, `SkwImage`, `SkwBind`, `SkwMbssid`, `SkwRegd`, `SkwWow`, `FrontPanel` | `KeysSafe`, `FragSafe`, `ImageSafe`, `BindSafe`, `MbssidExact`, `RegdSafe`, `WowSafe`, `PanelSafe` |
| `station_lock` | `SkwSta` on its own | violated: see findings |

A property named `...Safe`, `...Kept` or `...Exact` is the conjunction of named parts;
each part has its comment in the module.

**Sums.** `MCLoader`, `MCSkwChip`, `MCSkwData`, `MCSkwControl` and `MCSkwTables` check
several components in one run. A behaviour of the sum is a behaviour of one component,
chosen in the initial state by `side`; the variables of the others keep the first
values of one of their behaviours. The components share no variable, so an invariant or
property of a component holds of the sum exactly if it holds of the component; `side`
is part of every fairness condition. This is composition of what does not interact.
Components that interact are in one module: the two threads of the bridge, the two
buses with their drivers, and firmware, kernel and driver in every `Skw` module.

**Exceptions.** A component records in a ghost variable that the code has done something its
properties cannot hold after, and their text names it; the table at the end of section 5 says
which and why. In the sums a component with `torn`, `collided`, `crossed`, `overlap`, `late`,
`"elsewhere"` or `"late"` of `astray` set takes no further step, as all its properties end there.

**Bounds.** Two ids and generation limit 3 allow a confirmed deployment, a candidate in
front of it, its confirmation and one more installation. A flag of 254 wraps after two
writes. One outage reaches every step of the transaction once; the proofs remove that
bound. `GenerationLimit = 12` makes the limit fall inside a two-digit number. The
limits of `skw_h4.h` are scaled down in their order (buffer 7, kernel, SCO and ISO 6,
event and command 5), so that frames at a limit, above one and above the buffer all
occur; two frames are enough for a read that ends inside the second with the first
still in the buffer. In `RockUsb` a chunk
meets the cache empty, adjacent, overlapping, distant and full; with chunks of one block it is
never without enough room for part of one, a case only the proofs cover. Sequence
numbers modulo 8 with a window of 2 wrap within a session; a ring of 7 bytes wraps
under a reader of 2. Two callers, stations, networks or interfaces are what it takes
for one to meet the state another left; `MaxOps` and `MaxStarts` count the turns of the
debugfs switch too; two crashes are a crash inside a recovery. One
fault reaches every step once.

**Fairness.** `fileboot_liveness`: the loader runs on while the board has power, the
operator switches the board on, and an armed watchdog expires under a kernel that does
not service it; nothing is assumed of the running system or the medium. A confirmed
image whose kernel starts and then hangs is outside both properties: the loader retires
an image only when `bootm` returns. Bridge: each thread is scheduled and a full
descriptor is emptied in the end. RockUSB: the loop of `do_rockusb` runs and time
passes. Drivers: threads, workers, tasklets and timers that have something to do run,
the MMC and USB cores hand on what they hold, a suspended system is resumed. Nothing is
assumed of the firmware, except in `SkwModem` and `SkwUsbBoot` that a chip that was
reset boots, unless a fault of the bounds strikes. Faults are outside every fairness
condition, so no property holds because something was forced to fail. Deadlock is
checked where the system runs on for ever (file boot); elsewhere the bounds of the
outside world let a behaviour end.

## 4. Findings

- `fileboot_threetrials`: `boards/s905x5m/loader/README.md:44-45` says that three trials
  exhaust a candidate. `read_environment` treats a copy that cannot be read as invalid
  and uses the other one, which is one write older, so a transient read error returns a
  consumed trial and the candidate is launched a fourth time. `TrialBudget` says how far
  this goes: one launch for each boot with a read error.
- `station_lock`: `skw_sta_leave` asserts the lock of the wireless device
  (`skw_wdev_assert_lock`), and `skw_event_disconnect` calls it without that lock.

## 5. Observations

Met while modelling, with the place in the code; the table below has those that a property
makes an exception of.

- Commands: a command aborted by an assert is reported as successful.
- Access point: association identifiers leak; `DEAUTHED` is not cleared
  when a peer is added again; `skw_stop_ap` leaves `sap.cfg.channel`; an error after
  `START_AP` leaves the firmware's access point running.
- Interfaces: an operation and the event worker can wait for each other under the wiphy
  lock; probe returns 0 on a version failure; the interface limit is off by one; the
  result of `skw_rx_init` is ignored.
- Recovery: a recovery that ends between two interfaces frees peers nobody was told of;
  a peer that joins during a failing recovery is never put aside;
  `skw_recovery_deinit` can wait for ever; `skw_recovery_del_peer` is called by nobody;
  the regulatory domain is not sent again; `FW_ASSERT` set anew may be cleared by the
  recovery of the last one.
- Scans: the timer list has the longest wait in front (`list_add`), so a hint of 4 ms may
  last as long as a scan; `skw_event_cqm` allocates with `GFP_KERNEL` under a spinlock; a
  failing stop of a scheduled scan leaves the firmware scanning.
- Transmit: the low-water mark (512) is above the high-water mark (448); the worker's last
  look leaves out the acknowledgements; `skw_iface_teardown` purges `tx_cache` under
  another lock; the ACM case of category 3 sets the bit of another.
- Receive: a forced release of an empty store moves the window; a tainted A-MSDU leaves
  `stored_num`; the fragment table is keyed by TID and sequence number without the peer.
- Keys: `skw_pn_allowed`'s comment says "less than or equal" while an equal number is
  accepted (an A-MSDU needs it); nothing is checked while two pairwise keys are installed;
  `rx_pn` is updated without asking under which key the frame came; a default WEP key for
  unicast is not deleted by `del_key`.
- Multiple BSSID: an unsigned wrap in `skw_find_elem` means that a continued profile and a
  non-inheritance list are never found; only the first vendor element is compared; an index
  is not checked against `2^max`.
- Regulatory: a domain may have more rules than `rules[8]`; debugfs sets one without a lock.
- Wake-up: `!` goes into `type_offset`; "disable" answers OK when it failed.
- `iwpriv keep_alive` copies `sizeof(param)` bytes of a pointer, so it never parses.
- Boot over SDIO: firmware CRCs are computed and not used; a failed DRAM write is masked by
  a successful IRAM write; `dt_read` sets the address register before it takes the mutex;
  results of `boot_init` and of the first boot are dropped; a fallback firmware file leaks
  the first one. `skw_sdio_abort` compares with a positive `EBUSY`.
- Ports: with the V20 layout the Wi-Fi device is unregistered twice and two devices leak;
  buffers are freed before their device is unregistered; `user_boot_open` succeeds during an
  exception; a failing `copy_from_user` leaves `tx_busy` set.
- USB: `msleep` in a tasklet; a short write of the downloader counts as success;
  acknowledgements are not compared.

What the properties make exceptions of:

| Module | Ghost | Set when | What is not claimed then |
|---|---|---|---|
| `SkwTransport` | `cut` | a send to the host fails inside a frame: the lock is given back (`scom_vendor.c:722`) before the host is failed (727) | that no other frame follows the half one; that the failure reaches the host is |
| `SkwModem` | `late` | a wait for the firmware was given up: the answer may reach the next caller, as the completion is shared | `ModemServices`, `ModemStartMeansReady` |
| | `lost` | a recovery failed on the bus, found recovery off, or the new firmware failed before it told its version | that the chip comes back |
| `SkwPort` | `skewed` | a reopening or a recovery found the flow bit set, or an access to the register failed (`skw_sdio_rx.c:257-291`) | that port and chip agree on it, that no packet is dropped, that a stopped chip goes on |
| | `missed`, `raced` | a wake-up fell between a reader's look and its wait, or a writer took it; a reader entered after the removal had looked | that this reader wakes; that it is outside when the buffers go |
| `SkwUsb` | `collided` | `kick_rx_thread` looked at the pools without the lock while the tasklet ran (`skw_usb_io.c:1205`) | where the URBs are and that reading goes on |
| `SkwUsbBoot` | `refused` | a recovery found recovery off, as it is built | that the chip comes back |
| | `unheard` | a service was started while the chip did not listen | that the chip was asked for it |
| | `lateAssert` | the assert's message came when the exception work was due or under way | that the dump is not cut short |
| `SkwBind` | `stale`, `twice`, `raced` | a registration failed and its port kept the device; a device was unregistered again; two callers found Wi-Fi unbound | that what was bound is undone, and the status |
| `SkwImage` | `masked`, `unlocked` | the result of the DRAM write was overwritten; `skw_sdio_dt_read` set its address outside the mutex | that the images are whole and data goes where it was sent |
| `SkwCmd` | `abandoned` | a sender left before its answer: after a timeout of `skw_msg_try_send` the late answer releases the semaphore again | all of `CmdSafe` |
| | `misfired` | an abort between a command's flags (`skw_msg.c:1722`) and its callback (1804, 1843) ran the callback of a `try_send` that had ended | all of `CmdSafe` |
| `SkwRx` | `jumped`, `stale`, `taint` | a frame or request lay beyond the window; a session was closed with its timer started; a tainted A-MSDU was released from the buffer | the order (not so under a key); the release; the exact count |
| `SkwScan` | `torn` | a request was answered while `skw_scan` was being refused, or the event worker followed a pointer that had just become NULL | that each request is answered once and ends |
| `SkwSta` | `crossed` | `skw_event_disconnect`, which takes no lock, ran beside a request (`skw_msg.c:87`) | all |
| | `astray`: `elsewhere`, `late` | a request, an answer or an event was applied to another BSS than its own, or in a state that did not wait for it | all |
| | `astray`: `moved` | a reassociation left the old BSS | that cfg80211 heard of it |
| | `astray`: `silent` | a disconnect event ended an association: the call that tells cfg80211 is commented out (`skw_msg.c:91-94`) | that the supplicant is answered; that the attempt ends is |
| | `astray`: `kept` | an association with the BSS already joined was taken for done (`skw_cfg80211.c:3045-3046`) | the same |
| `SkwAp` | `overlap` | the event work and the worker, which take no wiphy lock, worked on one peer, or an event came after its peer was gone | all about that access point |
| `SkwRecovery` | `forgotten`, `joined`, `excused` | a recovery ended between two interfaces; a peer joined during a recovery that failed; the firmware refused `START_AP` or `STOP_AP` | that these peers are reported and these access points back |
| `SkwIface` | `late` | `RxQueues` has still to queue an event whose interface's queue `skw_iface_teardown` has purged | that the worker finds a live interface |
| | `halfway` | `OPEN_DEV` or `CLOSE_DEV` was refused | that the count is exact (it is never too low) |
| `SkwKeys` | `mixed`, `refused` | a frame of an earlier key was counted on the installed one; a command was refused | that a new frame is accepted; that the firmware has no other key |
| `SkwRegd` | `regGhost` | requests overlapped, a request failed after the driver had taken the domain, the domain has no channel, or the chip restarted | until the next request: that driver, kernel and firmware agree |
| `FrontPanel` | `late` | a store came through the sysfs files, which outlive `ht1628_remove` and `ht1628_shutdown` | that the panel stays dark |
| | `foreign` | somebody else wrote, or the driver was bound anew: the service writes only what changed | that the service's text is there until the next minute |

## 6. Proofs

Every theorem holds for every value of the constants that satisfies the named `ASSUME`s
of the module it is about, and for every number of calls, faults, crashes and messages.
A theorem with a further hypothesis says so. The scheme is the same everywhere: an
inductive invariant, a lemma `Init => Inv`, one lemma per action or group of actions,
`Spec => []Inv`, and the property from the invariant.

| Module | Theorem | States |
|---|---|---|
| `BootRecordsProofs` | `RenderRecords` | what is rendered parses back to the same records |
| `FileBootProofs` | `TypeCorrect`, `TrialsBounded`, `RecordsNeverLost` | `[]TypeOK`, `[]TrialBudget`, `RecordsSurvive` |
| | `ThreeTrials`, `WritesInactive`, `BootImplementsLedger` | with `MaxReadFaults = 0`: `[]ThreeTrialsExhaust`, `InactiveOnly`, `ImplementsLedger` |
| `RockUsbProofs` | `CacheSafety`, `AnswersTruthful` (from `TypeCorrect`, `CommandsAreBarriers`, `BufferOutlivesData`, `LossBounded`) | `[]CacheSafe`, `Truthful` |
| `VhciBridgeProofs` | `BridgeSafety` (from `ReaderSafe`, `AddressFirst`, `ExitCode`, `NothingLeaks`) | `[]BridgeSafe` |
| `SkwChipProofs` | `ModemSafety`, `SdioCounts`, `TransportSafety`, `UsbBootSafety` | `[]ModemSafe`, `[]SdioAccounted`, `[]TrSafe`, `[]BootSafe` |
| | `PortContents` | `[](PortVerbatim /\ PortFlow /\ PortBufferSafe)` |
| | `PortSafety` | for every `m` with `RoomFor(m)`: `PortSafe` |
| `SkwDataProofs` | `CommandSafety` | `[]CmdSafe` |
| `SkwTablesProofs` | `KeysSafety`, `FragSafety`, `ImageSafety`, `PanelSafety` | `[]KeysSafe`, `[]FragSafe`, `[]ImageSafe`, `[]PanelSafe` |
| `SkwControlProofs` | `RecoverySafety`, `StationSafety`, `InterfaceSafety` | `[]RecoverySafe`, `[]StaSafe`, `[]IfaceSafe` |

**File boot.** `TrialBudget` is not inductive: it says nothing of the trials still
stored. The invariant `Inv` relates the launches so far to every copy that can ever be
read again: each valid copy on the medium *covers* the history, in that the trials it
still grants an id plus the launches so far stay within the budget, with one unit of
slack for the copy that is one write older. It carries this cover through the pending
copy in RAM, the device's cache and the read back, and states in which phase which of
them are equal. A launch is the only step that raises the launches; it happens only
after the read back, when the copy in use has already lost the trial. A read error
raises the right-hand side by one, which is what the older copy can give back.
`RecordsNeverLost` follows from the part of `Inv` that says every copy with a good CRC
decodes, and from `SurviveStep`: no step takes the last valid copy away.

`WritesInactive` and `BootImplementsLedger` need that what was read is still what is
stored: `LedgerInv` adds to `Inv` that, from the read on, the chosen slot and its records
are those on the medium, and that a pending copy is what the ledger calls the next one.
With it the selection maps to the ledger's payment, a write that lands to its commit, and
an outage, a torn write or a read to a stutter. The hypothesis `MaxReadFaults = 0` is
what the promise of the loader's README takes for granted; with a read error the older
copy decides, and the loader does write over the newer one (the finding in section 4).

**RockUSB.** The strengthening is `Kept`: unless the service has failed, the device with
the cache written over it is what the host was told. A chunk preserves it because
writing two adjacent runs is writing their concatenation (`OverJoin`), a flush because
writing the cache over the device twice is writing it once; a failed write may leave
anything, and sets `failed`. `Settled` keeps the cache empty after a barrier.
`LossBounded` counts: a finite set that differs only inside the cache has at most its
length.

**Bridge.** None of the parts of `BridgeSafe` is inductive, because each speaks of one
point of the process. `Holdings` says for every point of the main thread what it holds
then: signals, library, ports, channel descriptors, the adapter, a verified address, a
reader. `Cause` says why the loops stop: once `running` is false there was a signal or a
failure, and main returns 0 only on the path through the loops. The two loops first
collapse to what they may do to the state `Inv` speaks of (`ReaderMoves`,
`KernelMoves`).

**Chip.** `SdioInv` adds to the sum of the packets in which stage of the receive thread
the scatter list and the batch are empty. `TrInv` ties `write2host_lock` to the thread
inside its critical section, the partial frame on the host socket to the port that holds
the lock (until a send has failed inside one, `cut`), and every phase of opening and closing to the descriptors and threads there
are. `BootInv` says for every point of the download how much of the image the chip has,
for every point of the LOOP thread what has been dumped, and where the mark of the last
service comes from.

**Chip services.** `ModemOneRecovery` holds always; the rest of `ModemSafe` until somebody
gives up a wait (`late`), after which an answer may reach the next caller. A recovery that is
refused because the debugfs switch is off leaves the chip in its exception and everything the
invariant says of an exception as it is (`RecoveryDebugStep`). The map is
right because of the order of the two queues, so the invariant speaks of them: nothing is
said twice, behind `BSPASSERT` comes only `DUMPDONE` and behind that nothing
(`HostOrder`), and behind a command that is answered comes only an assert (`QueueInv`).
From a reset until the driver reads the new version (`VersionPending`) `cp_state` is not
`FINE`, the first boot apart, and no service is known, runs or is asked for (`EpochInv`).
`RecoveryInv` says which of the receive thread and the work may recover and what both
have forgotten by then, and `AwaitInv` that the one answer under way is the one the
caller awaits. A service of the map then runs and its stop is not asked for (`MapInv`). Commands in an
unordered set do not keep `MapInv`: a stop that does not wait would be handled after the
start that follows it.

**Ports.** `Ahead` is the distance of two positions on the ring; the lemmas `FrontMoves`
and `BackMoves` say what moving a pointer does to it, wherever it wraps, and `PutReads`
and `PutWrites` what a packet finds in the k-th place behind the read pointer. `RingInv`:
between the pointers lie exactly the bytes from `count.out` to `count.in`. `BufferInv`
follows a removal: one that found a reader has closed the port and completed it, so that
the reader it waits for will wake. `PortNoOverflow` needs a hypothesis, the one flow
control is built on: `RoomFor(m)` says that no packet has more than `m` bytes and that
`InFlight + 1` of them fit into the third of the ring kept free. `RoomInv` is then
inductive while port and chip agree: a third is free while the chip may send, and room for
each packet still on its way after it was stopped. Where the register cannot be accessed they no
longer agree, and `PortVerbatim` and `PortBufferSafe` go on to hold: a packet without room is
dropped whole. Both theorems ask for a ring of at
least four bytes (`PortConstants`; the code's have 4 KiB), as two thirds of a smaller one are all
of it and an empty ring would not let the chip go.

**Commands.** As long as the semaphore is counted right (`CmdCounted`: nobody has given up and no
callback of an ended `try_send` was run), it is held by one caller, or by one `try_send`, or by
nobody (`CmdHolder`), and an answer under way is the answer to the command in `cmd`
(`CmdAnswer`). A command that is being set up may have either callback: an abort then runs the old
one, and `CmdCallback` says that this is either the holder's own or a misfire.

**Keys.** The call under way is the only one that may have left a table and the firmware
apart, and only at its own index (`CallInv`, `TableInv`). `ReplayInv` relates the number
counted in a table to the greatest one accepted under its key.

**Fragments.** `FragTable` says that every entry holds fragments 0 to its last one and,
under CCMP, that they are of one MSDU: their packet numbers are a chain, and packet
numbers, unlike sequence numbers, are never used again (`Cancel`). `SenderInv` bounds the
number a receiver has seen by what its sender has sent, so that no new fragment is taken
for a replay. `Tracked` says that the MSDU of which everything has arrived has an entry of
its own, no further behind the newest than entries have started since; the oldest entry
of a full table is then not that one. `FrameStep` puts together what a frame leaves behind
whatever the handler comes to (`Outcomes`).

**Recovery.** `RecInv` says at every step of the work which connections of user space
have a peer, live or put aside (`ToldInv`), that a peer put aside is told at most once
(`PeersInv`), and that a recovery that failed leaves its trace, `FW_CHIP_RECOVERY` with
`FW_ASSERT` or a crash under way (`WorkInv`), so that the next one goes on with the same
peers.

**Station.** `StaInv` is the types and, until something was misapplied (`Misapplied`: `crossed`,
or `elsewhere` or `late` in `astray`), `Paired` and `OneCall`: at most one call is under way, and
what the BSS, the peer, the state and the connection are follows from what that call has still to
do (`Moves`, `Leaves`) or from there being none (`Quiet`). The disconnect event that ends an
association is inside the invariant: it leaves nothing but an unanswered request.

**Interfaces.** `IfaceInv` goes by the operation under way (`OpStages`). The bitmap is
what is allocated, and the table is the bitmap except at the interface the operation is
about (`TablesAgree`); the firmware has a device exactly for the interfaces allocated,
except one that is being opened or was refused halfway (`DevicesAgree`); events and their
workers are those of live interfaces not past their teardown (`EventsLive`); and what
probe has brought up is a prefix of its order (`PartsBuilt`), so that the unwinding on an
error and at unload takes down exactly what there is. `IfaceOpenCount` counts the open
interfaces, which is where finite sets and their cardinalities come in.

**Chip images.** That the NV data stays between its marks is a fact about the analysis of
the image alone (`NvPlace`; `FirstIn` gives the chosen mark, the least of a set that is
not empty). That the images arrive is `ImageInv`: nobody is between
`skw_sdio_transfer_enter` and `skw_sdio_transfer_exit` without the mutex, and unless
`skw_sdio_dt_read` has set its address over another's, who has set an address finds it
when he moves his data (`TransferInv`); the boot's transfer is the one its place in
`skw_sdio_boot_cp` says and the others stay away from the images (`BootCallInv`); what has
been moved without an error is in the chip's memory, and stays there, unless the result
of the DRAM write was dropped or both images go to one address (`LoadInv`).

**Front panel.** `PanelSafe` speaks of the moments when `panel->lock` is free; the
invariant says what its holder has still to send and what the controller shows by then.
`Showing` names the four scripts a store, a probe or a resume can be in: of
`ht1628_write_digits` and `ht1628_restore` the place is a number (`SentOf`, `ShowsDigits`,
`ShowsRestore`), and `ht1628_restore` needs nothing of what the controller held before:
the lemma `RestoreSent` starts from any RAM and mode, which is why a supply lost in sleep
does no harm. `Darkening` is the same for a panel that is switched off, and ends with the
first store that comes `late`. `TruthInv` says what the service's `last_text` and
`last_symbols` promise between its calls. `PanelAssumption` asks for at least one digit, a
blank glyph without segments, and values that are bytes or levels.

Only model-checked, and why:

- every liveness property: fairness and ENABLED are out of the prover's reach;
- `ParserExact`, `MbssidExact`, `RegdSafe`, `WowSafe`, `BindSafe`: what is computed is
  defined by recursion or a fold over data, and so is what it is compared with;
- `RxSafe`: the release loop of the reorder window is a `RECURSIVE` operator;
- `FramesKept`, `ScanSafe`, `UsbSafe`, `ApSafe`: they filter or order sequences and sets
  (`SelectSeq`, `SetToSeq`, folds), about which no theorem can be instantiated;
- `TxSafe`: which frames one command carries (`Merged`) is recursive over the queue.

## 7. Not modelled

The release pipeline keeps its state in a registry outside this repository, and its steps
are shell scripts and workflow files. The package builder and the source tools are
sequential scripts whose state does not outlive a run. The device-tree, clock and display
patches are configuration; the other loader and kernel patches change upstream drivers
whose state is not in this repository. The start-up scripts write fixed settings once. Of
the Wi-Fi driver are left out: TDLS and DFS, calibration and the test commands, the vendor
commands and the driver's own connection path (not built with `STA_SME_EXT`), the table of
regulatory domains, logs and debugfs; of the platform driver, PCIe (the board has none).
`PROJECT.json` gives each its reason.

## 8. Plan

1. The endpoint recovery of the S905X5M loader (patches 0005, 0006), if its state can be
   told from the patches alone.
2. The release pipeline: tags, the latest release, reuse, the version guard and the lock,
   with two runs at once and a run that stops anywhere.
