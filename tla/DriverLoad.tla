----------------------------- MODULE DriverLoad -----------------------------
(***************************************************************************)
(* A driver is loaded, used and unloaded, and at every moment in between,  *)
(* and afterwards, the interrupts, timers, tasks and threads it has        *)
(* started may run.  One driver is followed at a time; what the others do  *)
(* to it is a step that does not succeed.                                  *)
(*                                                                         *)
(* First what each driver does, in order, when it is loaded and unloaded:  *)
(* one definition for each init, exit, attach and detach function, named   *)
(* after it.  A function is a sequence of steps.  A step takes resources   *)
(* (memory from kmalloc or ioremap, an interrupt line, a device node, a    *)
(* timer, a registration) or gives them back; it may fail, and then other  *)
(* steps undo what was done before the failure is returned.  Settings of   *)
(* registers, which take nothing, are left out.                            *)
(***************************************************************************)
EXTENDS Naturals, SequencesExt

\* A step: what it takes and gives back, what it uses without asking whether
\* it is there, what it asks for first, and what happens when it does not
\* succeed: undo, then drop the next steps, or give up.
Take(R) == [takes |-> R, gives |-> {}, needs |-> {}, checks |-> {}, other |-> {}]
Otherwise(R, undo, drop, fails) ==
    [Take(R) EXCEPT !.other = {[undo |-> undo, drop |-> drop, fails |-> fails]}]

Need(R, undo) == Otherwise(R, undo, 0, TRUE)          \* or the function fails
Try(R) == Otherwise(R, <<>>, 0, FALSE)                \* or it goes on without
Unless(R, undo, drop) == Otherwise(R, undo, drop, FALSE)
Check(R, undo) == [Need({}, undo) EXCEPT !.checks = R]

Free(R) == [Take({}) EXCEPT !.gives = R, !.needs = R]
FreeIf(R) == [Take({}) EXCEPT !.gives = R]
Use(R) == [Take({}) EXCEPT !.needs = R]

\* The goto ladder: what was taken is given back in the opposite order.
Backwards(rs) == [i \in DOMAIN rs |-> Free({rs[Len(rs) + 1 - i]})]
\* Mutant: the resource that was not to be had is given back too.
Ladder_own(rs) == [i \in DOMAIN rs |-> Need({rs[i]}, Backwards(SubSeq(rs, 1, i)))]
Ladder(rs) == [i \in DOMAIN rs |-> Need({rs[i]}, Backwards(SubSeq(rs, 1, i - 1)))]

\* Steps of a function whose caller, when they fail, undoes more.
Within(steps, outer) ==
    [i \in DOMAIN steps |->
        [steps[i] EXCEPT !.other =
            {IF o.fails THEN [o EXCEPT !.undo = o.undo \o outer] ELSE o : o \in steps[i].other}]]

\* Steps nobody asks the result of: one that fails skips the rest.
Quietly(steps) ==
    [i \in DOMAIN steps |->
        [steps[i] EXCEPT !.other =
            {IF o.fails THEN [o EXCEPT !.fails = FALSE, !.drop = Len(steps) - i] ELSE o
                : o \in steps[i].other}]]

\* Steps that are only taken with R there.
IfHeld(R, steps) ==
    <<[Unless({}, <<>>, Len(steps)) EXCEPT !.checks = R]>> \o steps
\* A pointer that is gone through: nothing comes after one that is not set.
Through(R) == <<Use(R), [Take({}) EXCEPT !.checks = R]>>

-----------------------------------------------------------------------------
\* avia_gt: the eNX or GTX chip and the units in it.

Units == {"copy", "tdp", "gfix", "pcm", "vidc", "pig"}

avia_gt_chip_init == <<Take({"chip"})>>
avia_gt_chip_exit == <<FreeIf({"chip"} \union Units)>>

avia_gt_accel_init == <<Take({"copy"})>>
avia_gt_accel_exit == <<FreeIf({"copy"})>>

avia_gt_dmx_init == <<Take({"tdp"}), Try({"msgqueue"})>>
avia_gt_dmx_exit == <<FreeIf({"msgqueue"}), FreeIf({"tdp"})>>

avia_gt_gv_init == <<Take({"gfix"})>>
avia_gt_gv_exit == <<FreeIf({"gfix"})>>

avia_gt_pcm_init ==
    <<Need({"ad"}, <<>>), Need({"pf"}, <<Free({"ad"})>>), Take({"pcm"})>>
avia_gt_pcm_exit == <<Free({"ad"}), Free({"pf"}), FreeIf({"pcm"})>>

avia_gt_capture_init == <<Need({"capture0"}, <<>>), Take({"vidc"})>>
avia_gt_capture_exit == <<Free({"capture0"}), Use({"regs"}), FreeIf({"vidc"})>>

avia_gt_pig_init == <<Take({"pig"})>>
avia_gt_pig_exit == <<Use({"regs"}), FreeIf({"pig"})>>

avia_gt_vbi_init == <<Use({"regs"})>>
avia_gt_vbi_exit == <<Use({"regs"})>>

\* Undoes what init_state says was done, the last first.
avia_gt_exit(init_state) ==
    LET undo == << <<Free({"info"})>>, <<Free({"reg region"})>>, <<Free({"regs"})>>,
                   <<Free({"mem region"})>>, <<Free({"mem"})>>, <<Free({"irq"})>>,
                   avia_gt_chip_exit, avia_gt_accel_exit, avia_gt_dmx_exit, avia_gt_gv_exit,
                   avia_gt_pcm_exit, avia_gt_capture_exit, avia_gt_pig_exit, avia_gt_vbi_exit >>
    IN  FlattenSeq(Reverse(SubSeq(undo, 1, init_state)))

\* irq: the interrupt is on before the chip is set up.  The watchdog of the
\* eNX is the last thing, and can be switched off.
avia_gt_init(enx) ==
    LET core == <<"info", "reg region", "regs", "mem region", "mem", "irq">>
        units == <<avia_gt_accel_init, avia_gt_dmx_init, avia_gt_gv_init, avia_gt_pcm_init,
                   avia_gt_capture_init, avia_gt_pig_init, avia_gt_vbi_init>>
    IN  <<Need({}, <<>>)>>
        \o [i \in DOMAIN core |-> Need({core[i]}, avia_gt_exit(i - 1))]
        \o avia_gt_chip_init
        \o FlattenSeq([u \in DOMAIN units |-> Within(units[u], avia_gt_exit(6 + u))])
        \o (IF enx THEN <<Try({"wdt"})>> ELSE <<>>)

-----------------------------------------------------------------------------
\* The modules on top of avia_gt: infrared, sound, frame buffer, capture.

avia_gt_ir_init ==
    <<Need({"ir rx"}, <<>>), Need({"ir tx"}, <<Free({"ir rx"})>>), Take({"ir"})>>
avia_gt_ir_exit == <<Free({"ir tx"}), Free({"ir rx"}), FreeIf({"ir"})>>

\* Without a device node the interrupts stay.
avia_gt_lirc_init == avia_gt_ir_init \o <<Need({"lirc"}, <<>>)>>
avia_gt_lirc_exit == <<Free({"lirc"})>> \o avia_gt_ir_exit

samsung_ir_init ==
    <<Take({"input"}), Need({"ir rx"}, <<Free({"input"})>>), Take({"ir"})>>
samsung_ir_exit ==
    <<FreeIf({"ir"}), Free({"ir rx"}), FreeIf({"key timeout"}), Free({"input"})>>

\* The sound core takes the number of a device that was never registered.
avia_oss_init == <<Try({"dsp"}), Try({"mixer"})>>
avia_oss_cleanup == <<FreeIf({"mixer"}), FreeIf({"dsp"})>>

avia_gt_fb_init == <<Need({"fb"}, <<>>)>>
avia_gt_fb_exit == <<Free({"fb"})>>

avia_gt_v4l2_init == <<Need({"video"}, <<>>)>>
avia_gt_v4l2_exit == <<Free({"video"})>>

aviaEXT_init == <<Need({"aviaEXT"}, <<>>)>>
aviaEXT_exit == <<Free({"aviaEXT"})>>

-----------------------------------------------------------------------------
\* avia_av: the decoder.

\* Without memory no event is ever reported.
avia_av_event_init == <<Try({"event reg", "event timer"})>>
avia_av_event_exit == <<FreeIf({"event reg", "event timer"})>>

avia_av_firmware_read(rest) == <<Unless({"microcode"}, <<>>, rest)>>

\* Without microcode the decoder is a dummy: mapped, and nothing else.  Until
\* the microcode is freed a failure gives everything back; when the decoder
\* does not come up the mapping goes before the interrupt.
avia_av_init ==
    LET unload == <<Free({"microcode"}), Free({"aviamem"})>>
        late == <<Free({"aviamem"}), Free({"irq"})>>
        running == <<Need({}, unload), Need({"irq"}, unload), Try({"wdt"}), Use({"aviamem"}),
                     Free({"microcode"}), Need({}, late), Need({}, late)>> \o avia_av_event_init
    IN  <<Need({"aviamem"}, <<>>), Use({"aviamem"})>>
        \o avia_av_firmware_read(Len(running)) \o running

avia_av_standby(state) ==
    IF state = 0 THEN avia_av_init
    ELSE avia_av_event_exit \o <<Use({"aviamem"}), Free({"irq"}), Use({"aviamem"})>>

avia_av_set_video_system == avia_av_standby(1) \o avia_av_standby(0)

\* Once the firmware is there (siumcr, irq, ...) any failure fails the load.
avia_av_core_init == <<Need({}, <<>>)>> \o avia_av_init \o <<Try({"proc"})>>
avia_av_core_exit == <<FreeIf({"proc"})>> \o avia_av_standby(1) \o <<FreeIf({"aviamem"})>>

avia_av_napi_init == Ladder(<<"handler", "video", "audio">>)
avia_av_napi_exit == <<Free({"audio"}), Free({"video"}), Free({"handler"})>>

avia_napi_init == Ladder(<<"adapter", "bridge">>)
avia_napi_exit == <<Free({"bridge"}), Free({"adapter"})>>

-----------------------------------------------------------------------------
\* The DVB core, and the demultiplexer's devices on top of it.

init_dvbdev == <<Take({"dvb"}), Need({"chrdev"}, <<>>)>>
exit_dvbdev == <<Free({"chrdev"}), Free({"dvb"})>>

dvb_dmx_init ==
    <<Need({"filters"}, <<>>), Need({"feeds"}, <<Free({"filters"})>>), Take({"demux"})>>
\* A demux somebody has open stays on the list of demuxes.
dvb_dmx_release(users) ==
    (IF users = 0 THEN <<Free({"demux"})>> ELSE <<>>) \o <<Free({"filters"}), Free({"feeds"})>>

\* Neither failure closes the demux again.
dvb_dmxdev_init ==
    <<Take({"user"}), Need({"dev filters"}, <<>>), Need({"dvrs"}, <<Free({"dev filters"})>>),
      Try({"demux0"}), Try({"dvr0"})>>
dvb_dmxdev_release ==
    <<FreeIf({"demux0"}), FreeIf({"dvr0"}), FreeIf({"dev filters"}), FreeIf({"dvrs"}),
      FreeIf({"user"})>>

dvb_net_init == <<Try({"net"})>>
dvb_net_release == <<FreeIf({"net"})>>

\* The labels of avia_gt_napi_init, from one on.
avia_gt_napi_undo(label) ==
    LET undo == << <<Free({"section"})>>, dvb_dmx_release(IF label = 2 THEN 1 ELSE 0),
                   dvb_dmxdev_release,
                   <<Free({"fe_hw"})>>, <<Free({"fe_mem"})>>, <<Free({"connected"})>>,
                   <<Free({"notifier"})>>, dvb_net_release >>
    IN  FlattenSeq(Reverse(SubSeq(undo, 1, label)))

avia_gt_napi_init(ecd) ==
    <<Need({}, <<>>), Need({"section"}, <<>>)>>
    \o Within(dvb_dmx_init, avia_gt_napi_undo(1))
    \o Within(dvb_dmxdev_init, avia_gt_napi_undo(2))
    \o [i \in 1..4 |-> Need({<<"fe_hw", "fe_mem", "connected", "notifier">>[i]},
                             avia_gt_napi_undo(i + 2))]
    \o dvb_net_init
    \o (IF ecd THEN <<Need({"ca"}, avia_gt_napi_undo(8))>> ELSE <<>>)

avia_gt_napi_exit ==
    <<FreeIf({"ca"})>> \o dvb_net_release
    \o <<Free({"notifier"}), Free({"user"}), Free({"connected"}), Free({"fe_mem"}),
         Free({"fe_hw"})>>
    \o dvb_dmxdev_release \o dvb_dmx_release(0) \o <<Free({"section"})>>

-----------------------------------------------------------------------------
\* The I2C buses of an adapter, and the dummy adapter, which has one.

\* Without memory the lock of the buses is kept.
dvb_register_i2c_bus ==
    <<Need({}, <<>>), Take({"mutex"}), Need({"bus"}, <<>>), Free({"mutex"})>>

\* The undoing of dummyadap_init, which is written out at each of its calls.
dummyadap_undo(calls) ==
    LET undo == << <<Free({"adapter"})>>, <<Free({"bus"})>>,
                   dvb_dmx_release(IF calls = 3 THEN 1 ELSE 0), dvb_dmxdev_release,
                   <<Free({"fe_hw"})>>, <<Free({"fe_mem"})>>, <<Free({"user"})>>,
                   <<Free({"notifier"})>>, <<Free({"ioctls"})>> >>
    IN  FlattenSeq(Reverse(SubSeq(undo, 1, calls)))

dummyadap_init ==
    <<Need({"adapter"}, <<>>)>>
    \o Within(dvb_register_i2c_bus, dummyadap_undo(1))
    \o Within(dvb_dmx_init, dummyadap_undo(2))
    \o Within(dvb_dmxdev_init, dummyadap_undo(3))
    \o [i \in 1..5 |-> Need({<<"fe_hw", "fe_mem", "connected", "notifier", "ioctls">>[i]},
                             dummyadap_undo(i + 3))]
\* What is connected stays connected.
dummyadap_exit == dummyadap_undo(9)

-----------------------------------------------------------------------------
\* The demodulators: attached to each bus, now or when it comes, with the
\* module counted as used by its owner.  An attach that fails undoes nothing
\* of its own and nobody hears of it; what the demodulator's own data holds is
\* freed before the device that uses it is gone.

try_attach_device(attach, owner) ==
    Quietly(<<Take(owner)>> \o Within(attach, <<Free(owner)>>)
            \o <<Try({"attached", "bus client"})>>)
\* The client is taken off the bus's list and not freed.
detach_device(detach, owner) ==
    IfHeld({"attached"}, <<Free({"attached"})>> \o detach \o <<Free(owner)>>)

\* Here too the lock is kept without memory.
dvb_register_i2c_device(attach, owner) ==
    LET probe == try_attach_device(attach, owner)
    IN  <<Need({}, <<>>), Take({"mutex"}), Need({"device"}, <<>>), Unless({}, <<>>, Len(probe))>>
        \o probe \o <<Free({"mutex"})>>
dvb_unregister_i2c_device(detach, owner) == detach_device(detach, owner) \o <<Free({"device"})>>

dvb_register_frontend == <<Need({"frontend"}, <<>>)>>
dvb_unregister_frontend == <<Free({"frontend"})>>

\* The entry is made under one name and removed under another.
at76c651_attach == <<Need({}, <<>>), Try({"proc"})>> \o dvb_register_frontend
at76c651_detach == dvb_unregister_frontend

sqc6100_attach == <<Need({}, <<>>), Try({"proc"})>> \o dvb_register_frontend
sqc6100_detach == <<FreeIf({"proc"})>> \o dvb_unregister_frontend

tda80xx_attach ==
    <<Need({}, <<>>), Need({"tda"}, <<>>), Need({"irq"}, <<>>)>> \o dvb_register_frontend
tda80xx_detach == <<Free({"irq"}), Free({"tda"})>> \o dvb_unregister_frontend

\* tda is not set when its irq is freed: nothing is, or by chance the irq.
tda8044_attach ==
    <<Need({}, <<>>), Need({"tda"}, <<>>), Need({"irq"}, <<>>)>> \o dvb_register_frontend
tda8044_detach ==
    <<[FreeIf({"irq"}) EXCEPT !.other = Try({}).other], Free({"tda"})>>
    \o dvb_unregister_frontend

ves1x93_attach == <<Need({}, <<>>), Need({"state"}, <<>>)>> \o dvb_register_frontend
ves1x93_detach == <<Free({"state"})>> \o dvb_unregister_frontend

ves1820_attach == <<Need({}, <<>>)>> \o dvb_register_frontend
ves1820_detach == dvb_unregister_frontend

stv0297_attach == dvb_register_frontend
stv0297_detach == dvb_unregister_frontend

-----------------------------------------------------------------------------
\* The I2C bus, and the clients on it: the front processor, the clock, the
\* SCART switch, the encoder, the CAM.  i2c_add_driver calls their detect
\* functions and asks for no result; i2c_del_driver calls detach for a client
\* that is attached.

i2c_init == <<Need({}, <<>>), Take({"handler"})>>
i2c_8xx_module_init == i2c_init \o <<Try({"adapter"})>>
i2c_8xx_module_exit == <<Free({"handler"}), FreeIf({"adapter"})>>

dvb_i2c_bridge_attach_adapter ==
    Quietly(<<Need({"client"}, <<>>)>> \o Within(dvb_register_i2c_bus, <<Free({"client"})>>)
            \o <<Try({"attached"})>>)
\* The client is freed and stays on the adapter's list.
dvb_i2c_bridge_detach_client == IfHeld({"attached"}, <<Free({"bus"}), Free({"client"})>>)
dvb_i2c_bridge_register ==
    <<Need({}, <<>>), Unless({"driver"}, <<>>, Len(dvb_i2c_bridge_attach_adapter))>>
    \o dvb_i2c_bridge_attach_adapter
dvb_i2c_bridge_unregister == dvb_i2c_bridge_detach_client \o <<FreeIf({"driver"})>>

\* defdata stays when the chip at the address is another one.
fp_detect_client ==
    <<Unless({"client", "defdata"}, <<>>, 3), Unless({}, <<Free({"client"})>>, 2),
      Unless({"attached"}, <<Free({"client"})>>, 1), Take({"irq"})>>
fp_detach_client == <<FreeIf({"irq"}), FreeIf({"attached"}), FreeIf({"client"})>>

fp_init ==
    LET i2c_del_driver == fp_detach_client \o <<Free({"driver"})>>
    IN  <<Need({"driver"}, <<>>)>> \o fp_detect_client
        \o <<Check({"defdata"}, i2c_del_driver), Need({"fp0"}, i2c_del_driver),
              Take({"ppc_md"})>>
fp_exit == fp_detach_client \o <<Free({"driver"}), Free({"fp0"}), FreeIf({"ppc_md"})>>

dbox2_fp_input_init == <<Take({"buttons"}), Take({"keyboard"}), Take({"mouse"}), Take({"rc"}),
                         Take({"input"})>>
dbox2_fp_input_exit == <<Free({"buttons"}), Free({"mouse"}), Free({"keyboard"}), Free({"rc"}),
                         Free({"input"})>>

dbox2_fp_napi_init == <<Need({"ioctls"}, <<>>)>>
dbox2_fp_napi_exit == <<Free({"ioctls"})>>

\* The node stays when the client is not attached.
rtc_i2c_detect_rtc ==
    <<Unless({"client"}, <<>>, 3), Unless({}, <<Free({"client"})>>, 2),
      Unless({"rtc"}, <<Free({"client"})>>, 1), Unless({"attached"}, <<Free({"client"})>>, 0)>>
detach_client ==
    IfHeld({"attached"}, <<Free({"rtc"}), Free({"attached"}), Free({"client"})>>)
ds1307_init == <<Need({"driver"}, <<>>)>> \o rtc_i2c_detect_rtc \o <<Try({"proc"})>>
ds1307_cleanup == <<FreeIf({"proc"})>> \o detach_client \o <<Free({"driver"})>>

\* Whether the client is attached nobody asks.
avs_attach ==
    <<Take({"template"}), Unless({"client"}, <<>>, 2),
      Unless({"avs_data"}, <<Free({"client"})>>, 1), Try({"attached"})>>
avs_detach ==
    IfHeld({"attached"}, <<Free({"attached"}), Free({"avs_data"}), Free({"client"})>>)
\* An adapter that is probed counts as a user, and is never counted down; it
\* may have no switch.
avs_probe ==
    <<Unless({"use"}, <<>>, Len(avs_attach) + 1), Unless({}, <<>>, Len(avs_attach))>> \o avs_attach
\* Without memory the lock is kept.
avs_event_init(undo) == <<Take({"lock"}), Need({"reg", "timer"}, undo), Free({"lock"})>>
avs_event_cleanup == <<FreeIf({"reg", "timer"})>>

\* The switch is set up through the template, whose adapter is set when one is
\* found.
avs_core_init ==
    LET i2c_del_driver == avs_detach \o <<Free({"driver"})>>
    IN  <<Need({}, <<>>), Need({"driver"}, <<>>)>> \o avs_probe
        \o <<Need({}, i2c_del_driver)>> \o Through({"template"})
        \o avs_event_init(i2c_del_driver)
        \o <<Need({"avs0"}, i2c_del_driver), Try({"mixer"})>>
avs_core_exit ==
    avs_event_cleanup \o <<FreeIf({"mixer"})>> \o avs_detach
    \o <<Free({"driver"}), Free({"avs0"})>>

saa7126_detect_client ==
    <<Unless({"client"}, <<>>, 2), Unless({"saa"}, <<Free({"client"})>>, 1),
      Unless({"attached"}, <<Free({"client"})>>, 0)>>
saa7126_attach == <<Unless({"use"}, <<>>, Len(saa7126_detect_client))>> \o saa7126_detect_client
saa7126_detach ==
    IfHeld({"attached"}, <<Free({"saa"}), Free({"attached"}), Free({"client"})>>)
saa7126_init == <<Unless({"driver"}, <<>>, Len(saa7126_attach))>> \o saa7126_attach
saa7126_exit == saa7126_detach \o <<FreeIf({"driver"})>>

cam_attach_adapter == <<Unless({"client"}, <<>>, 1), Unless({"attached"}, <<Free({"client"})>>, 0)>>
cam_detach_client == <<FreeIf({"attached"}), FreeIf({"client"})>>

\* Without microcode the CAM's memory is filled all the same, nothing is added
\* to the bus, and the interrupt is taken.  The unset pointer is freed when the
\* memory cannot be mapped.
cam_init ==
    LET running == <<Need({}, <<Free({"microcode"})>>), Free({"microcode"}),
                     Need({"driver"}, <<>>)>> \o cam_attach_adapter
    IN  <<Need({}, <<>>),
          Unless({"microcode"}, <<Need({}, <<Free({"microcode"})>>)>>, Len(running))>>
        \o running \o <<Take({"irq"})>>
cam_exit == <<Free({"irq"})>> \o cam_detach_client \o <<FreeIf({"driver"})>>

cam_napi_init == <<Need({"ca"}, <<>>)>>
cam_napi_exit == <<Free({"ca"})>>

-----------------------------------------------------------------------------
\* The board: events, display, disks, cards, the box's description, Ethernet.

event_init == <<Need({"event0"}, <<>>)>>
event_exit == <<Free({"event0"})>>

lcd_init == <<Need({"lcd0"}, <<>>), Need({}, <<Free({"lcd0"})>>)>>
lcd_cleanup == <<Free({"lcd0"})>>

\* Chip select 2 stays on when there is no controller behind it.
setup_cpld == <<Take({"cs2"}), Need({"mapping", "idebase"}, <<>>),
                Need({}, <<Free({"mapping", "idebase"})>>)>>
dboxide_register == <<Try({"hwif"})>>
\* Nobody hears of a scan that found nothing.
dboxide_scan == Quietly(setup_cpld \o dboxide_register)
\* idebase is cleared first, and a mapping nobody knows is not undone.
dboxide_exit_24 == <<FreeIf({"idebase"}), FreeIf({"hwif"}), FreeIf({"cs2"})>>

dboxide_init_26 ==
    setup_cpld \o <<Need({"platform driver"}, <<>>),
                    Need({"hwif"}, <<Free({"platform driver"})>>)>>
dboxide_exit_26 ==
    <<Use({"idebase"}), Free({"hwif"}), Free({"platform driver"}),
      Free({"mapping", "idebase"}), Free({"cs2"})>>

mmc_init == <<Try({"sizes"})>>
mmc_exit == <<FreeIf({"sizes"})>>
mmc_driver_exit ==
    <<FreeIf({"media timer"}), Free({"blkdev"}), Free({"gendisk"}), Free({"queue"})>> \o mmc_exit
mmc_driver_init == <<Need({"blkdev"}, <<>>), Take({"queue"}), Take({"gendisk"})>> \o mmc_init

\* With the wiring to be found, no wiring that answers undoes everything.
mmccombo_driver_exit == mmc_driver_exit \o <<FreeIf({"port"})>>
mmccombo_driver_init ==
    <<Need({}, <<>>), Need({"blkdev"}, <<>>), Take({"queue"}), Take({"gendisk"}),
      Need({"port"}, mmccombo_driver_exit)>> \o mmc_init \o <<Try({"media timer"})>>

\* The controller is looked for, and let go again.
ide_if_present ==
    <<Unless({"cs2"}, <<>>, 3), Unless({"mapping"}, <<>>, 1), FreeIf({"mapping"}), FreeIf({"cs2"})>>
tuxbox_hardware_read == <<Need({}, <<>>)>> \o ide_if_present

tuxbox_proc_destroy == <<FreeIf({"entries"}), FreeIf({"tuxbox"})>>
tuxbox_hardware_proc_destroy == <<FreeIf({"hw entries"}), FreeIf({"dbox2"})>>
tuxbox_exit == tuxbox_hardware_proc_destroy \o tuxbox_proc_destroy
tuxbox_proc_create == <<Need({"tuxbox"}, <<>>), Need({"entries"}, <<>>)>>
tuxbox_hardware_proc_create == <<Need({"dbox2"}, <<>>), Need({"hw entries"}, <<>>)>>
tuxbox_init ==
    tuxbox_hardware_read
    \o Within(tuxbox_proc_create \o tuxbox_hardware_proc_create, tuxbox_exit)

\* The reference to eth0 is never put.
dvb2eth_init ==
    <<Need({"eth0"}, <<>>), Need({"dvb2eth"}, <<>>), Need({"headers"}, <<Free({"dvb2eth"})>>)>>
dvb2eth_exit == <<Free({"headers"}), Free({"dvb2eth"})>>

-----------------------------------------------------------------------------
(* The life of a driver.                                                     *)

VARIABLES driver,   \* the driver followed
          phase,    \* "out", "loading", "in", "leaving", "gone"; a demodulator whose
                    \* bus goes "dozing", "asleep", and when it comes "waking"
          todo,     \* the steps of the init or exit function still to be taken
          held,     \* the resources it holds, its code among them
          missed    \* what it gave back or used without holding it

vars == <<driver, phase, todo, held, missed>>

\* again: what a loaded driver may do again at any time.
Loads(load, unload) ==
    [load |-> load, unload |-> unload, again |-> {}, busGoes |-> {}, busComes |-> {}]
Attaches(attach, detach, owner) ==
    [Loads(dvb_register_i2c_device(attach, owner), dvb_unregister_i2c_device(detach, owner))
        EXCEPT !.busGoes = {detach_device(detach, owner)},
               !.busComes = {try_attach_device(attach, owner)}]

\* module_init and module_exit of each driver.
modules ==
    [avia_gt_enx |-> Loads(avia_gt_init(TRUE), avia_gt_exit(14)),
     avia_gt_gtx |-> Loads(avia_gt_init(FALSE), avia_gt_exit(14)),
     avia_gt_lirc |-> Loads(avia_gt_lirc_init, avia_gt_lirc_exit),
     avia_gt_ir_samsung |-> Loads(samsung_ir_init, samsung_ir_exit),
     avia_gt_oss |-> Loads(avia_oss_init, avia_oss_cleanup),
     avia_gt_fb |-> Loads(avia_gt_fb_init, avia_gt_fb_exit),
     avia_gt_v4l2 |-> Loads(avia_gt_v4l2_init, avia_gt_v4l2_exit),
     aviaEXT |-> Loads(aviaEXT_init, aviaEXT_exit),
     avia_av |-> [Loads(avia_av_core_init, avia_av_core_exit)
                    EXCEPT !.again = {avia_av_set_video_system}],
     avia_av_napi |-> Loads(avia_av_napi_init, avia_av_napi_exit),
     avia_napi |-> Loads(avia_napi_init, avia_napi_exit),
     dvbdev |-> Loads(init_dvbdev, exit_dvbdev),
     avia_gt_napi |-> Loads(avia_gt_napi_init(FALSE), avia_gt_napi_exit),
     avia_gt_napi_ecd |-> Loads(avia_gt_napi_init(TRUE), avia_gt_napi_exit),
     at76c651 |-> Attaches(at76c651_attach, at76c651_detach, {"use"}),
     sqc6100 |-> Attaches(sqc6100_attach, sqc6100_detach, {"use"}),
     tda80xx |-> Attaches(tda80xx_attach, tda80xx_detach, {"use"}),
     tda8044h |-> Attaches(tda8044_attach, tda8044_detach, {"use"}),
     ves1x93 |-> Attaches(ves1x93_attach, ves1x93_detach, {"use"}),
     ves1820 |-> Attaches(ves1820_attach, ves1820_detach, {"use"}),
     stv0297 |-> Attaches(stv0297_attach, stv0297_detach, {}),
     dummyadap |-> Loads(dummyadap_init, dummyadap_exit),
     dbox2_i2c |-> Loads(i2c_8xx_module_init, i2c_8xx_module_exit),
     dvb_i2c_bridge |-> Loads(dvb_i2c_bridge_register, dvb_i2c_bridge_unregister),
     dbox2_fp |-> Loads(fp_init, fp_exit),
     dbox2_fp_input |-> Loads(dbox2_fp_input_init, dbox2_fp_input_exit),
     dbox2_fp_napi |-> Loads(dbox2_fp_napi_init, dbox2_fp_napi_exit),
     ds1307 |-> Loads(ds1307_init, ds1307_cleanup),
     avs |-> Loads(avs_core_init, avs_core_exit),
     saa7126 |-> Loads(saa7126_init, saa7126_exit),
     cam |-> Loads(cam_init, cam_exit),
     cam_napi |-> Loads(cam_napi_init, cam_napi_exit),
     event |-> Loads(event_init, event_exit),
     lcd |-> Loads(lcd_init, lcd_cleanup),
     dboxide_24 |-> Loads(dboxide_scan, dboxide_exit_24),
     dboxide_26 |-> Loads(dboxide_init_26, dboxide_exit_26),
     mmc |-> Loads(mmc_driver_init, mmc_driver_exit),
     mmccombo |-> Loads(mmccombo_driver_init, mmccombo_driver_exit),
     tuxbox |-> Loads(tuxbox_init, tuxbox_exit),
     dvb2eth |-> Loads(dvb2eth_init, dvb2eth_exit)]

\* An interrupt, timer, task or thread of a driver: when it may run, what it
\* relies on, what it starts, and what of its own is over once it has run.
Handler(of, by, needs, starts, ends) ==
    [of |-> of, by |-> by, needs |-> needs \union {"code"}, starts |-> starts, ends |-> ends]

handlers ==
    {Handler("avia_gt_enx", {"irq"}, {"info", "regs"}, {}, {}),
     Handler("avia_gt_gtx", {"irq"}, {"info", "regs"}, {}, {}),
     Handler("avia_gt_enx", {"irq", "chip", "pf"}, {"info", "regs"}, {}, {}),
     Handler("avia_gt_enx", {"irq", "chip", "msgqueue"}, {"info", "regs"}, {"bh task"}, {}),
     Handler("avia_gt_enx", {"bh task"}, {"info", "mem"}, {}, {"bh task"}),
     Handler("avia_gt_enx", {"wdt"}, {"info", "regs"}, {}, {}),
     Handler("avia_gt_lirc", {"ir rx", "lirc"}, {"ir"}, {}, {}),
     Handler("avia_gt_ir_samsung", {"ir rx", "ir"}, {"input"}, {"key timeout"}, {}),
     Handler("avia_gt_ir_samsung", {"key timeout"}, {"input"}, {}, {"key timeout"}),
     Handler("avia_av", {"irq"}, {"aviamem"}, {}, {}),
     Handler("avia_av", {"event timer"}, {"event reg", "aviamem"}, {}, {}),
     Handler("avia_av", {"wdt"}, {"aviamem"}, {}, {}),
     Handler("avia_av_napi", {"handler"}, {}, {}, {}),
     Handler("avia_napi", {"bridge"}, {"adapter"}, {}, {}),
     Handler("avia_gt_napi", {"notifier"}, {"demux", "filters", "feeds"}, {}, {}),
     Handler("avia_gt_napi", {"net"}, {"demux", "feeds", "section"}, {}, {}),
     Handler("at76c651", {"proc"}, {}, {}, {}),
     Handler("sqc6100", {"proc"}, {}, {}, {}),
     Handler("stv0297", {"frontend"}, {}, {}, {}),
     Handler("dummyadap", {"bus"}, {"adapter"}, {}, {}),
     Handler("dummyadap", {"notifier"}, {"adapter", "demux"}, {}, {}),
     Handler("tda80xx", {"irq"}, {"tda"}, {"tasklet"}, {}),
     Handler("tda80xx", {"tasklet"}, {"tda"}, {}, {"tasklet"}),
     Handler("tda80xx", {"frontend"}, {"tda"}, {}, {}),
     Handler("tda8044h", {"irq"}, {"tda"}, {}, {}),
     Handler("tda8044h", {"frontend"}, {"tda"}, {}, {}),
     Handler("ves1x93", {"frontend"}, {"state"}, {}, {}),
     Handler("dbox2_i2c", {"adapter"}, {"handler"}, {}, {}),
     Handler("dvb_i2c_bridge", {"bus"}, {}, {}, {}),
     Handler("dvb_i2c_bridge", {"attached"}, {"client"}, {}, {}),
     Handler("dbox2_fp", {"irq"}, {"client", "defdata"}, {"fp task"}, {}),
     Handler("dbox2_fp", {"fp task"}, {"client"}, {}, {"fp task"}),
     Handler("dbox2_fp", {"ppc_md"}, {"client"}, {}, {}),
     Handler("dbox2_fp_input", {"rc", "input"}, {}, {"keyup timer"}, {}),
     Handler("dbox2_fp_input", {"keyup timer"}, {"input"}, {}, {"keyup timer"}),
     Handler("avs", {"timer"}, {}, {"event task"}, {"timer"}),
     Handler("ds1307", {"rtc"}, {"client"}, {}, {}),
     Handler("ds1307", {"proc"}, {"client"}, {}, {}),
     Handler("saa7126", {"saa"}, {"client"}, {}, {}),
     Handler("avs", {"event task"}, {"reg"}, {"timer"}, {"event task"}),
     Handler("cam", {"irq"}, {}, {"cam task"}, {}),
     Handler("cam", {"cam task"}, {"client"}, {}, {"cam task"}),
     Handler("dboxide_24", {"hwif"}, {"idebase"}, {}, {}),
     Handler("dboxide_26", {"hwif"}, {"idebase"}, {}, {}),
     Handler("mmc", {"gendisk"}, {"queue"}, {}, {}),
     Handler("mmccombo", {"gendisk"}, {"queue"}, {}, {}),
     Handler("mmccombo", {"media timer"}, {}, {}, {"media timer"})}

-----------------------------------------------------------------------------

Init ==
    /\ driver \in DOMAIN modules
    /\ phase = "out"
    /\ todo = <<>>
    /\ held = {} /\ missed = {}

Begin(from, to, steps) ==
    /\ phase = from
    /\ phase' = to
    /\ todo' = steps
    /\ UNCHANGED <<driver, missed>>

Load == Begin("out", "loading", modules[driver].load) /\ held' = {"code"}
Unload ==
    /\ "use" \notin held
    /\ \E from \in {"in", "asleep"} : Begin(from, "leaving", modules[driver].unload)
    /\ held' = held

Again == \E steps \in modules[driver].again : Begin("in", "waking", steps) /\ held' = held

\* The bus of a demodulator is taken off, and put on.  One whose frontend is
\* still registered, with a bus that has gone, is not attached a second time.
BusGoes == \E steps \in modules[driver].busGoes : Begin("in", "dozing", steps) /\ held' = held
BusComes ==
    /\ "frontend" \notin held
    /\ \E steps \in modules[driver].busComes : Begin("asleep", "waking", steps)
    /\ held' = held

Succeed ==
    /\ todo # <<>>
    /\ LET s == Head(todo)
       IN  /\ s.checks \subseteq held
           /\ held' = (held \ s.gives) \union s.takes
           /\ missed' = missed \union (s.needs \ held)
    /\ todo' = Tail(todo)
    /\ UNCHANGED <<driver, phase>>

\* The step does not succeed.  What is there already needs no second time, and
\* a failed wakeup leaves the driver loaded.
NotSucceed ==
    /\ todo # <<>>
    /\ LET s == Head(todo)
       IN  /\ s.takes = {} \/ ~ s.takes \subseteq held
           /\ s.checks = {} \/ ~ s.checks \subseteq held
           /\ \E o \in s.other :
                IF o.fails
                THEN /\ todo' = o.undo
                     /\ phase' = IF phase = "waking" THEN "broken" ELSE "failing"
                ELSE /\ todo' = o.undo \o SubSeq(todo, o.drop + 2, Len(todo))
                     /\ phase' = phase
    /\ UNCHANGED <<driver, held, missed>>

after == [loading |-> "in", failing |-> "gone", leaving |-> "gone",
          dozing |-> "asleep", waking |-> "in", broken |-> "in"]

\* What is the module's own: its code, its variables, the count of its users.
Module == {"code", "template", "use"}

\* The function returns, and a driver that failed or left takes its own along.
Return ==
    /\ phase \in DOMAIN after
    /\ todo = <<>>
    /\ phase' = after[phase]
    /\ held' = IF phase' = "gone" THEN held \ Module ELSE held
    /\ UNCHANGED <<driver, todo, missed>>

Run(h) ==
    /\ h.of = driver
    /\ h.by \subseteq held
    /\ held' = (held \ h.ends) \union h.starts
    /\ UNCHANGED <<driver, phase, todo, missed>>

Next == Load \/ Unload \/ Again \/ BusGoes \/ BusComes \/ Succeed \/ NotSucceed \/ Return
        \/ \E h \in handlers : Run(h)

Spec == Init /\ [][Next]_vars

-----------------------------------------------------------------------------

\* The driver's code is there from the load on until it failed or left.
TypeOK ==
    /\ driver \in DOMAIN modules
    /\ phase \in DOMAIN after \union {"out", "in", "asleep", "gone"}
    /\ todo # <<>> => phase \in DOMAIN after
    /\ "code" \in held <=> phase \notin {"out", "gone"}

\* Where this code does run without its own: <<driver, what lets it run, what is
\* gone by then>>.  The README goes through them.
late ==
    {<<"at76c651", {"proc"}, {"code"}>>, <<"avia_av", {"irq"}, {"aviamem"}>>,
     <<"avia_av", {"wdt"}, {"aviamem", "code"}>>,
     <<"avia_gt_enx", {"bh task"}, {"info", "mem", "code"}>>,
     <<"avia_gt_enx", {"wdt"}, {"info", "regs", "code"}>>, <<"avs", {"event task"}, {"code"}>>,
     <<"avs", {"timer"}, {"code"}>>, <<"cam", {"cam task"}, {"client", "code"}>>,
     <<"dbox2_fp", {"fp task"}, {"client", "code"}>>, <<"dbox2_fp", {"ppc_md"}, {"client"}>>,
     <<"dbox2_fp_input", {"keyup timer"}, {"input", "code"}>>,
     <<"dbox2_i2c", {"adapter"}, {"handler"}>>, <<"dboxide_24", {"hwif"}, {"idebase"}>>,
     <<"ds1307", {"proc"}, {"client"}>>, <<"ds1307", {"rtc"}, {"client", "code"}>>,
     <<"dvb_i2c_bridge", {"attached"}, {"client", "code"}>>,
     <<"dvb_i2c_bridge", {"bus"}, {"code"}>>, <<"saa7126", {"saa"}, {"client"}>>,
     <<"sqc6100", {"proc"}, {"code"}>>, <<"stv0297", {"frontend"}, {"code"}>>,
     <<"tda8044h", {"frontend"}, {"tda"}>>, <<"tda8044h", {"irq"}, {"tda", "code"}>>,
     <<"tda80xx", {"frontend"}, {"tda"}>>, <<"tda80xx", {"irq"}, {"code"}>>,
     <<"tda80xx", {"tasklet"}, {"tda", "code"}>>, <<"ves1x93", {"frontend"}, {"state"}>>}

demodulators == {d \in DOMAIN modules : modules[d].busGoes # {}}

\* What an init that fails, or an exit, leaves behind.
left == UNION
    {demodulators \X {"bus client", "mutex"},
     {"at76c651", "sqc6100"} \X {"proc"}, {"avia_av"} \X {"wdt"},
     {"avia_gt_enx"} \X {"bh task", "wdt"}, {"avia_gt_lirc"} \X {"ir rx", "ir tx", "ir"},
     {"avia_gt_napi", "avia_gt_napi_ecd"} \X {"demux", "user"},
     {"avs"} \X {"avs_data", "client", "event task", "lock", "reg", "timer"},
     {"cam"} \X {"cam task"}, {"dbox2_fp"} \X {"defdata", "fp task"},
     {"dbox2_fp_input"} \X {"keyup timer"}, {"dboxide_24"} \X {"mapping"},
     {"dboxide_26"} \X {"cs2", "idebase", "mapping"}, {"ds1307"} \X {"rtc"},
     {"dummyadap"} \X {"connected", "demux", "mutex", "user"}, {"dvb2eth"} \X {"eth0"},
     {"dvb_i2c_bridge"} \X {"attached", "bus", "client", "mutex"}, {"dvbdev"} \X {"dvb"},
     {"stv0297"} \X {"frontend"}, {"tda8044h"} \X {"irq", "tda"},
     {"tda80xx"} \X {"irq", "tasklet", "tda"}, {"ves1x93"} \X {"state"}}

\* What is given back or used without being there.
unheld ==
    {<<"avia_av", "irq">>, <<"avia_av", "aviamem">>, <<"avs", "template">>,
     <<"cam", "microcode">>}

\* Whenever an interrupt, timer, task or thread of a driver can run, what it
\* relies on is there, the driver's code not the least: everything else that
\* starts something is stopped before what it uses is freed, on every way out.
HandlersHaveTheirs ==
    \A h \in handlers :
        (h.of = driver /\ h.by \subseteq held) =>
            \A r \in h.needs \ held : \E l \in late : l[1] = driver /\ l[2] = h.by /\ r \in l[3]

\* A driver that is gone, unloaded or never quite loaded, holds nothing: the
\* ladders of undoing and the exit functions name all that was taken.
LeavesNothing == phase = "gone" => {driver} \X held \subseteq left

\* Nothing is freed that was not taken, nor used before it is there.
UsesWhatItHolds == {driver} \X missed \subseteq unheld
=============================================================================
