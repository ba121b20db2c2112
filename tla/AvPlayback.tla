----------------------------- MODULE AvPlayback -----------------------------
(***************************************************************************)
(* What plays: the audio and video devices (avia/avia_av_napi.c), with the *)
(* play states a program asked for, the decoder feeds of the demultiplexer *)
(* (avia_av_napi_decoder_start, _stop), and the decoder's driver           *)
(* (avia/avia_av_core.c) with play states of its own, which takes and      *)
(* refuses changes by them.  Most callers do not look at what it returns.  *)
(*                                                                         *)
(* Nothing is locked.  A command waits, before it is written and after,    *)
(* for the decoder to be ready, and other threads run meanwhile: its words *)
(* may be old when it is written, and the play state is noted only when    *)
(* the last command was accepted.  How a command gets into the decoder is  *)
(* AvCommand.                                                              *)
(***************************************************************************)
EXTENDS Naturals

CONSTANTS
  Pids,      \* the pids of feeds
  Threads,   \* the threads that make calls
  Watchdog,  \* the one of them that is avia_av_wdt_thread
  Avia500,   \* aviarev # 0
  sptsfix    \* the module parameter

ConfigAssumption == Avia500 \in BOOLEAN /\ sptsfix \in BOOLEAN /\ Watchdog \in Threads

Types == {"audio", "video"}
NoPid == "0xFFFF"
Same == "same"  \* of a command that leaves a stream alone
PidsAssumption == NoPid \notin Pids /\ Same \notin Pids

VARIABLES
  want,      \* audiostate, videostate: .play_state
  source,    \* ... and .stream_source
  have,      \* have_audio, have_video
  play,      \* play_state_audio, play_state_video
  pid,       \* pid_audio, pid_video
  bypass,    \* bypass_mode
  changed,   \* bypass_mode_changed
  selected,  \* the decoder: the pid of each stream it plays; stream 0 is video,
             \*  2 and 3 are audio with and without bypass
  call,      \* call[c]: what c is doing
  feed,      \* history: the pid of the running decoder feed
  astray,    \* history: the types of which the decoder may play something else than the
             \*  driver notes, see Upset
  switched   \* history: the bypass mode was changed while something played

vars == <<want, source, have, play, pid, bypass, changed, selected, call, feed, astray, switched>>

Both(x) == [t \in Types |-> x]
Streams == {0, 2, 3}
Other(t) == IF t = "audio" THEN "video" ELSE "audio"

-----------------------------------------------------------------------------
(* The commands of the decoder: what each does to its streams.               *)

audio_stream == IF bypass THEN 2 ELSE 3
Stream(t) == IF t = "audio" THEN audio_stream ELSE 0

Untouched == [s \in Streams |-> Same]  \* Freeze, Resume, SetStreamType
SelectStream(n, p) == [s \in Streams |-> IF s = n THEN p ELSE Same]
NewChannel == [s \in Streams |-> NoPid]
Abort == [s \in Streams |-> NoPid]
Play(v, a) == [s \in Streams |-> IF s = 0 THEN v ELSE IF s = audio_stream THEN a ELSE Same]

given(cmd) == [s \in Streams |-> IF cmd[s] = Same THEN selected[s] ELSE cmd[s]]

-----------------------------------------------------------------------------
(* Calls.  touches are the types whose streams a call changes or whose state *)
(* it passes on; met are those of them that another call touched meanwhile.  *)
(* at is "write" before a command is written, "accept" until it is accepted, *)
(* "restart" and "cleared" while the decoder is started again; step is what  *)
(* it waits for.                                                             *)

Idle == [op |-> "none", t |-> "audio", to |-> "none", touches |-> {}, met |-> {},
         step |-> "last", at |-> "write", cmd |-> Untouched, whole |-> FALSE]

idle(c) == call[c].op = "none"
quiet(t) == \A c \in Threads : t \notin call[c].touches

met_by(c, T) == {t \in T : \E d \in Threads \ {c} : t \in call[d].touches}

(* c goes on with r, for T; the others that are at one of T have met it.     *)
Enters(c, T, r) ==
  call' = [d \in Threads |-> IF d = c THEN r
                             ELSE [call[d] EXCEPT !.met = @ \cup (call[d].touches \cap T)]]

(* What makes the decoder go astray: two calls for one type at a time, a     *)
(* feed that is started while the decoder plays, a Play for the audio that   *)
(* takes the pid of a frozen picture, and a restart that feeds are not told. *)
(* A call from the beginning to the end by itself puts it right.             *)
Upset(T) == astray' = astray \cup T

-----------------------------------------------------------------------------
(* avia_av_play_state_set_audio and ..._video.                               *)

refuses(t, to) ==
  \/ to = "paused" /\ play[t] # "playing"
  \/ to = "playing" /\ t = "video" /\ play[t] = "playing"
  \/ to = "stopped" /\ play[t] = "stopped"

(* The last of the two stops the channel, or on an AViA 500 with sptsfix     *)
(* everything.                                                               *)
is_last(t) == play[Other(t)] = "stopped"
may_play_again == Avia500 /\ (changed \/ sptsfix)
touched(t, to) ==
  IF \/ to = "stopped" /\ is_last(t)
     \/ to = "playing" /\ t = "audio" /\ may_play_again
    THEN Types ELSE {t}

set_paused(t) == IF t = "audio" THEN SelectStream(audio_stream, NoPid) ELSE Untouched
set_playing(t, p) ==
  IF t = "video" /\ play[t] = "paused" THEN Untouched ELSE SelectStream(Stream(t), p)
stopped_always(t) == NewChannel  \* a mutant: whatever the other plays
set_stopped(t) ==
  IF is_last(t) /\ ~(sptsfix /\ Avia500) THEN NewChannel ELSE SelectStream(Stream(t), NoPid)

first_step(t, to) ==
  CASE to = "playing" /\ t = "audio" -> "select"
    [] to = "stopped" /\ is_last(t) /\ sptsfix /\ Avia500 -> "abort"
    [] OTHER -> "last"
first_command(t, to, p) ==
  CASE to = "paused" -> set_paused(t)
    [] to = "playing" -> set_playing(t, p)
    [] to = "stopped" -> set_stopped(t)

(* Does it leave the decoder as noted, whatever it was before?               *)
sets_all(t, to) ==
  \/ to = "stopped"
  \/ to = "playing" /\ (t = "audio" \/ play[t] = "stopped")

setting(r, t, to, p) ==
  [r EXCEPT !.step = first_step(t, to), !.at = "write", !.cmd = first_command(t, to, p),
            !.to = to, !.whole = sets_all(t, to)]

Started(op, t, to, T) ==
  [Idle EXCEPT !.op = op, !.t = t, !.to = to, !.touches = T]

(* What the callers note after it, whatever it returned.                     *)
Noted(op, t, to) ==
  /\ want' = IF op = "ioctl" THEN [want EXCEPT ![t] = to] ELSE want
  /\ have' = CASE op = "start" -> [have EXCEPT ![t] = TRUE]
               [] op = "stop" -> [have EXCEPT ![t] = FALSE]
               [] OTHER -> have

(* Thread c calls it from an ioctl or the stop of a feed.                    *)
SetPlayState(c, op, t, to, goes) ==
  IF refuses(t, to) \/ ~goes
    THEN /\ Enters(c, {t}, Idle) /\ Noted(op, t, to) /\ Upset(met_by(c, {t}))
    ELSE LET T == touched(t, to)
         IN /\ Enters(c, T, setting([Started(op, t, to, T) EXCEPT !.met = met_by(c, T)],
                              t, to, pid[t]))
            /\ UNCHANGED <<want, have>> /\ Upset(met_by(c, T))

-----------------------------------------------------------------------------
(* The devices.                                                              *)

(* AUDIO_STOP, VIDEO_STOP; also at the release of a writer.                  *)
Stop(c, t) ==
  /\ idle(c) /\ SetPlayState(c, "ioctl", t, "stopped", TRUE)
  /\ UNCHANGED <<source, play, pid, bypass, changed, selected, feed, switched>>

(* AUDIO_PLAY, VIDEO_PLAY                                                    *)
PlayIoctl(c, t) ==
  /\ idle(c) /\ SetPlayState(c, "ioctl", t, "playing", have[t] \/ source[t] = "memory")
  /\ UNCHANGED <<source, play, pid, bypass, changed, selected, feed, switched>>

(* VIDEO_FREEZE is noted whether it was possible or not.                     *)
Pause(c, t) ==
  /\ idle(c) /\ (t = "audio" => want[t] = "playing")
  /\ SetPlayState(c, "ioctl", t, "paused", TRUE)
  /\ UNCHANGED <<source, play, pid, bypass, changed, selected, feed, switched>>

(* AUDIO_CONTINUE, VIDEO_CONTINUE: nobody asks for a feed.                   *)
Continue(c, t) ==
  /\ idle(c) /\ (t = "audio" => want[t] = "paused")
  /\ SetPlayState(c, "ioctl", t, "playing", TRUE)
  /\ UNCHANGED <<source, play, pid, bypass, changed, selected, feed, switched>>

SelectSource(t, src) ==
  /\ want[t] = "stopped"
  /\ source' = [source EXCEPT ![t] = src]
  /\ UNCHANGED <<want, have, play, pid, bypass, changed, selected, call, feed, astray, switched>>

(* avia_av_bypass_mode_set: an AViA 500 can't change it as it plays.  The    *)
(* others have the new configuration to wait for.                            *)
SetBypass(c, enable) ==
  /\ idle(c) /\ bypass # enable
  /\ Enters(c, Types, [Started("bypass", "audio", IF enable THEN "on" ELSE "off", Types)
                         EXCEPT !.cmd = IF Avia500 THEN Abort ELSE Untouched,
                                !.met = met_by(c, Types)])
  /\ Upset(met_by(c, Types))
  /\ UNCHANGED <<want, source, have, play, pid, bypass, changed, selected, feed, switched>>

-----------------------------------------------------------------------------
(* The decoder feeds: avia_av_napi_decoder_start and _stop, one at a time    *)
(* under the mutex of the demultiplexer.                                     *)

feeding == \E c \in Threads : call[c].op \in {"start", "stop"}

(* The stream type may have to be set before the program's wish is read.     *)
avia_av_napi_decoder_start(c, t, p) ==
  /\ idle(c) /\ ~feeding /\ feed[t] = NoPid
  /\ feed' = [feed EXCEPT ![t] = p]
  /\ pid' = [pid EXCEPT ![t] = p]
  /\ LET T == touched(t, "playing")
         r == [Started("start", t, "none", T) EXCEPT !.met = met_by(c, T)]
     IN \/ /\ play = Both("stopped")
           /\ Enters(c, T, [r EXCEPT !.step = "type"])
           /\ UNCHANGED <<want, have>> /\ Upset(met_by(c, T))
        \/ IF want[t] = "playing" /\ ~refuses(t, "playing")
             THEN /\ Enters(c, T, setting(r, t, "playing", p))
                  /\ UNCHANGED <<want, have>>
                  /\ Upset(met_by(c, T) \cup {u \in {t} : play[t] # "stopped"})
             ELSE /\ Enters(c, {t}, Idle) /\ Noted("start", t, "none")
                  /\ Upset(met_by(c, {t}) \cup {u \in {t} : play[t] # "stopped"})
  /\ UNCHANGED <<source, play, bypass, changed, selected, switched>>

avia_av_napi_decoder_stop(c, t) ==
  /\ idle(c) /\ ~feeding /\ feed[t] # NoPid
  /\ feed' = [feed EXCEPT ![t] = NoPid]
  /\ SetPlayState(c, "stop", t, "stopped", TRUE)
  /\ UNCHANGED <<source, play, pid, bypass, changed, selected, switched>>

(* avia_av_wdt_thread: what the decoder should play but does not is selected *)
(* again.                                                                    *)
Watch(t) ==
  /\ idle(Watchdog) /\ play[t] = "playing"
  /\ Enters(Watchdog, {t}, [Started("watch", t, "none", {t})
                              EXCEPT !.cmd = SelectStream(Stream(t), pid[t]),
                                     !.met = met_by(Watchdog, {t})])
  /\ Upset(met_by(Watchdog, {t}))
  /\ UNCHANGED <<want, source, have, play, pid, bypass, changed, selected, feed, switched>>

-----------------------------------------------------------------------------
(* How calls go on.                                                          *)

(* The decoder is ready, and gets the command.                               *)
WriteCommand(c) ==
  /\ ~idle(c) /\ call[c].at = "write"
  /\ selected' = given(call[c].cmd)
  /\ call' = [call EXCEPT ![c].at = "accept", ![c].cmd = Untouched]
  /\ UNCHANGED <<want, source, have, play, pid, bypass, changed, feed, astray, switched>>

video_if_playing == IF play["video"] = "playing" THEN pid["video"] ELSE NoPid

(* The audio is told to play once more, with the video, on an AViA 500.      *)
again == Avia500 /\ sptsfix /\ play["audio"] # "paused"
next_step(step) ==
  CASE step = "select" /\ Avia500 /\ changed -> "video"
    [] step = "select" /\ ~(Avia500 /\ changed) /\ again -> "play"
    [] step = "video" -> "anew"
    [] step = "anew" /\ again -> "play"
    [] step = "abort" -> "last"
    [] OTHER -> "none"
next_command(step) ==
  CASE step = "video" -> SelectStream(0, video_if_playing)
    [] step \in {"anew", "play"} -> Play(video_if_playing, pid["audio"])
    [] step = "last" -> Abort

NextCommand(c) ==
  LET step == next_step(call[c].step)
  IN /\ ~idle(c) /\ call[c].at = "accept" /\ step # "none"
     /\ call' = [call EXCEPT ![c].step = step, ![c].at = "write", ![c].cmd = next_command(step)]
     /\ Upset({t \in {"video"} : step # "last" /\ play["video"] = "paused"})
     /\ UNCHANGED <<want, source, have, play, pid, bypass, changed, selected, feed, switched>>

(* The stream type is set: only now the wish is read.                        *)
AfterType(c) ==
  LET r == call[c] IN
  /\ ~idle(c) /\ r.at = "accept" /\ r.step = "type"
  /\ IF want[r.t] = "playing" /\ ~refuses(r.t, "playing")
       THEN call' = [call EXCEPT ![c] = setting(r, r.t, "playing", pid[r.t])] /\ UNCHANGED <<want, have>>
       ELSE call' = [call EXCEPT ![c] = Idle] /\ Noted("start", r.t, "none")
  /\ UNCHANGED <<source, play, pid, bypass, changed, selected, feed, astray, switched>>

(* The last command is accepted: the play state is noted.                    *)
Finish(c) ==
  LET r == call[c] IN
  /\ r.op \in {"ioctl", "start", "stop", "watch"} /\ r.at = "accept"
  /\ next_step(r.step) = "none" /\ r.step # "type"
  /\ play' = IF r.to = "none" THEN play ELSE [play EXCEPT ![r.t] = r.to]
  /\ changed' = (changed /\ ~(r.to = "playing" /\ r.t = "audio"))
  /\ Noted(r.op, r.t, r.to)
  /\ astray' = IF r.whole /\ r.t \notin r.met THEN astray \ {r.t} ELSE astray
  /\ call' = [call EXCEPT ![c] = Idle]
  /\ UNCHANGED <<source, pid, bypass, selected, feed, switched>>

plays(t) == play[t] # "stopped" \/ t \in astray
FinishBypass(c) ==
  /\ call[c].op = "bypass" /\ call[c].at = "accept"
  /\ bypass' = (call[c].to = "on") /\ changed' = TRUE
  /\ switched' = (switched \/ call[c].met # {} \/ plays("audio") \/ (Avia500 /\ plays("video")))
  /\ call' = [call EXCEPT ![c] = Idle]
  /\ UNCHANGED <<want, source, have, play, pid, selected, feed, astray>>

-----------------------------------------------------------------------------
(* avia_av_standby(1) and (0): another sample rate or video system, or a     *)
(* decoder that does not answer a command within two seconds.  Feeds and     *)
(* devices are not told, and the call in which it happens goes on as if its  *)
(* command had been taken.                                                   *)

avia_av_standby(c) ==
  /\ idle(c)
  /\ Enters(c, Types, [Started("restart", "audio", "none", Types)
                         EXCEPT !.at = "restart", !.met = met_by(c, Types)])
  /\ Upset(met_by(c, Types))
  /\ selected' = [s \in Streams |-> NoPid]
  /\ UNCHANGED <<want, source, have, play, pid, bypass, changed, feed, switched>>

TimesOut(c) ==
  /\ call[c].op \notin {"none", "restart"} /\ call[c].at \in {"write", "accept"}
  /\ call[c].op = "bypass" => Avia500
  /\ call' = [d \in Threads |-> IF d = c THEN [call[d] EXCEPT !.at = "restart", !.touches = Types, !.met = Types]
                                ELSE [call[d] EXCEPT !.met = @ \cup call[d].touches]]
  /\ Upset(Types)
  /\ selected' = [s \in Streams |-> NoPid]
  /\ UNCHANGED <<want, source, have, play, pid, bypass, changed, feed, switched>>

(* avia_av_init: its last commands as one, and then the states that it      *)
(* notes.  That it fails, or that one of those commands is timed out and     *)
(* starts it within itself, is left out.                                     *)
ClearStreams(c) ==
  /\ call[c].at = "restart"
  /\ selected' = [s \in Streams |-> NoPid]
  /\ call' = [call EXCEPT ![c].at = "cleared"]
  /\ UNCHANGED <<want, source, have, play, pid, bypass, changed, feed, astray, switched>>

Restarted(c) ==
  LET alone == call[c].op = "restart" /\ call[c].met = {} IN
  /\ call[c].at = "cleared"
  /\ play' = Both("stopped")
  /\ switched' = (switched /\ ~alone)
  /\ astray' = (IF alone THEN {} ELSE astray) \cup {t \in Types : feed[t] # NoPid}
  /\ call' = [call EXCEPT ![c] = IF call[c].op = "restart" THEN Idle ELSE [@ EXCEPT !.at = "accept"]]
  /\ UNCHANGED <<want, source, have, pid, bypass, changed, selected, feed>>

-----------------------------------------------------------------------------
Init ==
  /\ want = Both("stopped") /\ source = Both("demux") /\ have = Both(FALSE)
  /\ play = Both("stopped") /\ pid = Both(NoPid)
  /\ bypass = FALSE /\ changed = FALSE
  /\ selected = [s \in Streams |-> NoPid]
  /\ call = [c \in Threads |-> Idle]
  /\ feed = Both(NoPid) /\ astray = {} /\ switched = FALSE

Next ==
  \/ \E t \in Types, c \in Threads \ {Watchdog} :
       \/ Stop(c, t) \/ PlayIoctl(c, t) \/ Pause(c, t) \/ Continue(c, t)
       \/ \E p \in Pids : avia_av_napi_decoder_start(c, t, p)
       \/ avia_av_napi_decoder_stop(c, t)
  \/ \E t \in Types : Watch(t) \/ \E src \in {"demux", "memory"} : SelectSource(t, src)
  \/ \E c \in Threads \ {Watchdog} : \E enable \in BOOLEAN : SetBypass(c, enable)
  \/ \E c \in Threads \ {Watchdog} : avia_av_standby(c)
  \/ \E c \in Threads :
       \/ WriteCommand(c) \/ NextCommand(c) \/ AfterType(c) \/ Finish(c) \/ FinishBypass(c)
       \/ TimesOut(c) \/ ClearStreams(c) \/ Restarted(c)

Spec == Init /\ [][Next]_vars

-----------------------------------------------------------------------------
States == {"stopped", "playing", "paused"}
Calls == [op : {"none", "ioctl", "start", "stop", "watch", "bypass", "restart"}, t : Types,
          to : States \cup {"none", "on", "off"}, touches : SUBSET Types, met : SUBSET Types,
          step : {"type", "select", "video", "anew", "play", "abort", "last"},
          at : {"write", "accept", "restart", "cleared"}, cmd : [Streams -> Pids \cup {NoPid, Same}],
          whole : BOOLEAN]
TypeOK ==
  /\ want \in [Types -> States]
  /\ source \in [Types -> {"demux", "memory"}] /\ have \in [Types -> BOOLEAN]
  /\ play \in [Types -> States]
  /\ pid \in [Types -> Pids \cup {NoPid}]
  /\ bypass \in BOOLEAN /\ changed \in BOOLEAN
  /\ selected \in [Streams -> Pids \cup {NoPid}]
  /\ call \in [Threads -> Calls]
  /\ feed \in [Types -> Pids \cup {NoPid}] /\ astray \subseteq Types /\ switched \in BOOLEAN

(* When no call for it is under way, the decoder plays just the pid of a     *)
(* feed whose program wants it to play, and nothing of a type that is        *)
(* stopped, in all orders of ioctls on both devices, of feeds and of the     *)
(* watchdog, whose calls run into each other.  The exceptions are those of   *)
(* Upset, until a call by itself puts them right, and a bypass mode that was *)
(* switched while something played.                                          *)
PlaysItsFeed ==
  ~switched =>
    \A t \in Types : quiet(t) /\ t \notin astray =>
      /\ feed[t] # NoPid /\ want[t] = "playing" =>
           play[t] = "playing" /\ selected[Stream(t)] = feed[t]
      /\ play[t] = "stopped" => selected[Stream(t)] = NoPid
=============================================================================
