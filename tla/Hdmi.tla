--------------------------------- MODULE Hdmi ---------------------------------
(***************************************************************************)
(* usr/drivers/hdmi.c: the device structure, the registers the driver      *)
(* writes, the display that raises events, and the interrupt handler,      *)
(* which reads the pending events, then the status of each kind, and only  *)
(* then clears what it read; the display may change between these steps.   *)
(* Register addresses, bit positions and the wait loops are left out.      *)
(***************************************************************************)
EXTENDS FiniteSets, Integers

CONSTANTS
  Resolutions,        \* bound: indices of standard_timings
  CustomTimings,      \* bound: timings given to hdmi_set_custom_timing
  Depths,             \* bound: arguments of hdmi_set_color_depth
  AudioConfigs        \* bound: arguments of hdmi_set_audio_config

ASSUME HdmiAssumption == Resolutions \subseteq 0 .. 5 /\ Depths \subseteq Nat

VARIABLES
  hdmi,         \* the device structure
  hdmi_reg,     \* the registers of the controller
  display,      \* the lines of the display: "hotplug" and "stability" status
  handler,      \* the interrupt handler: its place and the events it read
  known,        \* history: kinds whose status was read since hdmi_init
  missed,       \* history: kinds that changed after the handler read their status
  chosen        \* history: settings written since hdmi_init

hdmi_vars == <<hdmi, hdmi_reg, display, handler, known, missed, chosen>>

Kinds == {"hotplug", "stability"}
HDMI_RES_1920x1080_60Hz == 4
DefaultTiming == [of |-> HDMI_RES_1920x1080_60Hz, clock |-> 148500000, active |-> 1920, sync |-> 44]
DefaultAudio == [rate |-> 48000, bits |-> 16]

\* pixel clock, active and sync width of each preset; h and v are zero together.
standard_timings ==
  [r \in 0 .. 5 |->
    [of |-> r,
     clock |-> <<25175000, 40000000, 65000000, 74250000, 148500000, 297000000>>[r + 1],
     active |-> <<640, 800, 1024, 1280, 1920, 3840>>[r + 1],
     sync |-> <<96, 128, 136, 40, 44, 88>>[r + 1]]]

hdmi_validate_timing(t) == t.active # 0 /\ t.sync # 0 /\ t.clock >= 1000000

HdmiInit ==
  /\ hdmi = [initialized |-> FALSE, lines |-> [k \in Kinds |-> FALSE], mask |-> {}, resolution |-> 0,
             timing |-> standard_timings[0], depth |-> 8, audio |-> DefaultAudio,
             audio_enabled |-> FALSE, hdcp_enabled |-> FALSE]
  /\ hdmi_reg = [ctrl |-> {}, mask |-> {}, pending |-> {}, timing |-> standard_timings[0], depth |-> 8,
                 audio |-> DefaultAudio]
  /\ display \in [Kinds -> BOOLEAN]
  /\ handler = [at |-> "idle", status |-> {}]
  /\ known = {} /\ missed = {} /\ chosen = {}

\* The driver's calls run while no interrupt is being handled.
Calm == handler.at = "idle"
Initialized == Calm /\ hdmi.initialized

--------------------------------------------------------------------------------
\* hdmi_reset leaves only the control register changed.
hdmi_reset(reg) == [reg EXCEPT !.ctrl = {}]

\* Also of a device that is initialised.  hdmi_set_interrupt_mask is refused here, because the
\* device is not marked initialised yet: the register keeps the mask it had.
hdmi_init ==
  /\ Calm
  /\ hdmi' = [initialized |-> TRUE, lines |-> [k \in Kinds |-> FALSE], mask |-> {},
              resolution |-> HDMI_RES_1920x1080_60Hz, timing |-> DefaultTiming, depth |-> 8,
              audio |-> DefaultAudio, audio_enabled |-> FALSE, hdcp_enabled |-> FALSE]
  /\ hdmi_reg' = hdmi_reset(hdmi_reg)
  /\ known' = {} /\ missed' = {} /\ chosen' = {}
  /\ UNCHANGED <<display, handler>>

hdmi_deinit ==
  /\ Initialized
  /\ hdmi' = [hdmi EXCEPT !.initialized = FALSE, !.mask = {}]
  /\ hdmi_reg' = [hdmi_reset(hdmi_reg) EXCEPT !.mask = {}]
  /\ UNCHANGED <<display, handler, known, missed, chosen>>

\* hdmi_is_connected and hdmi_is_stable, outside the handler.
ReadStatus(k) ==
  /\ Initialized
  /\ hdmi' = [hdmi EXCEPT !.lines[k] = display[k]]
  /\ known' = known \union {k} /\ missed' = missed \ {k}
  /\ UNCHANGED <<hdmi_reg, display, handler, chosen>>

hdmi_set_custom_timing(t, config) ==
  IF hdmi_validate_timing(t)
  THEN /\ hdmi_reg' = [hdmi_reg EXCEPT !.timing = t]
       /\ hdmi' = [config EXCEPT !.timing = t]
       /\ chosen' = chosen \union {"timing"}
  ELSE hdmi' = config /\ UNCHANGED <<hdmi_reg, chosen>>

SetTiming ==
  /\ Initialized
  /\ \/ \E r \in Resolutions :
          hdmi_set_custom_timing(standard_timings[r],
                                 [hdmi EXCEPT !.resolution = r, !.timing = standard_timings[r]])
     \/ \E t \in CustomTimings : hdmi_set_custom_timing(t, hdmi)
  /\ UNCHANGED <<display, handler, known, missed>>

hdmi_set_color_depth(d) ==
  /\ Initialized /\ d \in {8, 10, 12, 16}
  /\ hdmi_reg' = [hdmi_reg EXCEPT !.depth = d]
  /\ hdmi' = [hdmi EXCEPT !.depth = d]
  /\ chosen' = chosen \union {"depth"}
  /\ UNCHANGED <<display, handler, known, missed>>

hdmi_set_audio_config(a) ==
  /\ Initialized
  /\ hdmi_reg' = [hdmi_reg EXCEPT !.audio = a]
  /\ hdmi' = [hdmi EXCEPT !.audio = a]
  /\ chosen' = chosen \union {"audio"}
  /\ UNCHANGED <<display, handler, known, missed>>

\* hdmi_modify_reg of one control bit.
Control(bit, enable) ==
  hdmi_reg' = [hdmi_reg EXCEPT !.ctrl = IF enable THEN @ \union {bit} ELSE @ \ {bit}]

hdmi_enable_audio(enable) == Control("audio", enable) /\ hdmi' = [hdmi EXCEPT !.audio_enabled = enable]
hdmi_enable_hdcp(enable) == Control("hdcp", enable) /\ hdmi' = [hdmi EXCEPT !.hdcp_enabled = enable]
hdmi_enable_video(enable) == Control("video", enable) /\ UNCHANGED hdmi
hdmi_enable(enable) == Control("enable", enable) /\ UNCHANGED hdmi
Enable(enable) ==
  /\ Initialized
  /\ \/ hdmi_enable_audio(enable) \/ hdmi_enable_hdcp(enable)
     \/ hdmi_enable_video(enable) \/ hdmi_enable(enable)
  /\ UNCHANGED <<display, handler, known, missed, chosen>>

hdmi_set_interrupt_mask(mask) ==
  /\ Initialized
  /\ hdmi_reg' = [hdmi_reg EXCEPT !.mask = mask]
  /\ hdmi' = [hdmi EXCEPT !.mask = mask]
  /\ chosen' = chosen \union {"mask"}
  /\ UNCHANGED <<display, handler, known, missed>>

--------------------------------------------------------------------------------
\* The display changes a line and its event becomes pending; what the handler
\* has read already and is about to clear is lost.
DisplayChanges(k) ==
  /\ display' = [display EXCEPT ![k] = ~@]
  /\ hdmi_reg' = [hdmi_reg EXCEPT !.pending = @ \union {k}]
  /\ missed' = IF k \in handler.status /\ <<handler.at, k>> \notin {<<"hotplug", "hotplug">>,
                                              <<"hotplug", "stability">>, <<"stability", "stability">>}
               THEN missed \union {k} ELSE missed
  /\ UNCHANGED <<hdmi, handler, known, chosen>>

hdmi_interrupt_handler ==
  /\ Initialized
  /\ handler' = [at |-> "hotplug", status |-> hdmi_reg.pending]
  /\ UNCHANGED <<hdmi, hdmi_reg, display, known, missed, chosen>>

HandleEvent(k, next) ==
  /\ handler.at = k
  /\ handler' = [handler EXCEPT !.at = next]
  /\ IF k \in handler.status
     THEN /\ hdmi' = [hdmi EXCEPT !.lines[k] = display[k]]
          /\ known' = known \union {k} /\ missed' = missed \ {k}
     ELSE UNCHANGED <<hdmi, known, missed>>
  /\ UNCHANGED <<hdmi_reg, display, chosen>>

\* Mutant: every pending event is cleared, not those that were read.
ClearAll ==
  /\ handler.at = "clear"
  /\ hdmi_reg' = [hdmi_reg EXCEPT !.pending = {}]
  /\ handler' = [at |-> "idle", status |-> {}]
  /\ UNCHANGED <<hdmi, display, known, missed, chosen>>

hdmi_clear_interrupts ==
  /\ handler.at = "clear"
  /\ hdmi_reg' = [hdmi_reg EXCEPT !.pending = @ \ handler.status]
  /\ handler' = [at |-> "idle", status |-> {}]
  /\ UNCHANGED <<hdmi, display, known, missed, chosen>>

HdmiNext ==
  \/ hdmi_init \/ hdmi_deinit \/ SetTiming
  \/ \E k \in Kinds : ReadStatus(k) \/ DisplayChanges(k)
  \/ \E d \in Depths : hdmi_set_color_depth(d)
  \/ \E a \in AudioConfigs : hdmi_set_audio_config(a)
  \/ \E enable \in BOOLEAN : Enable(enable)
  \/ \E mask \in {{}, Kinds} : hdmi_set_interrupt_mask(mask)
  \/ hdmi_interrupt_handler
  \/ HandleEvent("hotplug", "stability") \/ HandleEvent("stability", "clear")
  \/ hdmi_clear_interrupts
HdmiSpec == HdmiInit /\ [][HdmiNext]_hdmi_vars

--------------------------------------------------------------------------------
\* What the driver believes of the display is stale only while an event is
\* pending or handled, except for a change that fell between the handler's
\* read of the status and its clearing of the events (hdmi.c:393-415).
InterruptsServed ==
  hdmi.initialized /\ handler.at = "idle" =>
    \A k \in (known \ missed) \ hdmi_reg.pending : hdmi.lines[k] = display[k]

\* What was set since the last hdmi_init, the interrupt mask included, and which outputs are on
\* is in memory as it is in the registers, over every sequence of initialisations, settings
\* and shutdowns (hdmi.c:70-130, 160-385).
RegistersAgree ==
  hdmi.initialized =>
    /\ hdmi.audio_enabled = ("audio" \in hdmi_reg.ctrl)
    /\ hdmi.hdcp_enabled = ("hdcp" \in hdmi_reg.ctrl)
    /\ \A s \in chosen : hdmi[s] = hdmi_reg[s]

\* The driver's own state is the one of the registers, and no interrupt that it serves is
\* lost but one that was raised while it cleared (hdmi.c).
DisplayAgrees == RegistersAgree /\ InterruptsServed
================================================================================
