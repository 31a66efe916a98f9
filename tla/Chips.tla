------------------------------- MODULE Chips -------------------------------
(***************************************************************************)
(* The chips behind the I/O ports: the video chips and their renderer, the *)
(* floppy controller of the FS-A1F, the mouse, the sound, the clock and    *)
(* the keyboard and joysticks that the host fills in. The machine gives    *)
(* them time and the program its accesses; they share no state, so a       *)
(* behaviour follows one of them on a machine that has no other (Absent),  *)
(* and every property speaks of the chip that is there.                    *)
(***************************************************************************)
EXTENDS V9938, Tms9918, Sprites, Screen, Tc8566af, Mouse, Sound, Rtc, HostInput

VARIABLE chosen     \* the chip this behaviour follows

chipVars ==
  <<v9938Vars, tmsVars, spriteVars, screenVars, tcVars, mouseVars, soundVars, rtcVars, inputVars, chosen>>

Absent == <<>>
NoV9938 == vdp = Absent /\ vdpJob = Absent /\ vdpSnap = Absent /\ work = Absent /\ pair = Absent /\ rows = Absent
NoTms == tms = Absent /\ tmsJob = Absent /\ tmsSnap = Absent /\ tmsPair = Absent
NoSprites == plane = Absent /\ planeJob = Absent /\ rendered = Absent
NoScreen == view = Absent /\ viewJob = Absent
NoTc == tc = Absent /\ tcJob = Absent /\ tcSnap = Absent /\ asked = Absent
NoMouse == mouse = Absent /\ mouseR15 = Absent /\ mouseSnap = Absent /\ scan = Absent /\ mouseJob = Absent
NoSound ==
  /\ psg = Absent /\ click = Absent /\ cart = Absent /\ ppi = Absent /\ scc = Absent
  /\ frameCycle = Absent /\ soundSnap = Absent /\ mixed = Absent /\ live = Absent /\ soundJob = Absent
NoRtc == rtc = Absent /\ rtcCycle = Absent /\ rtcSnap = Absent /\ wall = Absent /\ rtcJob = Absent

NoInput == input = Absent /\ hands = Absent /\ inputJob = Absent

ChipsInit ==
  /\ chosen \in {"v9938", "tms", "sprites", "screen", "tc8566af", "mouse", "sound", "rtc", "input"}
  /\ IF chosen = "v9938" THEN V9938Init ELSE NoV9938
  /\ IF chosen = "tms" THEN TmsInit ELSE NoTms
  /\ IF chosen = "sprites" THEN SpritesInit ELSE NoSprites
  /\ IF chosen = "screen" THEN ScreenInit ELSE NoScreen
  /\ IF chosen = "tc8566af" THEN TcInit ELSE NoTc
  /\ IF chosen = "mouse" THEN MouseInit ELSE NoMouse
  /\ IF chosen = "sound" THEN SoundInit ELSE NoSound
  /\ IF chosen = "rtc" THEN RtcInit ELSE NoRtc
  /\ IF chosen = "input" THEN InputInit ELSE NoInput

ChipsNext ==
  /\ UNCHANGED chosen
  /\ \/ chosen = "v9938" /\ V9938Next /\ UNCHANGED <<tmsVars, spriteVars, screenVars, tcVars, mouseVars, soundVars, rtcVars, inputVars>>
     \/ chosen = "tms" /\ TmsNext /\ UNCHANGED <<v9938Vars, spriteVars, screenVars, tcVars, mouseVars, soundVars, rtcVars, inputVars>>
     \/ chosen = "sprites" /\ SpritesNext /\ UNCHANGED <<v9938Vars, tmsVars, screenVars, tcVars, mouseVars, soundVars, rtcVars, inputVars>>
     \/ chosen = "screen" /\ ScreenNext /\ UNCHANGED <<v9938Vars, tmsVars, spriteVars, tcVars, mouseVars, soundVars, rtcVars, inputVars>>
     \/ chosen = "tc8566af" /\ TcNext /\ UNCHANGED <<v9938Vars, tmsVars, spriteVars, screenVars, mouseVars, soundVars, rtcVars, inputVars>>
     \/ chosen = "mouse" /\ MouseNext /\ UNCHANGED <<v9938Vars, tmsVars, spriteVars, screenVars, tcVars, soundVars, rtcVars, inputVars>>
     \/ chosen = "sound" /\ SoundNext /\ UNCHANGED <<v9938Vars, tmsVars, spriteVars, screenVars, tcVars, mouseVars, rtcVars, inputVars>>
     \/ chosen = "rtc" /\ RtcNext /\ UNCHANGED <<v9938Vars, tmsVars, spriteVars, screenVars, tcVars, mouseVars, soundVars, inputVars>>
     \/ chosen = "input" /\ InputNext /\ UNCHANGED <<v9938Vars, tmsVars, spriteVars, screenVars, tcVars, mouseVars, soundVars, rtcVars>>

ChipsSpec == ChipsInit /\ [][ChipsNext]_chipVars

-----------------------------------------------------------------------------

\* The level of the interrupt line, which the machine samples before every instruction,
\* is that of the flags and their enables, on both video chips, after every write,
\* read, line, command, blanking, reset and load.
IrqFollowsFlags ==
  /\ chosen = "v9938" => VdpIrqFollowsFlags
  /\ chosen = "tms" => TmsIrqFollowsFlags

\* The two bytes of a control pair set the register or the address that they name,
\* whatever other accesses, resets, saves and loads come before them.
ControlPairLands ==
  /\ chosen = "v9938" => VdpPairLands
  /\ chosen = "tms" => TmsPairLands

\* The picture made at the end of a frame is the raster's: each row shows the registers
\* of its line, the sprites those of each line's attributes and limits, and a dot of
\* the background is the same in every mode and chip that can show it.
PictureFollowsTheRaster ==
  /\ chosen = "v9938" => RowsShowTheirRegisters
  /\ chosen = "sprites" => SpritesAsTheRaster
  /\ chosen = "screen" => BackgroundsAgree

\* What a command of the V9938 does to VRAM is what its registers name, dot by dot, and
\* the bytes of a transfer between the CPU and VRAM go to and come from their dots in
\* order, none lost and none twice.
CommandsDrawAsNamed == chosen = "v9938" => CommandsDrawTheirRectangle /\ TransfersKeepOrder

\* A disk in the FS-A1F's drives changes as the bytes of a whole command name it.
DisksWrittenAsAsked == [][chosen = "tc8566af" => WrittenAsAsked]_chipVars

\* What the program reads of the mouse is the host's motion, no more and no less.
MouseMotionConserved == chosen = "mouse" => MotionConserved

\* What a frame plays is what the program wrote in it, each write from its own sample.
FramePlaysItsWrites == chosen = "sound" => SoundFollowsTheWrites

\* The time that the clock shows is the start time and the emulated seconds since.
TimeRunsOn == chosen = "rtc" => ClockRunsOn

\* The keyboard matrix and the joystick lines that the program reads are those of the
\* keys and controls that are held: nothing hangs, nothing is lost.
InputFollowsHands == chosen = "input" => KeysAreShown /\ NothingHangs
=============================================================================
