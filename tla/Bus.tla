-------------------------------- MODULE Bus --------------------------------
(***************************************************************************)
(* The memory side of the machine put together: the slots and the RAM      *)
(* mapper, a cartridge with its mapper, and the FM-PAC. They share no      *)
(* state: the routing decides which of them an access reaches, and what    *)
(* each does with it is its own. So every behaviour follows one of them,   *)
(* the others rest as they were at power-on.                               *)
(***************************************************************************)
EXTENDS Mapper, Slots, FmPac

VARIABLE focus     \* the part this behaviour follows

busVars == <<mapperVars, slotVars, fmVars, focus>>

\* A part at rest, in one state of its power-on states.
RestingKind    == CHOOSE k \in Kinds : TRUE
RestingMapper  == MapperInit /\ kind = RestingKind /\ rom = CHOOSE r \in Roms[RestingKind] : TRUE
RestingSlots   == SlotsInit /\ machine = CHOOSE m \in Machines : TRUE

BusInit ==
  /\ FmInit
  /\ \/ focus = "mapper" /\ MapperInit /\ RestingSlots
     \/ focus = "slots" /\ RestingMapper /\ SlotsInit
     \/ focus = "fmpac" /\ RestingMapper /\ RestingSlots

BusNext ==
  /\ UNCHANGED focus
  /\ \/ focus = "mapper" /\ MapperNext /\ UNCHANGED <<slotVars, fmVars>>
     \/ focus = "slots" /\ SlotsNext /\ UNCHANGED <<mapperVars, fmVars>>
     \/ focus = "fmpac" /\ FmNext /\ UNCHANGED <<mapperVars, slotVars>>

BusSpec == BusInit /\ [][BusNext]_busVars

-----------------------------------------------------------------------------

\* What the debugger reports of a cartridge, of the slots and of the RAM mapper
\* (slot_info) is what a read returns: the description decodes the registers on its
\* own, the reads use the copies and the routing.
SlotInfoIsRead ==
  /\ DescriptionIsRead
  /\ SlotViewIsRead
  /\ FmDescribed = FmView("sram")

\* Loading a save state shows at every address what was there when it was saved,
\* whatever banks, halves, gates and locks were changed in between (the copies are
\* not saved, each device derives them again when it applies the state).
LoadShowsWhatWasSaved ==
  /\ LoadShowsSaved
  /\ FmLoadShowsSaved

\* A write changes battery-backed or cartridge memory only where a read of the same
\* address shows it: what a gate or the lock hides cannot be written.
StoresOnlyWhereShown ==
  /\ StoresWhereShown
  /\ [][fmSram' # fmSram /\ ~FmLoad => FmView("sram").src = "sram"]_fmVars
=============================================================================
