-------------------------------- MODULE Fvad --------------------------------
(***************************************************************************)
(* The voice activity detector of fvad/src/fvad.c as the recorder uses it. *)
(* Of an instance only its configuration matters here: the sample rate (in *)
(* kHz) and the mode.  The decision itself is a choice.                    *)
(***************************************************************************)
EXTENDS Integers

valid_rates == {8, 16, 32, 48}

\* Frame lengths in milliseconds.
valid_frame_times == {10, 20, 30}

valid_modes == 0 .. 3

FvadConfig == [rate : valid_rates, mode : valid_modes]

\* fvad_new() and fvad_reset(): both go back to the defaults.
fvad_reset == [rate |-> 8, mode |-> 0]

\* An invalid mode or rate is refused with -1 and leaves the instance alone.
fvad_set_mode(v, mode) ==
    IF mode \in valid_modes THEN [v EXCEPT !.mode = mode] ELSE v

fvad_set_sample_rate(v, khz) ==
    IF khz \in valid_rates THEN [v EXCEPT !.rate = khz] ELSE v

valid_length(v, length) == \E ms \in valid_frame_times : length = ms * v.rate

\* The results fvad_process() can return for a frame of length samples.
fvad_process(v, length) == IF valid_length(v, length) THEN {0, 1} ELSE {-1}
=============================================================================
