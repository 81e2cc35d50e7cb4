--------------------------- MODULE MCStorageTests ---------------------------
(***************************************************************************)
(* StorageTests with two threads on boards that differ in what the tests   *)
(* look at: where the system is, what is plugged in, and which of the      *)
(* devices is fast.                                                        *)
(***************************************************************************)
EXTENDS StorageTests

Rates(emmc, card, stick) == [emmc |-> emmc, card |-> card, stick |-> stick]

\* The system on the eMMC, a fast stick plugged in, no mount point yet.
Plain == [emmc |-> TRUE, emmcP3 |-> TRUE, fs |-> "other", sd |-> FALSE, sdP3 |-> FALSE,
          root |-> "emmc", usb |-> TRUE, sda |-> TRUE, dir |-> FALSE,
          rate |-> Rates("mid", "mid", "fast")]

\* The system on the SD card, an eMMC that has to be mounted.
OnCard == [Plain EXCEPT !.emmcP3 = FALSE, !.sd = TRUE, !.sdP3 = TRUE, !.root = "card",
                        !.dir = TRUE, !.rate = Rates("fast", "mid", "mid")]

\* The fourth board is not Judgeable by the USB tests; the fifth, with a card that
\* has an installation of its own in a board run from the eMMC, not by testMicrosd.
MCBoards ==
  {Plain, OnCard,
   [OnCard EXCEPT !.fs = "ext4", !.dir = FALSE, !.rate = Rates("mid", "slow", "fast")],
   [Plain EXCEPT !.sda = FALSE, !.rate = Rates("fast", "slow", "slow")],
   [Plain EXCEPT !.usb = FALSE, !.sd = TRUE, !.sdP3 = TRUE, !.rate = Rates("slow", "mid", "slow")],
   [OnCard EXCEPT !.emmc = FALSE, !.usb = FALSE, !.rate = Rates("slow", "mid", "slow")]}
=============================================================================
