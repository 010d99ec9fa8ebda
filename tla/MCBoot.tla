------------------------------- MODULE MCBoot -------------------------------
(* A disk of three sectors: the partition table, and two places where a     *)
(* partition may start, each with a FAT32 header or something else.         *)
EXTENDS Boot

MCImages == [0 .. 2 -> Data] 
MCLinux == [d \in Data |-> CASE d = "mbr" -> <<1, -1, -1, 2>>
                             [] OTHER -> <<-1, -1, -1, -1>>]
MCDisks == {image \in MCImages : image[0] = "mbr" /\ image[1] # "mbr" /\ image[2] # "mbr"}
=============================================================================
