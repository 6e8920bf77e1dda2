---------------------------- MODULE SnappyInternal ----------------------------
(***************************************************************************)
(* The tag tables of src/snappy/snappy-internal.rs: the four element     *)
(* types a tag byte's low two bits select, MAXIMUM_TAG_LENGTH, and       *)
(* char_table, the decompressor's lookup table with one entry per tag    *)
(* byte.  An entry packs the literal or copy length (bits 0..7), the     *)
(* copy offset divided by 256 (bits 8..10) and the number of extra bytes *)
(* after the tag (bits 11..13).                                           *)
(***************************************************************************)
EXTENDS Naturals, Sequences

\* The element types of the low two bits of a tag (the enum __UNTAGGED).
LITERAL == 0
COPY_1_BYTE_OFFSET == 1
COPY_2_BYTE_OFFSET == 2
COPY_3_BYTE_OFFSET == 3

\* COPY_4_BYTE_OFFSET plus the actual offset.
MAXIMUM_TAG_LENGTH == 5

(* A mutant of char_table: tag 0xf0 (a literal whose length follows in   *)
(* one extra byte) transcribed as a one-byte literal.                    *)
char_table_slip == <<
     \h0001, \h0804, \h1001, \h2001, \h0002, \h0805, \h1002, \h2002,
     \h0003, \h0806, \h1003, \h2003, \h0004, \h0807, \h1004, \h2004,
     \h0005, \h0808, \h1005, \h2005, \h0006, \h0809, \h1006, \h2006,
     \h0007, \h080a, \h1007, \h2007, \h0008, \h080b, \h1008, \h2008,
     \h0009, \h0904, \h1009, \h2009, \h000a, \h0905, \h100a, \h200a,
     \h000b, \h0906, \h100b, \h200b, \h000c, \h0907, \h100c, \h200c,
     \h000d, \h0908, \h100d, \h200d, \h000e, \h0909, \h100e, \h200e,
     \h000f, \h090a, \h100f, \h200f, \h0010, \h090b, \h1010, \h2010,
     \h0011, \h0a04, \h1011, \h2011, \h0012, \h0a05, \h1012, \h2012,
     \h0013, \h0a06, \h1013, \h2013, \h0014, \h0a07, \h1014, \h2014,
     \h0015, \h0a08, \h1015, \h2015, \h0016, \h0a09, \h1016, \h2016,
     \h0017, \h0a0a, \h1017, \h2017, \h0018, \h0a0b, \h1018, \h2018,
     \h0019, \h0b04, \h1019, \h2019, \h001a, \h0b05, \h101a, \h201a,
     \h001b, \h0b06, \h101b, \h201b, \h001c, \h0b07, \h101c, \h201c,
     \h001d, \h0b08, \h101d, \h201d, \h001e, \h0b09, \h101e, \h201e,
     \h001f, \h0b0a, \h101f, \h201f, \h0020, \h0b0b, \h1020, \h2020,
     \h0021, \h0c04, \h1021, \h2021, \h0022, \h0c05, \h1022, \h2022,
     \h0023, \h0c06, \h1023, \h2023, \h0024, \h0c07, \h1024, \h2024,
     \h0025, \h0c08, \h1025, \h2025, \h0026, \h0c09, \h1026, \h2026,
     \h0027, \h0c0a, \h1027, \h2027, \h0028, \h0c0b, \h1028, \h2028,
     \h0029, \h0d04, \h1029, \h2029, \h002a, \h0d05, \h102a, \h202a,
     \h002b, \h0d06, \h102b, \h202b, \h002c, \h0d07, \h102c, \h202c,
     \h002d, \h0d08, \h102d, \h202d, \h002e, \h0d09, \h102e, \h202e,
     \h002f, \h0d0a, \h102f, \h202f, \h0030, \h0d0b, \h1030, \h2030,
     \h0031, \h0e04, \h1031, \h2031, \h0032, \h0e05, \h1032, \h2032,
     \h0033, \h0e06, \h1033, \h2033, \h0034, \h0e07, \h1034, \h2034,
     \h0035, \h0e08, \h1035, \h2035, \h0036, \h0e09, \h1036, \h2036,
     \h0037, \h0e0a, \h1037, \h2037, \h0038, \h0e0b, \h1038, \h2038,
     \h0039, \h0f04, \h1039, \h2039, \h003a, \h0f05, \h103a, \h203a,
     \h003b, \h0f06, \h103b, \h203b, \h003c, \h0f07, \h103c, \h203c,
     \h0001, \h0f08, \h103d, \h203d, \h1001, \h0f09, \h103e, \h203e,
     \h1801, \h0f0a, \h103f, \h203f, \h2001, \h0f0b, \h1040, \h2040>>

(* char_table as written, indexed from 1: char_table[tag + 1].           *)
char_table == <<
     \h0001, \h0804, \h1001, \h2001, \h0002, \h0805, \h1002, \h2002,
     \h0003, \h0806, \h1003, \h2003, \h0004, \h0807, \h1004, \h2004,
     \h0005, \h0808, \h1005, \h2005, \h0006, \h0809, \h1006, \h2006,
     \h0007, \h080a, \h1007, \h2007, \h0008, \h080b, \h1008, \h2008,
     \h0009, \h0904, \h1009, \h2009, \h000a, \h0905, \h100a, \h200a,
     \h000b, \h0906, \h100b, \h200b, \h000c, \h0907, \h100c, \h200c,
     \h000d, \h0908, \h100d, \h200d, \h000e, \h0909, \h100e, \h200e,
     \h000f, \h090a, \h100f, \h200f, \h0010, \h090b, \h1010, \h2010,
     \h0011, \h0a04, \h1011, \h2011, \h0012, \h0a05, \h1012, \h2012,
     \h0013, \h0a06, \h1013, \h2013, \h0014, \h0a07, \h1014, \h2014,
     \h0015, \h0a08, \h1015, \h2015, \h0016, \h0a09, \h1016, \h2016,
     \h0017, \h0a0a, \h1017, \h2017, \h0018, \h0a0b, \h1018, \h2018,
     \h0019, \h0b04, \h1019, \h2019, \h001a, \h0b05, \h101a, \h201a,
     \h001b, \h0b06, \h101b, \h201b, \h001c, \h0b07, \h101c, \h201c,
     \h001d, \h0b08, \h101d, \h201d, \h001e, \h0b09, \h101e, \h201e,
     \h001f, \h0b0a, \h101f, \h201f, \h0020, \h0b0b, \h1020, \h2020,
     \h0021, \h0c04, \h1021, \h2021, \h0022, \h0c05, \h1022, \h2022,
     \h0023, \h0c06, \h1023, \h2023, \h0024, \h0c07, \h1024, \h2024,
     \h0025, \h0c08, \h1025, \h2025, \h0026, \h0c09, \h1026, \h2026,
     \h0027, \h0c0a, \h1027, \h2027, \h0028, \h0c0b, \h1028, \h2028,
     \h0029, \h0d04, \h1029, \h2029, \h002a, \h0d05, \h102a, \h202a,
     \h002b, \h0d06, \h102b, \h202b, \h002c, \h0d07, \h102c, \h202c,
     \h002d, \h0d08, \h102d, \h202d, \h002e, \h0d09, \h102e, \h202e,
     \h002f, \h0d0a, \h102f, \h202f, \h0030, \h0d0b, \h1030, \h2030,
     \h0031, \h0e04, \h1031, \h2031, \h0032, \h0e05, \h1032, \h2032,
     \h0033, \h0e06, \h1033, \h2033, \h0034, \h0e07, \h1034, \h2034,
     \h0035, \h0e08, \h1035, \h2035, \h0036, \h0e09, \h1036, \h2036,
     \h0037, \h0e0a, \h1037, \h2037, \h0038, \h0e0b, \h1038, \h2038,
     \h0039, \h0f04, \h1039, \h2039, \h003a, \h0f05, \h103a, \h203a,
     \h003b, \h0f06, \h103b, \h203b, \h003c, \h0f07, \h103c, \h203c,
     \h0801, \h0f08, \h103d, \h203d, \h1001, \h0f09, \h103e, \h203e,
     \h1801, \h0f0a, \h103f, \h203f, \h2001, \h0f0b, \h1040, \h2040>>

(* The three fields of an entry.                                          *)
EntryLength(entry) == entry % 256
EntryCopyOffset(entry) == (entry \div 256) % 8
EntryExtraBytes(entry) == entry \div 2048

=============================================================================
