------------------------------ MODULE FieldTables ------------------------------
(***************************************************************************)
(* The tables of fields.c that embed GF(2^8) into the large fields: row i  *)
(* holds the bytes of the i-th power of a root of x^8+x^4+x^3+x+1, lowest  *)
(* byte first.                                                             *)
(***************************************************************************)

Alpha128 == <<
  <<13,206,96,85,172,232,63,161,28,154,151,169,85,133,61,5>>,
  <<225,174,136,52,202,89,119,236,132,187,191,156,67,183,244,76>>,
  <<168,70,57,54,174,2,207,191,198,210,81,125,79,96,173,53>>,
  <<73,152,46,60,72,48,131,107,254,34,162,64,70,54,203,13>>,
  <<180,130,27,123,39,73,43,37,165,222,136,26,225,16,152,84>>,
  <<34,255,33,37,239,242,43,199,117,31,12,108,104,165,129,214>>,
  <<188,249,54,225,148,142,122,122,224,143,183,79,26,49,80,9>>>>

Alpha192 == <<
  <<99,151,56,111,213,163,200,204,234,189,110,150,108,215,101,230,98,54,107,14,20,200,11,49>>,
  <<187,80,244,124,158,97,51,178,38,63,99,213,25,31,246,123,52,219,145,212,38,55,147,218>>,
  <<13,138,57,245,19,44,109,156,25,141,50,6,119,227,50,130,246,78,117,60,112,13,59,12>>,
  <<93,247,43,189,124,116,32,221,46,210,88,0,171,66,85,122,81,18,188,148,156,81,236,69>>,
  <<248,43,206,138,226,12,213,216,132,190,222,103,183,140,22,8,69,112,166,75,106,20,125,214>>,
  <<186,225,213,238,118,156,15,151,72,32,215,95,174,247,234,243,67,234,108,105,95,189,166,41>>,
  <<113,133,6,101,194,93,148,245,211,233,6,57,98,253,25,96,176,196,135,15,84,86,124,199>>>>

Alpha256 == <<
  <<231,254,222,11,66,136,151,150,103,78,71,160,56,141,214,190,
    106,225,241,248,69,152,34,223,51,88,201,32,207,168,201,4>>,
  <<193,137,34,213,42,245,90,169,47,7,66,44,141,196,165,43,
    234,176,0,108,55,13,74,209,241,74,91,156,105,77,78,6>>,
  <<29,157,128,63,131,179,218,85,87,15,59,83,30,131,113,23,
    16,172,63,173,63,87,150,251,141,246,17,112,219,227,149,97>>,
  <<213,205,27,176,25,5,1,222,246,227,48,26,145,88,39,117,
    63,160,158,72,182,120,7,42,56,136,118,79,214,79,194,86>>,
  <<182,48,138,233,41,245,194,152,130,132,241,64,212,219,196,27,
    129,169,73,125,148,9,190,47,252,79,87,113,109,11,39,34>>,
  <<11,103,68,222,185,175,117,158,188,175,241,102,198,102,237,172,
    126,31,153,242,63,37,1,240,243,41,250,209,47,55,61,192>>,
  <<139,232,50,179,152,182,67,186,13,111,184,37,214,196,55,82,
    69,21,232,244,42,43,101,47,184,123,107,210,9,234,62,19>>>>
=============================================================================
