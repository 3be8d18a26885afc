---------------------------- MODULE MCClassFile ----------------------------
(* A module with one routine, one variable and one record type, whose code     *)
(* asks for constants that share their texts with those of the class file.     *)
EXTENDS ClassFile

StringType == "Ljava/lang/String;"

MCRoutines  == << [name |-> "f", desc |-> "(I)V"] >>
MCVariables == << [name |-> "t", desc |-> "I"] >>
MCRecords   == { [class |-> "R_0", sig |-> "(LR_0;)LR_0;",
                  fields |-> << [name |-> "f", desc |-> "I"],
                                [name |-> "s", desc |-> StringType] >>] }
MCConstants == { String("Code"), <<"integer", 70000>>, MethodRef("M", "f", "(I)V"),
                 Interface("X", "g", "()V") }
=============================================================================
