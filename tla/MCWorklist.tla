----------------------------- MODULE MCWorklist -----------------------------
EXTENDS WorklistPrograms, Worklist

Values == DOMAIN Table
Ops == OpTable
Args == ArgTable
CalledBy == CalledTable
Parents == InTable
Params == ParamTable
Guids == GuidTable
Flags == FlagTable
Symbols == SymbolTable
Targeted == CalleeTable
CallsOf == CallerTable
=============================================================================
